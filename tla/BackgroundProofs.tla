-------------------------- MODULE BackgroundProofs --------------------------
(***************************************************************************)
(* Invariants of the background components for every value of their        *)
(* constants: the Garage supervisor, buckets and access keys, the log      *)
(* scanner, the cron scheduler, the log of a build, tokens and sessions,   *)
(* and the keys of the event log.                                          *)
(***************************************************************************)
EXTENDS Cron, LogScan, Garage, Buckets, BuildLogs, Auth, EventLog, FiniteSetTheorems,
        SequenceTheorems, TLAPS

----------------------------------------------------------------------------
(* The Garage supervisor. *)

\* The types, and what ties a child to its number.
GarageTypes ==
    /\ spawned \in 0 .. MaxChildren /\ field \in 0 .. spawned
    /\ child \in [Children -> {"none", "running", "exited", "reaped"}]
    /\ \A c \in Children : (child[c] = "none") <=> (c > spawned)
    /\ cancelled \subseteq Children /\ closed \subseteq Children /\ taken \subseteq Children
    /\ stop \in [Stoppers -> [at : {"idle", "taken", "waiting"}, of : 0 .. MaxChildren]]
    /\ server \in {"up", "panic"}

\* A Stop that waits has cancelled its child's context, one that is idle has none.
Stopping ==
    \A p \in Stoppers :
       /\ stop[p].of \in 0 .. spawned
       /\ stop[p].at # "idle" => stop[p].of # 0
       /\ stop[p].at = "idle" => stop[p].of = 0
       /\ stop[p].at = "waiting" => stop[p].of \in cancelled

GarageInv == GarageTypes /\ Stopping /\ NoOrphan

LEMMA GarageInitInv == GarageInit => GarageInv
BY GarageAssumption DEF GarageInit, GarageInv, GarageTypes, Stopping, NoOrphan, Children

LEMMA GarageStep == GarageInv /\ [GarageNext]_garageVars => GarageInv'
<1> SUFFICES ASSUME GarageInv, [GarageNext]_garageVars PROVE GarageInv'
  OBVIOUS
<1> USE GarageAssumption DEF GarageInv, GarageTypes, Stopping, NoOrphan, Children
<1>1. CASE Start
  BY <1>1 DEF Start, Spawn
<1>2. CASE Shutdown
  BY <1>2 DEF Shutdown
<1>3. ASSUME NEW c \in Children, ChildEnds(c) PROVE GarageInv'
  BY <1>3 DEF ChildEnds
<1>4. ASSUME NEW c \in Children, Reap(c) PROVE GarageInv'
  <2>0. \/ server' = "panic" /\ closed' = closed
        \/ field \in Children \ closed /\ closed' = closed \cup {field} /\ server' = server
    BY <1>4 DEF Reap
  <2>5. /\ c <= spawned /\ child' = [child EXCEPT ![c] = "reaped"]
        /\ UNCHANGED <<spawned, field, cancelled, stop, taken>>
    BY <1>4 DEF Reap
  <2>6. /\ child' \in [Children -> {"none", "running", "exited", "reaped"}]
        /\ \A d \in Children : (child'[d] = "none") <=> (d > spawned)
    BY <2>5
  <2>7. closed' \subseteq Children /\ server' \in {"up", "panic"}
    BY <2>0
  <2>1. GarageTypes'
    BY <2>5, <2>6, <2>7
  <2>2. Stopping'
    BY <1>4 DEF Reap
  <2>3. NoOrphan'
    BY <1>4 DEF Reap
  <2> QED
    BY <2>1, <2>2, <2>3
<1>5. ASSUME NEW p \in Stoppers, StopTake(p) PROVE GarageInv'
  BY <1>5 DEF StopTake
<1>6. ASSUME NEW p \in Stoppers, StopCancel(p) PROVE GarageInv'
  BY <1>6 DEF StopCancel
<1>7. ASSUME NEW p \in Stoppers, StopReturns(p) PROVE GarageInv'
  BY <1>7 DEF StopReturns
<1>8. CASE UNCHANGED garageVars
  BY <1>8 DEF garageVars
<1> QED
  BY <1>1, <1>2, <1>3, <1>4, <1>5, <1>6, <1>7, <1>8
  DEF GarageNext, StopRuns, StopDone, StopTimesOut

\* The supervisor loses no child: whatever runs is in its fields, in the hands
\* of a Stop, or cancelled (supervisor.go:106-170).
THEOREM NoOrphanHolds == GarageSpec => []NoOrphan
<1>1. GarageInv => NoOrphan
  BY DEF GarageInv
<1> QED
  BY <1>1, GarageInitInv, GarageStep, PTL DEF GarageSpec

----------------------------------------------------------------------------
(* Buckets and access keys. *)

ReqPlaces == {"idle", "putrec", "delbucket", "delrec", "find", "allow", "keyrec",
           "delkey", "delkeyrec"}

ObjTypes ==
    /\ bucket \in [BucketIDs -> {"none", "empty", "filled", "gone"}]
    /\ maker \in [BucketIDs -> Projects \cup {NoProject}]
    /\ key \in [KeyIDs -> {"none", "live", "gone"}]
    /\ holder \in [KeyIDs -> Projects \cup {NoProject}]
    /\ grant \subseteq KeyIDs \X BucketIDs
    /\ brec \in [Projects -> BucketIDs \cup {0, NoRecord}]
    /\ krec \in [Projects -> KeyIDs \cup {0, NoRecord}]
    /\ named \in [Projects -> SUBSET BucketIDs]
    /\ req \in [Requests -> [at : ReqPlaces, project : Projects \cup {NoProject},
                             bucket : BucketIDs \cup {0}, key : KeyIDs \cup {0}]]
    /\ \A r \in Requests :
          /\ req[r].at # "idle" => req[r].project \in Projects
          /\ req[r].at = "idle" => req[r].bucket = 0
          /\ req[r].at \in {"find", "allow"} => req[r].key \in KeyIDs
          /\ req[r].at = "allow" => req[r].bucket \in BucketIDs

\* An id in anybody's hands is of a bucket, or a key, that Garage has made for
\* the project in question, or it is one that a client of the project has sent.
OwnBucket(b, p) ==
    b \in BucketIDs => b \in named[p] \/ (bucket[b] # "none" /\ maker[b] = p)
OwnKey(k, p) == k \in KeyIDs => key[k] # "none" /\ holder[k] = p

Owned ==
    /\ \A p \in Projects : OwnBucket(brec[p], p) /\ OwnKey(krec[p], p)
    /\ \A r \in Requests :
          OwnBucket(req[r].bucket, req[r].project) /\ OwnKey(req[r].key, req[r].project)
    /\ \A g \in grant :
          /\ key[g[1]] # "none" /\ bucket[g[2]] # "none" /\ holder[g[1]] \in Projects
          /\ holder[g[1]] = maker[g[2]] \/ g[2] \in named[holder[g[1]]]

ObjInv == ObjTypes /\ Owned

LEMMA NoRecordFresh == NoRecord \notin BucketIDs \cup KeyIDs \cup {0}
BY BucketsAssumption DEF NoRecord, BucketIDs, KeyIDs

LEMMA IDIsOwn ==
    ASSUME ObjInv, NEW p \in Projects
    PROVE ID(brec[p]) \in BucketIDs \cup {0} /\ OwnBucket(ID(brec[p]), p)
BY NoRecordFresh, BucketsAssumption DEF ObjInv, ObjTypes, Owned, OwnBucket, ID, BucketIDs

LEMMA ObjInitInv == ObjInit => ObjInv
BY NoRecordFresh, BucketsAssumption
DEF ObjInit, ObjInv, ObjTypes, Owned, OwnBucket, OwnKey, Idle, Holding, ReqPlaces, BucketIDs, KeyIDs

LEMMA ObjStep == ObjInv /\ [ObjNext]_objVars => ObjInv'
<1> SUFFICES ASSUME ObjInv, [ObjNext]_objVars PROVE ObjInv'
  OBVIOUS
<1>r. /\ NoRecord \notin BucketIDs \cup KeyIDs \cup {0} /\ NoProject \notin Projects
      /\ 0 \notin BucketIDs /\ 0 \notin KeyIDs
  BY NoRecordFresh, BucketsAssumption DEF BucketIDs, KeyIDs
<1> USE <1>r DEF ObjInv, ObjTypes, Owned, OwnBucket, OwnKey, Idle, Holding, ReqPlaces, garageState
<1>1. ASSUME NEW b \in BucketIDs, ObjectsChange(b) PROVE ObjInv'
  BY <1>1 DEF ObjectsChange, Live
<1>2. ASSUME NEW r \in Requests, NEW p \in Projects, NEW sent \in {0} \cup BucketIDs,
             PutBucket(r, p, sent)
      PROVE ObjInv'
  <2> DEFINE goes(b) ==
                req' = [req EXCEPT ![r] = Holding("putrec", p, b, 0)]
             kept == named' = [named EXCEPT ![p] = @ \cup ({sent} \ {0})]
             WithID(b) ==
                /\ goes(b) /\ OwnBucket(b, p)'
                /\ UNCHANGED named \/ kept
                /\ (\E c \in BucketIDs : MakeBucket(p, c)) \/ UNCHANGED garageState
  <2>1. kept => OwnBucket(sent, p)'
    OBVIOUS
  <2>2. PICK b \in BucketIDs \cup {0} : WithID(b)
    <3>1. ASSUME NEW b \in BucketIDs, MakeBucket(p, b), goes(b), UNCHANGED named PROVE WithID(b)
      <4>1. OwnBucket(b, p)'
        BY <3>1 DEF MakeBucket
      <4> QED
        BY <3>1, <4>1
    <3>2. ASSUME NEW b \in BucketIDs, MakeBucket(p, b), goes(sent), kept PROVE WithID(sent)
      BY <3>2, <2>1
    <3>3. ASSUME goes(sent), kept, UNCHANGED garageState PROVE WithID(sent)
      BY <3>3, <2>1
    <3> QED
      <4> HIDE DEF WithID
      <4> QED
        BY <1>2, <2>1, <3>1, <3>2, <3>3 DEF PutBucket, Goes
  <2>3. UNCHANGED <<brec, krec>>
    BY <1>2 DEF PutBucket
  <2>4. /\ \A c \in BucketIDs : bucket[c] # "none" => bucket'[c] # "none" /\ maker'[c] = maker[c]
        /\ bucket' \in [BucketIDs -> {"none", "empty", "filled", "gone"}]
        /\ maker' \in [BucketIDs -> Projects \cup {NoProject}]
        /\ UNCHANGED <<key, holder, grant>>
    BY <2>2, SMTT(30) DEF MakeBucket
  <2>7. /\ named' \in [Projects -> SUBSET BucketIDs]
        /\ \A q \in Projects : named[q] \subseteq named'[q]
    BY <2>2
  <2>5. ObjTypes'
    BY <2>2, <2>3, <2>4, <2>7
  <2>8. ASSUME NEW c \in BucketIDs \cup {0, NoRecord}, NEW q \in Projects, OwnBucket(c, q)
        PROVE  OwnBucket(c, q)'
    BY <2>4, <2>7, <2>8
  <2>9. \A q \in Projects : OwnBucket(brec[q], q)' /\ OwnKey(krec[q], q)'
    <3>1. \A q \in Projects : OwnBucket(brec[q], q)' /\ brec[q] \in BucketIDs \cup {0, NoRecord}
      BY <2>3, <2>8
    <3> QED
      BY <3>1, <2>3, <2>4
  <2>10. ASSUME NEW x \in Requests
         PROVE  OwnBucket(req[x].bucket, req[x].project)' /\ OwnKey(req[x].key, req[x].project)'
    <3>1. CASE x = r
      BY <2>2, <3>1
    <3>2. CASE x # r
      <4>1. req'[x] = req[x]
        BY <2>2, <3>2
      <4>2. CASE req[x].at = "idle"
        BY <4>1, <4>2, <2>4, <2>7
      <4>3. CASE req[x].at # "idle"
        BY <4>1, <4>3, <2>4, <2>7, <2>8
      <4> QED
        BY <4>2, <4>3
    <3> QED
      BY <3>1, <3>2
  <2>11. \A g \in grant' :
            /\ key'[g[1]] # "none" /\ bucket'[g[2]] # "none" /\ holder'[g[1]] \in Projects
            /\ holder'[g[1]] = maker'[g[2]] \/ g[2] \in named'[holder'[g[1]]]
    BY <2>4, <2>7
  <2>6. Owned'
    BY <2>9, <2>10, <2>11
  <2> QED
    BY <2>5, <2>6
<1>3. ASSUME NEW r \in Requests, PutBucketRecord(r) PROVE ObjInv'
  BY <1>3, SMTT(30) DEF PutBucketRecord, Answers
<1>4. ASSUME NEW r \in Requests, NEW p \in Projects, DeleteBucket(r, p) PROVE ObjInv'
  <2>1. PICK s \in {"delrec", "delbucket"} :
           req' = [req EXCEPT ![r] = Holding(s, p, brec[p], 0)]
    BY <1>4 DEF DeleteBucket, Goes
  <2>2. brec[p] \in BucketIDs \cup {0} /\ UNCHANGED <<garageState, brec, krec, named>>
    BY <1>4 DEF DeleteBucket
  <2>3. ObjTypes'
    BY <2>1, <2>2
  <2>4. Owned'
    BY <2>1, <2>2
  <2> QED
    BY <2>3, <2>4
<1>5. ASSUME NEW r \in Requests, DeleteBucketGarage(r) PROVE ObjInv'
  <2>1. /\ req[r].at = "delbucket" /\ req' = [req EXCEPT ![r] = [req[r] EXCEPT !.at = "delrec"]]
        /\ UNCHANGED <<maker, key, holder, brec, krec, named>> /\ grant' \subseteq grant
    BY <1>5 DEF DeleteBucketGarage, Goes
  <2>2. bucket' = bucket \/ bucket' = [bucket EXCEPT ![req[r].bucket] = "gone"]
    BY <1>5 DEF DeleteBucketGarage
  <2>3. /\ bucket' \in [BucketIDs -> {"none", "empty", "filled", "gone"}]
        /\ \A c \in BucketIDs : bucket[c] # "none" => bucket'[c] # "none"
    BY <2>2
  <2>4. ObjTypes'
    BY <2>1, <2>3
  <2>5. Owned'
    BY <2>1, <2>3
  <2> QED
    BY <2>4, <2>5
<1>6. ASSUME NEW r \in Requests, DeleteBucketRecord(r) PROVE ObjInv'
  <2>1. /\ req' = [req EXCEPT ![r] = Idle] /\ UNCHANGED <<garageState, named>>
        /\ \A q \in Projects : brec'[q] \in {brec[q], NoRecord} /\ krec'[q] \in {krec[q], NoRecord}
        /\ brec' \in [Projects -> BucketIDs \cup {0, NoRecord}]
        /\ krec' \in [Projects -> KeyIDs \cup {0, NoRecord}]
    BY <1>6 DEF DeleteBucketRecord, Answers
  <2>2. ObjTypes'
    BY <2>1
  <2>3. Owned'
    BY <2>1
  <2> QED
    BY <2>2, <2>3
<1>7. ASSUME NEW r \in Requests, NEW p \in Projects, CreateAccessKey(r, p) PROVE ObjInv'
  <2> DEFINE WithKey(k, s) ==
                /\ req' = [req EXCEPT ![r] = Holding(s, p, 0, k)]
                /\ OwnKey(k, p)' /\ (s = "find" => k \in KeyIDs)
                /\ (\E c \in KeyIDs : MakeKey(p, c)) \/ UNCHANGED garageState
  <2>1. PICK k \in KeyIDs \cup {0}, s \in {"find", "keyrec"} : WithKey(k, s)
    <3>1. ASSUME NEW k \in KeyIDs, MakeKey(p, k),
                 Goes(r, Holding("find", p, 0, k))
          PROVE WithKey(k, "find")
      <4>1. OwnKey(k, p)'
        BY <3>1 DEF MakeKey
      <4> QED
        BY <3>1, <4>1 DEF Goes
    <3>2. ASSUME Goes(r, Holding("keyrec", p, 0, 0)),
                 (\E k \in KeyIDs : MakeKey(p, k)) \/ UNCHANGED garageState
          PROVE WithKey(0, "keyrec")
      BY <3>2 DEF Goes
    <3> HIDE DEF WithKey
    <3> QED
      BY <1>7, <3>1, <3>2 DEF CreateAccessKey
  <2>2. UNCHANGED <<brec, krec, named>>
    BY <1>7 DEF CreateAccessKey
  <2> DEFINE KeysKept ==
                /\ \A c \in KeyIDs : key[c] # "none" => key'[c] # "none" /\ holder'[c] = holder[c]
                /\ key' \in [KeyIDs -> {"none", "live", "gone"}]
                /\ holder' \in [KeyIDs -> Projects \cup {NoProject}]
                /\ UNCHANGED <<bucket, maker, grant>>
  <2>3. KeysKept
    <3>1. ASSUME NEW c \in KeyIDs, MakeKey(p, c) PROVE KeysKept
      BY <3>1 DEF MakeKey
    <3> QED
      BY <2>1, <3>1
  <2>4. ObjTypes'
    BY <2>1, <2>2, <2>3
  <2>5. Owned'
    BY <2>1, <2>2, <2>3
  <2> QED
    BY <2>4, <2>5
<1>8. ASSUME NEW r \in Requests, FindBucket(r) PROVE ObjInv'
  <2>1. req[r].project \in Projects /\ req[r].key \in KeyIDs
    BY <1>8 DEF FindBucket
  <2>2. PICK b \in BucketIDs \cup {0} : b = ID(brec[req[r].project]) /\ OwnBucket(b, req[r].project)
    BY <2>1, IDIsOwn DEF ObjInv
  <2>3. PICK s \in {"keyrec", "allow"} :
           (s = "allow" => b \in BucketIDs) /\ req' = [req EXCEPT ![r] = Holding(s, req[r].project, b, req[r].key)]
    BY <1>8, <2>2 DEF FindBucket, Goes
  <2>4. UNCHANGED <<garageState, brec, krec, named>>
    BY <1>8 DEF FindBucket
  <2>5. ObjTypes'
    BY <2>1, <2>2, <2>3, <2>4
  <2>6. Owned'
    BY <2>1, <2>2, <2>3, <2>4
  <2> QED
    BY <2>5, <2>6
<1>9. ASSUME NEW r \in Requests, AllowKey(r) PROVE ObjInv'
  <2>1. /\ req[r].at = "allow" /\ req' = [req EXCEPT ![r] = [req[r] EXCEPT !.at = "keyrec"]]
        /\ UNCHANGED <<bucket, maker, key, holder, brec, krec, named>>
    BY <1>9 DEF AllowKey, Goes
  <2>2. \/ grant' = grant
        \/ /\ Live(req[r].bucket) /\ key[req[r].key] = "live"
           /\ grant' = grant \cup {<<req[r].key, req[r].bucket>>}
    BY <1>9 DEF AllowKey
  <2>3. ObjTypes'
    BY <2>1, <2>2 DEF Live
  <2>4. Owned'
    BY <2>1, <2>2 DEF Live
  <2> QED
    BY <2>3, <2>4
<1>10. ASSUME NEW r \in Requests, CreateKeyRecord(r) PROVE ObjInv'
  <2>1. /\ req[r].at = "keyrec" /\ req' = [req EXCEPT ![r] = Idle]
        /\ UNCHANGED <<garageState, brec, named>>
        /\ krec' = krec \/ krec' = [krec EXCEPT ![req[r].project] = req[r].key]
    BY <1>10 DEF CreateKeyRecord, Answers
  <2>2. ObjTypes'
    BY <2>1
  <2>3. Owned'
    BY <2>1
  <2> QED
    BY <2>2, <2>3
<1>11. ASSUME NEW r \in Requests, NEW p \in Projects, DeleteAccessKey(r, p) PROVE ObjInv'
  <2>1. PICK s \in {"delkeyrec", "delkey"} :
           req' = [req EXCEPT ![r] = Holding(s, p, 0, krec[p])]
    BY <1>11 DEF DeleteAccessKey, Goes
  <2>2. krec[p] \in KeyIDs \cup {0} /\ UNCHANGED <<garageState, brec, krec, named>>
    BY <1>11 DEF DeleteAccessKey
  <2>3. ObjTypes'
    BY <2>1, <2>2
  <2>4. Owned'
    BY <2>1, <2>2
  <2> QED
    BY <2>3, <2>4
<1>12. ASSUME NEW r \in Requests, DeleteKeyGarage(r) PROVE ObjInv'
  <2>1. /\ req[r].at = "delkey" /\ req' = [req EXCEPT ![r] = [req[r] EXCEPT !.at = "delkeyrec"]]
        /\ UNCHANGED <<bucket, maker, holder, brec, krec, named>> /\ grant' \subseteq grant
    BY <1>12 DEF DeleteKeyGarage, Goes
  <2>2. key' = key \/ key' = [key EXCEPT ![req[r].key] = "gone"]
    BY <1>12 DEF DeleteKeyGarage
  <2>3. /\ key' \in [KeyIDs -> {"none", "live", "gone"}]
        /\ \A c \in KeyIDs : key[c] # "none" => key'[c] # "none"
    BY <2>2
  <2>4. ObjTypes'
    BY <2>1, <2>3
  <2>5. Owned'
    BY <2>1, <2>3
  <2> QED
    BY <2>4, <2>5
<1>13. ASSUME NEW r \in Requests, DeleteKeyRecord(r) PROVE ObjInv'
  <2>1. /\ req' = [req EXCEPT ![r] = Idle] /\ UNCHANGED <<garageState, named>>
        /\ \A q \in Projects : brec'[q] \in {brec[q], NoRecord} /\ krec'[q] \in {krec[q], NoRecord}
        /\ brec' \in [Projects -> BucketIDs \cup {0, NoRecord}]
        /\ krec' \in [Projects -> KeyIDs \cup {0, NoRecord}]
    BY <1>13 DEF DeleteKeyRecord, Answers
  <2>2. ObjTypes'
    BY <2>1
  <2>3. Owned'
    BY <2>1
  <2> QED
    BY <2>2, <2>3
<1>14. CASE UNCHANGED objVars
  BY <1>14 DEF objVars
<1> QED
  BY <1>1, <1>2, <1>3, <1>4, <1>5, <1>6, <1>7, <1>8, <1>9, <1>10, <1>11, <1>12, <1>13, <1>14
  DEF ObjNext, Step

\* A record names no bucket but one made for its own project or sent by one of
\* its clients, and a key opens no other (handlers.go:420-541).
THEOREM ProjectsApartHolds == ObjSpec => []ProjectsApart
<1>1. ObjInv => BucketsApart
  BY DEF ObjInv, ObjTypes, Owned, OwnBucket, BucketsApart
<1>2. ObjInv => KeysApart
  BY DEF ObjInv, Owned, KeysApart
<1>3. ObjInv => ProjectsApart
  BY <1>1, <1>2 DEF ProjectsApart
<1> QED
  BY <1>3, ObjInitInv, ObjStep, PTL DEF ObjSpec

----------------------------------------------------------------------------
(* The log scanner. *)

\* Followers are started in order; the scanner knows only followers of the
\* container in question; a line in hand is the first one that can be late.
Known ==
    /\ \A f \in Followers : /\ f > started <=> fol[f].ctx = "none"
                            /\ f > started => fol[f].at = "none"
                            /\ f <= started => fol[f].of \in Ctrs
    /\ \A c \in Ctrs : known[c] # 0 => known[c] <= started /\ fol[known[c]].of = c
    /\ \A f \in Followers :
          fol[f].at = "line" \/ fol[f].ctx = "live" => fol[f].late = 0

ScanInv == ScanTypeOK /\ Known /\ OneFollower

LEMMA ScanInitInv == ScanInit => ScanInv
BY LogScanAssumption DEF ScanInit, ScanInv, ScanTypeOK, Known, OneFollower, Followers

FolType == [of : Ctrs \cup {NoCtr}, at : {"none", "new", "attached", "line", "eof", "ended"},
            ctx : {"none", "live", "cancelled"}, late : 0 .. 1]

\* A step that starts no follower, and forgets only those it cancels.
LEMMA NoStart ==
    ASSUME ScanInv, fol' \in [Followers -> FolType], known' \in [Ctrs -> 0 .. MaxFollowers],
           scanner' \in {"tick", "cancel", "start", "down"}, want' \subseteq Ctrs,
           UNCHANGED <<phase, started>>, task' \in [Ctrs -> {"up", "none"}],
           changes' \in 0 .. MaxChanges,
           \A f \in Followers :
              /\ fol'[f].of = fol[f].of
              /\ fol'[f].ctx = fol[f].ctx \/ (fol'[f].ctx = "cancelled" /\ f <= started)
              /\ f > started => fol'[f].at = "none"
              /\ fol'[f].at = "line" \/ fol'[f].ctx = "live" => fol'[f].late = 0,
           \A c \in Ctrs :
              \/ known'[c] = known[c]
              \/ known'[c] = 0 /\ (known[c] # 0 => fol'[known[c]].ctx = "cancelled")
    PROVE ScanInv'
<1> USE LogScanAssumption DEF ScanInv, Followers
<1>1. ScanTypeOK'
  BY DEF ScanTypeOK, FolType
<1>2. Known'
  BY DEF ScanTypeOK, Known, FolType
<1>3. OneFollower'
  <2>1. \A f \in Followers : fol'[f] \in FolType /\ fol'[f].late \in 0 .. 1
    BY DEF FolType
  <2>2. ASSUME NEW f \in Followers, fol'[f].ctx = "live"
        PROVE  fol'[f].of # NoCtr /\ known'[fol'[f].of] = f
    <3>1. /\ fol[f].ctx = "live" /\ fol[f].of \in Ctrs /\ known[fol[f].of] = f
          /\ fol'[f].of = fol[f].of /\ f # 0
      <4>1. fol'[f].of = fol[f].of /\ fol[f].ctx = "live"
        BY <2>2
      <4>2. fol[f].of \in Ctrs \cup {NoCtr} /\ f # 0
        BY DEF ScanTypeOK
      <4>3. fol[f].of # NoCtr /\ known[fol[f].of] = f
        BY <4>1 DEF OneFollower
      <4> QED
        BY <4>1, <4>2, <4>3
    <3> QED
      BY <2>2, <3>1
  <2> QED
    BY <2>1, <2>2 DEF OneFollower
<1> QED
  BY <1>1, <1>2, <1>3

\* A step of one follower that leaves its container and context alone.
LEMMA FollowerStep ==
    ASSUME ScanInv, NEW f \in Followers, f <= started,
           NEW s \in {"new", "attached", "line", "eof", "ended"}, NEW n \in 0 .. 1,
           s = "line" \/ fol[f].ctx = "live" => n = 0,
           fol' = [fol EXCEPT ![f].at = s, ![f].late = n], UNCHANGED <<world, scan>>
    PROVE ScanInv'
<1>1. /\ fol \in [Followers -> FolType] /\ started \in Nat
      /\ \A g \in Followers :
            /\ g > started => fol[g].at = "none"
            /\ fol[g].at = "line" \/ fol[g].ctx = "live" => fol[g].late = 0
  BY LogScanAssumption DEF ScanInv, ScanTypeOK, Known, FolType
<1>2. fol' \in [Followers -> FolType]
  BY <1>1, ZenonT(40) DEF FolType
<1>3. \A g \in Followers :
         /\ fol'[g].of = fol[g].of /\ fol'[g].ctx = fol[g].ctx
         /\ g > started => fol'[g].at = "none"
         /\ fol'[g].at = "line" \/ fol'[g].ctx = "live" => fol'[g].late = 0
  BY <1>1 DEF FolType, Followers
<1> QED
  BY <1>2, <1>3, NoStart DEF ScanInv, ScanTypeOK, world, scan

LEMMA FollowerMoves ==
    ASSUME ScanInv, NEW f \in Followers, f <= started,
           NEW s \in {"new", "attached", "line", "eof", "ended"},
           s = "line" => fol[f].ctx = "live", Moves(f, s)
    PROVE ScanInv'
<1>1. fol[f].late \in 0 .. 1 /\ (s = "line" => fol[f].late = 0)
  BY DEF ScanInv, ScanTypeOK, Known
<1> QED
BY <1>1, LogScanAssumption
DEF ScanInv, ScanTypeOK, Known, OneFollower, Followers, Moves, world, scan

LEMMA ScanStep == ScanInv /\ [ScanNext]_scanVars => ScanInv'
<1> SUFFICES ASSUME ScanInv, [ScanNext]_scanVars PROVE ScanInv'
  OBVIOUS
<1>0. \A f \in Followers : fol[f].at # "none" => f <= started
  BY LogScanAssumption DEF ScanInv, ScanTypeOK, Known, Followers
<1>1. ASSUME NEW c \in Ctrs, PhaseChanges(c) PROVE ScanInv'
  BY <1>1, LogScanAssumption
  DEF PhaseChanges, Change, ScanInv, ScanTypeOK, Known, OneFollower, Followers, scan
<1>2. ASSUME NEW c \in Ctrs, TaskChanges(c) PROVE ScanInv'
  <2>1. /\ \A f \in Followers : fol'[f] = IF fol[f].of = c /\ fol[f].at = "attached"
                                      THEN [fol[f] EXCEPT !.at = "eof"] ELSE fol[f]
        /\ fol' \in [Followers -> FolType]
    BY <1>2 DEF TaskChanges, ScanInv, ScanTypeOK, FolType
  <2>2. \A f \in Followers :
           /\ fol'[f].of = fol[f].of /\ fol'[f].ctx = fol[f].ctx
           /\ f > started => fol'[f].at = "none"
           /\ fol'[f].at = "line" \/ fol'[f].ctx = "live" => fol'[f].late = 0
    BY <2>1 DEF ScanInv, ScanTypeOK, Known
  <2>3. /\ task' \in [Ctrs -> {"up", "none"}] /\ changes' \in 0 .. MaxChanges
        /\ UNCHANGED <<phase, scan>>
    BY <1>2, LogScanAssumption DEF TaskChanges, ScanInv, ScanTypeOK
  <2> QED
    BY <2>1, <2>2, <2>3, NoStart DEF ScanInv, ScanTypeOK, scan
<1>3. CASE ScanList
  BY <1>3 DEF ScanList, ScanInv, ScanTypeOK, Known, OneFollower, world
<1>4. CASE ScanCancel
  <2>1. /\ \A f \in Followers : fol'[f] = IF \E c \in Ctrs \ want : known[c] = f
                                      THEN [fol[f] EXCEPT !.ctx = "cancelled"] ELSE fol[f]
        /\ fol' \in [Followers -> FolType]
    BY <1>4 DEF ScanCancel, ScanInv, ScanTypeOK, FolType
  <2>2. ASSUME NEW f \in Followers
        PROVE  /\ fol'[f].of = fol[f].of
               /\ fol'[f].ctx = fol[f].ctx \/ (fol'[f].ctx = "cancelled" /\ f <= started)
               /\ f > started => fol'[f].at = "none"
               /\ fol'[f].at = "line" \/ fol'[f].ctx = "live" => fol'[f].late = 0
    <3>1. CASE \E c \in Ctrs \ want : known[c] = f
      <4>1. f <= started /\ f \in Nat /\ started \in Nat
        BY <3>1, LogScanAssumption DEF ScanInv, ScanTypeOK, Known, Followers
      <4> QED
        BY <2>1, <3>1, <4>1 DEF ScanInv, ScanTypeOK, Known
    <3>2. CASE ~ \E c \in Ctrs \ want : known[c] = f
      BY <2>1, <3>2 DEF ScanInv, ScanTypeOK, Known
    <3> QED
      BY <3>1, <3>2
  <2>3. ASSUME NEW c \in Ctrs
        PROVE  \/ known'[c] = known[c]
               \/ known'[c] = 0 /\ (known[c] # 0 => fol'[known[c]].ctx = "cancelled")
    <3>1. CASE c \in want
      BY <1>4, <3>1 DEF ScanCancel
    <3>2. CASE c \notin want /\ known[c] # 0
      <4>1. known[c] \in Followers
        BY <3>2, LogScanAssumption DEF ScanInv, ScanTypeOK, Followers
      <4> QED
        BY <1>4, <2>1, <3>2, <4>1 DEF ScanCancel, ScanInv, ScanTypeOK
    <3>3. CASE c \notin want /\ known[c] = 0
      BY <1>4, <3>3 DEF ScanCancel
    <3> QED
      BY <3>1, <3>2, <3>3
  <2>4. /\ known' \in [Ctrs -> 0 .. MaxFollowers] /\ scanner' = "start"
        /\ UNCHANGED <<world, want, started>>
    BY <1>4, LogScanAssumption DEF ScanCancel, ScanInv, ScanTypeOK
  <2> QED
    BY <2>1, <2>2, <2>3, <2>4, NoStart DEF ScanInv, ScanTypeOK, world
<1>5. ASSUME NEW c \in Ctrs, ScanStart(c) PROVE ScanInv'
  <2>1. CASE known[c] # 0
    BY <1>5, <2>1 DEF ScanStart, ScanInv, ScanTypeOK, Known, OneFollower, world
  <2>2. CASE known[c] = 0
    <3>1. PICK n \in Followers :
             /\ n = started + 1 /\ started' = n /\ known' = [known EXCEPT ![c] = n]
             /\ fol' = [fol EXCEPT ![n] = [of |-> c, at |-> "new", ctx |-> "live", late |-> 0]]
      BY <1>5, <2>2, LogScanAssumption DEF ScanStart, Starts, ScanInv, ScanTypeOK, Followers
    <3>2. want' \subseteq Ctrs /\ UNCHANGED <<world, scanner>>
      BY <1>5 DEF ScanStart, ScanInv, ScanTypeOK
    <3> USE LogScanAssumption DEF ScanInv, Followers
    <3>3. ScanTypeOK'
      BY <3>1, <3>2 DEF ScanTypeOK, world
    <3>4. Known'
      BY <3>1 DEF ScanTypeOK, Known
    <3>5. OneFollower'
      BY <2>2, <3>1 DEF ScanTypeOK, Known, OneFollower
    <3> QED
      BY <3>3, <3>4, <3>5
  <2> QED
    BY <2>1, <2>2
<1>6. CASE ScanDone
  BY <1>6 DEF ScanDone, ScanInv, ScanTypeOK, Known, OneFollower, world
<1>7. CASE ScanShutdown
  <2>1. /\ \A f \in Followers :
              fol'[f] = IF f <= started THEN [fol[f] EXCEPT !.ctx = "cancelled"] ELSE fol[f]
        /\ fol' \in [Followers -> FolType]
    BY <1>7 DEF ScanShutdown, ScanInv, ScanTypeOK, FolType
  <2>2. \A f \in Followers :
           /\ fol'[f].of = fol[f].of
           /\ fol'[f].ctx = fol[f].ctx \/ (fol'[f].ctx = "cancelled" /\ f <= started)
           /\ f > started => fol'[f].at = "none"
           /\ fol'[f].at = "line" \/ fol'[f].ctx = "live" => fol'[f].late = 0
    BY <2>1, LogScanAssumption DEF ScanInv, ScanTypeOK, Known, Followers
  <2>3. ASSUME NEW c \in Ctrs, known[c] # 0 PROVE fol'[known[c]].ctx = "cancelled"
    <3>1. known[c] \in Followers /\ known[c] <= started
      BY <2>3, LogScanAssumption DEF ScanInv, ScanTypeOK, Known, Followers
    <3> QED
      BY <2>1, <3>1 DEF ScanInv, ScanTypeOK
  <2>4. /\ known' = [c \in Ctrs |-> 0] /\ scanner' = "down" /\ UNCHANGED <<world, want, started>>
    BY <1>7 DEF ScanShutdown
  <2>5. known' \in [Ctrs -> 0 .. MaxFollowers]
    BY <2>4, LogScanAssumption
  <2> QED
    BY <2>1, <2>2, <2>3, <2>4, <2>5, NoStart DEF ScanInv, ScanTypeOK, world
<1>8. ASSUME NEW f \in Followers, Attach(f) PROVE ScanInv'
  BY <1>0, <1>8, FollowerMoves DEF Attach
<1>9. ASSUME NEW f \in Followers, ReadLine(f) PROVE ScanInv'
  BY <1>0, <1>9, FollowerMoves DEF ReadLine
<1>10. ASSUME NEW f \in Followers, EmitLine(f) PROVE ScanInv'
  <2>1. f <= started /\ fol[f].late = 0
    BY <1>0, <1>10 DEF EmitLine, ScanInv, Known
  <2> DEFINE s == IF task[fol[f].of] = "up" THEN "attached" ELSE "eof"
             n == IF fol[f].ctx = "live" THEN 0 ELSE 1
  <2>2. /\ fol' = [fol EXCEPT ![f].at = s, ![f].late = n]
        /\ UNCHANGED <<world, scan>>
    BY <1>10, <2>1 DEF EmitLine, ScanInv, ScanTypeOK
  <2>3. s \in {"new", "attached", "line", "eof", "ended"} /\ s # "line" /\ n \in 0 .. 1
    OBVIOUS
  <2>4. fol[f].ctx = "live" => n = 0
    OBVIOUS
  <2> HIDE DEF s, n
  <2> QED
    BY <2>1, <2>2, <2>3, <2>4, FollowerStep
<1>11. ASSUME NEW f \in Followers, Killed(f) PROVE ScanInv'
  BY <1>0, <1>11, FollowerMoves DEF Killed
<1>12. ASSUME NEW f \in Followers, TooLong(f) PROVE ScanInv'
  BY <1>0, <1>12, FollowerMoves DEF TooLong
<1>13. ASSUME NEW f \in Followers, Ends(f) PROVE ScanInv'
  BY <1>0, <1>13, FollowerMoves DEF Ends
<1>14. CASE UNCHANGED scanVars
  BY <1>14 DEF scanVars, world, scan, ScanInv, ScanTypeOK, Known, OneFollower
<1> QED
  BY <1>1, <1>2, <1>3, <1>4, <1>5, <1>6, <1>7, <1>8, <1>9, <1>10, <1>11, <1>12, <1>13, <1>14
  DEF ScanNext, ScanRuns, FollowerRuns

\* The scanner holds the cancel of every follower that was not cancelled, one
\* for each container, and a cancelled one reports at most the line it had in
\* hand (logscan.go:78-129).
THEOREM OneFollowerHolds == ScanSpec => []OneFollower
<1>1. ScanInv => OneFollower
  BY DEF ScanInv
<1> QED
  BY <1>1, ScanInitInv, ScanStep, PTL DEF ScanSpec

----------------------------------------------------------------------------
(* The cron scheduler. *)

\* Ids are given out in order, and the id in the map is of an entry there is.
EntriesSound ==
    /\ \A e \in live : e.id <= made
    /\ entry <= made /\ (entry # 0 => \E e \in live : e.id = entry)

\* A scheduler that is down, or has not subscribed, has nothing to read; the
\* event of the last write says whether there is a record.
EventsSound ==
    /\ sub # "subscribed" => chan = <<>>
    /\ sub = "down" => copy = NoFn /\ entry = 0 /\ live = {}
    /\ heard <= writes
    /\ \A e \in emitting : /\ e.n <= writes
                           /\ e.n = writes => (e.op = "delete" <=> fn = NoFn)

\* A scheduler that has received the event of the last write has it at the end
\* of its channel, or has read the record as it is, or has worked it off.
Catching ==
    sub # "down" /\ heard = writes =>
       /\ chan # <<>> => (chan[Len(chan)].op = "delete" <=> fn = NoFn)
       /\ chan = <<>> /\ copy # NoFn => copy = fn

CronInv == CronTypeOK /\ EntriesSound /\ EventsSound /\ Catching /\ CronFollows /\ StrayEntries

LEMMA AcceptedCount ==
    ASSUME NEW t \in TriggerLists
    PROVE /\ Cardinality(Accepted(t)) \in Nat
          /\ Cardinality(Accepted(t)) = 0 <=> Accepted(t) = {}
<1>1. DOMAIN t = 1 .. Len(t) /\ Len(t) \in Nat
  BY CronAssumption
<1>2. IsFiniteSet(Accepted(t))
  <2>1. IsFiniteSet(1 .. Len(t))
    BY <1>1, FS_Interval
  <2>2. Accepted(t) \in SUBSET (1 .. Len(t))
    BY <1>1 DEF Accepted
  <2> QED
    BY <2>1, <2>2, FS_Subset
<1> QED
  BY <1>2, FS_CardinalityType, FS_EmptySet

LEMMA AcceptedNone == Accepted(Triggers(NoFn)) = {}
BY DEF Accepted, Triggers

LEMMA CronInitInv == CronInit => CronInv
BY CronAssumption
DEF CronInit, CronInv, CronTypeOK, EntriesSound, EventsSound, Catching, CronFollows, StrayEntries,
    Event, Ids

LEMMA CronSyncKeeps == CronInv /\ CronSync => CronInv'
<1> SUFFICES ASSUME CronInv, CronSync PROVE CronInv'
  OBVIOUS
<1> DEFINE n == Cardinality(Accepted(copy))
           ids == (made + 1) .. (made + n)
           new == {[id |-> i, of |-> copy] : i \in ids}
           old == {e \in live : e.id # entry}
<1>1. /\ copy \in TriggerLists /\ copy' = NoFn /\ n \in Nat /\ (n = 0 <=> Accepted(copy) = {})
      /\ copy # NoFn
  BY AcceptedCount DEF CronSync, CronInv, CronTypeOK
<1>2. /\ ids \subseteq Ids /\ made' = made + n /\ live' = old \cup new
      /\ entry' = IF ids = {} THEN 0 ELSE made'
      /\ UNCHANGED <<record, sub, chan, heard, crashes>>
  BY DEF CronSync, sync
<1>3. made \in Nat /\ (ids = {} <=> n = 0) /\ (n > 0 => made + n \in ids)
  BY <1>1, CronAssumption DEF CronInv, CronTypeOK
<1> HIDE DEF n
<1>4. /\ \A e \in old : e \in live /\ e.id \in Ids /\ e.id <= made /\ e.of \in TriggerLists
      /\ \A e \in new : e.id \in ids /\ e.of = copy
      /\ \A i \in ids : [id |-> i, of |-> copy] \in new
      /\ \A e \in new : e \in [id : Ids, of : TriggerLists]
  BY <1>1, <1>2 DEF CronInv, CronTypeOK, EntriesSound
<1>5. /\ n = 0 => entry' = 0
      /\ n > 0 => entry' = made + n /\ [id |-> made + n, of |-> copy] \in live'
  BY <1>2, <1>3, <1>4
<1> HIDE DEF old, new
<1>6. CronTypeOK'
  <2>1. made' \in 0 .. MaxEntries /\ entry' \in Ids \cup {0}
    BY <1>1, <1>2, <1>3, <1>5, CronAssumption DEF CronInv, CronTypeOK, Ids
  <2>2. live' \subseteq [id : Ids, of : TriggerLists]
    BY <1>2, <1>4 DEF CronInv, CronTypeOK, old
  <2> QED
    BY <1>1, <1>2, <2>1, <2>2 DEF CronInv, CronTypeOK, record
<1>7. EntriesSound'
  <2>1. \A e \in live' : e.id <= made'
    BY <1>1, <1>2, <1>3, <1>4 DEF Ids
  <2> QED
    BY <1>1, <1>2, <1>3, <1>5, <2>1 DEF EntriesSound
<1>8. EventsSound' /\ Catching'
  BY <1>1, <1>2 DEF CronInv, EventsSound, Catching, record
<1>9. CronFollows'
  <2> SUFFICES ASSUME sub # "down", heard = writes, chan = <<>>
      PROVE /\ (entry' = 0) = (Accepted(Triggers(fn)) = {})
            /\ \A e \in live' : e.id = entry' => e.of = fn
            /\ entry' # 0 => \E e \in live' : e.id = entry'
    BY <1>2 DEF CronFollows, record
  <2>1. copy = fn /\ Triggers(fn) = copy
    BY <1>1 DEF CronInv, Catching, Triggers
  <2>2. \A e \in live' : e.id = entry' => e.of = fn
    BY <1>1, <1>2, <1>3, <1>4, <1>5, <2>1 DEF Ids
  <2> QED
    BY <1>1, <1>3, <1>5, <2>1, <2>2
<1>10. StrayEntries'
  <2>1. ASSUME NEW e \in old PROVE Cardinality(Accepted(e.of)) > 1
    BY <2>1 DEF old, CronInv, StrayEntries
  <2>2. ASSUME NEW e \in new PROVE e.id = entry' \/ Cardinality(Accepted(e.of)) > 1
    <3>1. e.id \in ids /\ e.of = copy /\ n > 0
      BY <1>1, <1>3, <1>4
    <3> QED
      BY <1>1, <1>3, <1>5, <3>1 DEF n
  <2> QED
    BY <1>2, <2>1, <2>2 DEF StrayEntries
<1> QED
  BY <1>6, <1>7, <1>8, <1>9, <1>10 DEF CronInv

LEMMA CronStep == CronInv /\ [CronNext]_cronVars => CronInv'
<1> SUFFICES ASSUME CronInv, [CronNext]_cronVars PROVE CronInv'
  OBVIOUS
<1> USE CronAssumption DEF CronInv, EventsSound, Catching
<1>1. ASSUME NEW t \in TriggerLists, PutFunction(t) PROVE CronInv'
  BY <1>1 DEF PutFunction, Write, scheduler, CronTypeOK, EntriesSound, CronFollows, StrayEntries,
              Event, Writes
<1>2. CASE DeleteFunction
  BY <1>2 DEF DeleteFunction, Write, scheduler, CronTypeOK, EntriesSound, CronFollows,
              StrayEntries, Event, Writes
<1>3. CASE EmitEvent
  <2>1. PICK e \in emitting :
           /\ emitting' = emitting \ {e}
           /\ \/ /\ sub = "subscribed" /\ Len(chan) < CronCap
                 /\ chan' = Append(chan, e) /\ heard' = e.n
              \/ UNCHANGED <<chan, heard>>
           /\ UNCHANGED <<fn, writes, sub, copy, entry, live, made, crashes>>
    BY <1>3 DEF EmitEvent
  <2>2. CASE UNCHANGED <<chan, heard>>
    BY <2>1, <2>2 DEF CronTypeOK, EntriesSound, CronFollows, StrayEntries
  <2>3. CASE sub = "subscribed" /\ Len(chan) < CronCap /\ chan' = Append(chan, e) /\ heard' = e.n
    <3>1. e \in Event /\ chan \in Seq(Event)
      BY DEF CronTypeOK
    <3>2. /\ chan' \in Seq(Event) /\ Len(chan') <= CronCap
          /\ chan' # <<>> /\ chan'[Len(chan')] = e
      BY <2>3, <3>1
    <3>3. CronTypeOK'
      BY <2>1, <2>3, <3>1, <3>2 DEF CronTypeOK, Event, Writes
    <3>4. EntriesSound' /\ StrayEntries'
      BY <2>1 DEF EntriesSound, StrayEntries
    <3>5. EventsSound' /\ Catching' /\ CronFollows'
      BY <2>1, <2>3, <3>2 DEF CronFollows
    <3> QED
      BY <3>3, <3>4, <3>5
  <2> QED
    BY <2>1, <2>2, <2>3
<1>4. CASE CronStart
  <2>1. Accepted(Triggers(NoFn)) = {}
    BY AcceptedNone
  <2> QED
    BY <1>4, <2>1 DEF CronStart, record, CronTypeOK, EntriesSound, CronFollows, StrayEntries
<1>5. CASE CronSubscribe
  BY <1>5 DEF CronSubscribe, record, CronTypeOK, EntriesSound, CronFollows, StrayEntries
<1>6. ASSUME chan # <<>>, chan' = Tail(chan), UNCHANGED <<fn, writes, sub, heard>>
      PROVE /\ chan' \in Seq(Event) /\ Len(chan') <= CronCap
            /\ chan' # <<>> => chan'[Len(chan')] = chan[Len(chan)]
            /\ chan' = <<>> => Head(chan) = chan[Len(chan)]
  <2>1. chan \in Seq(Event) /\ Len(chan) <= CronCap
    BY DEF CronTypeOK
  <2>2. Len(chan) \in Nat /\ Len(chan) >= 1 /\ Head(chan) = chan[1]
    BY <1>6, <2>1
  <2>3. chan' \in Seq(Event) /\ Len(chan') = Len(chan) - 1
    BY <1>6, <2>1, <2>2
  <2>4. chan' # <<>> => Len(chan') >= 1 /\ chan'[Len(chan')] = chan[Len(chan)]
    BY <1>6, <2>1, <2>2, <2>3
  <2>5. chan' = <<>> => Len(chan) = 1
    BY <2>2, <2>3
  <2> QED
    BY <2>1, <2>2, <2>3, <2>4, <2>5
<1>7. CASE CronDelete
  <2>1. /\ chan # <<>> /\ chan' = Tail(chan) /\ Head(chan).op = "delete" /\ sub = "subscribed"
        /\ live' = {e \in live : e.id # entry} /\ entry' = 0 /\ copy = NoFn
        /\ UNCHANGED <<made, record, sub, copy, heard, crashes>>
    BY <1>7 DEF CronDelete, removeKey
  <2>2. CronTypeOK' /\ EntriesSound' /\ EventsSound' /\ Catching'
    BY <1>6, <2>1 DEF CronTypeOK, EntriesSound, record
  <2>3. CronFollows'
    BY <1>6, <2>1, AcceptedNone DEF CronFollows, CronTypeOK, Ids, record
  <2>4. StrayEntries'
    BY <2>1 DEF StrayEntries
  <2> QED
    BY <2>2, <2>3, <2>4
<1>8. CASE CronPut
  <2>1. /\ chan # <<>> /\ chan' = Tail(chan) /\ Head(chan).op = "put" /\ sub = "subscribed"
        /\ copy' = fn /\ UNCHANGED <<record, sub, entry, live, made, heard, crashes>>
    BY <1>8 DEF CronPut
  <2>2. CronTypeOK' /\ EntriesSound' /\ EventsSound' /\ Catching' /\ StrayEntries'
    BY <1>6, <2>1 DEF CronTypeOK, EntriesSound, StrayEntries, record
  <2>3. CronFollows'
    BY <1>6, <2>1 DEF CronFollows, record
  <2> QED
    BY <2>2, <2>3
<1>9. CASE CronSync
  BY <1>9, CronSyncKeeps
<1>10. CASE CronCrash
  BY <1>10 DEF CronCrash, CronTypeOK, EntriesSound, CronFollows, StrayEntries
<1>11. CASE UNCHANGED cronVars
  BY <1>11 DEF cronVars, record, scheduler, CronTypeOK, EntriesSound, CronFollows, StrayEntries
<1> QED
  BY <1>1, <1>2, <1>3, <1>4, <1>5, <1>7, <1>8, <1>9, <1>10, <1>11 DEF CronNext

\* A scheduler that received the event of the last write, and has worked off
\* its channel, holds the entries of the record, whatever was dropped or
\* overtaken before (cron.go:14-16, 68-98).
THEOREM CronFollowsHolds == CronSpec => []CronFollows
<1>1. CronInv => CronFollows
  BY DEF CronInv
<1> QED
  BY <1>1, CronInitInv, CronStep, PTL DEF CronSpec

\* Only functions with several cron triggers leave entries that nothing can
\* remove (cron.go:110-156).
THEOREM StrayEntriesHolds == CronSpec => []StrayEntries
<1>1. CronInv => StrayEntries
  BY DEF CronInv
<1> QED
  BY <1>1, CronInitInv, CronStep, PTL DEF CronSpec

----------------------------------------------------------------------------
(* The log of a build. *)

\* n + 1, ..., m, as lines stand in a channel and in the buffer.
Lines(n, m) == [i \in 1 .. (m - n) |-> n + i]

\* Sequences of numbers that agree on their length and everywhere in it.
LEMMA SameLines ==
    ASSUME NEW s \in Seq(Nat), NEW t \in Seq(Nat), NEW len \in Nat,
           Len(s) = len, Len(t) = len, \A i \in 1 .. len : s[i] = t[i]
    PROVE  s = t
<1>1. Len(s) = Len(t) /\ \A i \in 1 .. Len(s) : s[i] = t[i]
  OBVIOUS
<1> QED
  BY <1>1, SeqEqual, Zenon

\* What appendLines does to such a sequence ...
LEMMA LinesAppend ==
    ASSUME NEW n \in Nat, NEW m \in Nat, n <= m
    PROVE  /\ Lines(n, m) \in Seq(Nat) /\ Len(Lines(n, m)) = m - n
           /\ Append(Lines(n, m), m + 1) = Lines(n, m + 1)
<1>1. m - n \in Nat /\ (m + 1) - n = (m - n) + 1
  OBVIOUS
<1>2. Lines(n, m) \in Seq(Nat) /\ Len(Lines(n, m)) = m - n
  BY <1>1 DEF Lines
<1>3. Lines(n, m + 1) \in Seq(Nat) /\ Len(Lines(n, m + 1)) = (m - n) + 1
  BY <1>1 DEF Lines
<1>4. Append(Lines(n, m), m + 1) \in Seq(Nat) /\ Len(Append(Lines(n, m), m + 1)) = (m - n) + 1
  BY <1>2
<1>5. \A i \in 1 .. ((m - n) + 1) : Append(Lines(n, m), m + 1)[i] = n + i
  BY <1>1, <1>2 DEF Lines
<1>6. \A i \in 1 .. ((m - n) + 1) : Lines(n, m + 1)[i] = n + i
  BY <1>1 DEF Lines
<1>7. Append(Lines(n, m), m + 1) = Lines(n, m + 1)
  <2>1. (m - n) + 1 \in Nat
    BY <1>1
  <2>2. \A i \in 1 .. ((m - n) + 1) : Append(Lines(n, m), m + 1)[i] = Lines(n, m + 1)[i]
    BY <1>5, <1>6, Zenon
  <2> QED
    BY <1>3, <1>4, <2>1, <2>2, SameLines, Zenon
<1> QED
  BY <1>2, <1>7

\* ... and what sending its first line does.
LEMMA LinesTail ==
    ASSUME NEW n \in Nat, NEW m \in Nat, n < m
    PROVE  Head(Lines(n, m)) = n + 1 /\ Tail(Lines(n, m)) = Lines(n + 1, m)
<1>1. m - n \in Nat \ {0} /\ m - (n + 1) = (m - n) - 1
  OBVIOUS
<1>2. Lines(n, m) \in Seq(Nat) /\ Len(Lines(n, m)) = m - n
  BY <1>1 DEF Lines
<1>3. Lines(n + 1, m) \in Seq(Nat) /\ Len(Lines(n + 1, m)) = (m - n) - 1
  BY <1>1 DEF Lines
<1>4. Tail(Lines(n, m)) \in Seq(Nat) /\ Len(Tail(Lines(n, m))) = (m - n) - 1
  BY <1>1, <1>2
<1>5. \A i \in 1 .. ((m - n) - 1) : Tail(Lines(n, m))[i] = (n + 1) + i
  BY <1>1, <1>2 DEF Lines
<1>6. \A i \in 1 .. ((m - n) - 1) : Lines(n + 1, m)[i] = (n + 1) + i
  BY <1>1 DEF Lines
<1>7. Tail(Lines(n, m)) = Lines(n + 1, m)
  <2>1. (m - n) - 1 \in Nat
    BY <1>1
  <2>2. \A i \in 1 .. ((m - n) - 1) : Tail(Lines(n, m))[i] = Lines(n + 1, m)[i]
    BY <1>5, <1>6, Zenon
  <2> QED
    BY <1>3, <1>4, <2>1, <2>2, SameLines, Zenon
<1>8. Head(Lines(n, m)) = n + 1
  BY <1>1, <1>2 DEF Lines
<1> QED
  BY <1>7, <1>8

\* The buffer holds the newest lines, and no more than it may.
BufferInv ==
    /\ Len(buffer) <= BufCap /\ Len(buffer) <= lines
    /\ buffer = Lines(lines - Len(buffer), lines)

\* A stream is closed after it has left the map, so who finds it there finds
\* it open; a subscriber is live and has no replay of the file.
StreamInv ==
    /\ stream = "closed" => bld = "closed"
    /\ bld \in {"unlisted", "closed"} => streams = "none"
    /\ \A w \in Watchers : view[w] # "panic"
    /\ \A w \in Watchers : view[w] = "away" => replay[w] = "none"
    /\ \A w \in subs : view[w] = "live"
    /\ \A w \in Watchers : view[w] = "live" => replay[w] = "none"

\* NoGap, and that nobody was sent a line that is not written.
Gapless ==
    \A w \in subs \ lost : last[w] <= lines /\ queue[w] = Lines(last[w], lines)

LogInv == LogTypeOK /\ BufferInv /\ StreamInv /\ Gapless

LEMMA LogInitInv == LogInit => LogInv
<1> SUFFICES ASSUME LogInit PROVE LogInv
  OBVIOUS
<1> USE BuildLogsAssumption
<1>1. LogTypeOK
  BY DEF LogInit, LogTypeOK
<1>2. BufferInv
  <2>1. lines = 0 /\ buffer = <<>> /\ Len(buffer) = 0
    BY DEF LogInit
  <2>2. Lines(0, 0) = <<>>
    BY DEF Lines
  <2> QED
    BY <2>1, <2>2 DEF BufferInv
<1>3. StreamInv /\ Gapless
  BY DEF LogInit, StreamInv, Gapless
<1> QED
  BY <1>1, <1>2, <1>3 DEF LogInv

\* A line that is written goes to the end of the buffer and of every channel
\* that has room.
LEMMA AppendTypes ==
    ASSUME LogInv, appendLines
    PROVE  /\ lines \in Nat /\ lines' = lines + 1 /\ lines' \in 1 .. MaxLines
           /\ buffer' \in Seq(1 .. MaxLines) /\ BufferInv'
           /\ queue' \in [Watchers -> Seq(1 .. MaxLines)]
           /\ \A w \in Watchers : Len(queue'[w]) <= ChanCap
           /\ lost' \subseteq Watchers /\ Gapless'
<1> USE BuildLogsAssumption
<1> DEFINE b == Append(buffer, lines + 1)
           n == Len(buffer)
<1>1. /\ lines \in Nat /\ lines' = lines + 1 /\ lines' \in 1 .. MaxLines /\ n \in Nat
      /\ buffer \in Seq(1 .. MaxLines) /\ n <= BufCap /\ n <= lines
      /\ buffer = Lines(lines - n, lines) /\ lines - n \in Nat /\ lines - n <= lines
  BY DEF LogInv, LogTypeOK, BufferInv, appendLines
<1>2. b \in Seq(1 .. MaxLines) /\ Len(b) = n + 1
  BY <1>1
<1>3. b = Lines(lines - n, lines + 1)
  BY <1>1, LinesAppend
<1>4. buffer' \in Seq(1 .. MaxLines) /\ BufferInv'
  <2>0. buffer' = Recent(b)
    BY DEF appendLines
  <2>1. CASE n + 1 > BufCap
    <3>1. buffer' = Tail(b)
      BY <1>2, <2>0, <2>1 DEF Recent
    <3>2. buffer' \in Seq(1 .. MaxLines) /\ Len(buffer') = n
      BY <1>1, <1>2, <3>1
    <3>6. lines + 1 \in Nat /\ lines - n \in Nat /\ lines - n < lines + 1
      BY <1>1
    <3> HIDE DEF n, b
    <3>3. Tail(b) = Lines((lines - n) + 1, lines + 1)
      BY <1>3, <3>6, LinesTail
    <3>4. (lines - n) + 1 = lines' - Len(buffer')
      BY <1>1, <3>2
    <3>5. buffer' = Lines(lines' - Len(buffer'), lines')
      BY <1>1, <3>1, <3>3, <3>4
    <3> QED
      BY <1>1, <3>2, <3>5 DEF BufferInv
  <2>2. CASE ~(n + 1 > BufCap)
    <3>1. buffer' = b
      BY <1>2, <2>0, <2>2 DEF Recent
    <3>2. Len(buffer') = n + 1 /\ lines - n = lines' - Len(buffer')
      BY <1>1, <1>2, <3>1
    <3>3. buffer' = Lines(lines' - Len(buffer'), lines')
      BY <1>1, <1>3, <3>1, <3>2
    <3> QED
      BY <1>1, <1>2, <2>2, <3>1, <3>2, <3>3 DEF BufferInv
  <2> QED
    BY <2>1, <2>2
<1>5. /\ queue' \in [Watchers -> Seq(1 .. MaxLines)]
      /\ \A w \in Watchers : Len(queue'[w]) <= ChanCap
      /\ lost' \subseteq Watchers
  <2>1. ASSUME NEW w \in Watchers
        PROVE  /\ queue[w] \in Seq(1 .. MaxLines) /\ Len(queue[w]) \in Nat
               /\ Len(queue[w]) <= ChanCap
               /\ Append(queue[w], lines + 1) \in Seq(1 .. MaxLines)
               /\ Len(Append(queue[w], lines + 1)) = Len(queue[w]) + 1
    BY <1>1 DEF LogInv, LogTypeOK
  <2>2. ASSUME NEW w \in Watchers
        PROVE  queue'[w] \in Seq(1 .. MaxLines) /\ Len(queue'[w]) <= ChanCap
    <3>1. \/ Len(queue[w]) < ChanCap /\ queue'[w] = Append(queue[w], lines + 1)
          \/ queue'[w] = queue[w]
      BY DEF appendLines, FansOut
    <3> DEFINE q == queue[w]
               r == queue'[w]
               a == Append(queue[w], lines + 1)
    <3>2. /\ q \in Seq(1 .. MaxLines) /\ Len(q) \in Nat /\ Len(q) <= ChanCap
          /\ a \in Seq(1 .. MaxLines) /\ Len(a) = Len(q) + 1
      BY <2>1
    <3>3. (Len(q) < ChanCap /\ r = a) \/ r = q
      BY <3>1
    <3> HIDE DEF q, r, a
    <3>4. r \in Seq(1 .. MaxLines) /\ Len(r) <= ChanCap
      BY <3>2, <3>3
    <3> QED
      BY <3>4 DEF r
  <2>3. queue' = [w \in Watchers |-> queue'[w]]
    BY DEF appendLines, FansOut
  <2>4. lost' \subseteq Watchers
    BY DEF appendLines, FansOut, LogInv, LogTypeOK
  <2> QED
    BY <2>2, <2>3, <2>4
<1>6. Gapless'
  <2> SUFFICES ASSUME NEW w \in subs' \ lost'
               PROVE  last'[w] <= lines' /\ queue'[w] = Lines(last'[w], lines')
    BY DEF Gapless
  <2>1. /\ w \in subs \ lost /\ w \in Watchers /\ Len(queue[w]) \in Nat /\ last' = last
        /\ last[w] \in Nat /\ ~(Len(queue[w]) >= ChanCap)
    BY DEF appendLines, FansOut, LogInv, LogTypeOK
  <2>2. queue'[w] = Append(queue[w], lines + 1)
    BY <2>1 DEF appendLines, FansOut
  <2>3. last[w] <= lines /\ queue[w] = Lines(last[w], lines)
    BY <2>1 DEF LogInv, Gapless
  <2>4. Append(Lines(last[w], lines), lines + 1) = Lines(last[w], lines + 1)
    BY <1>1, <2>1, <2>3, LinesAppend
  <2> QED
    BY <1>1, <2>1, <2>2, <2>3, <2>4
<1> QED
  BY <1>1, <1>4, <1>5, <1>6

LEMMA LogStep == LogInv /\ [LogNext]_logVars => LogInv'
<1> SUFFICES ASSUME LogInv, [LogNext]_logVars PROVE LogInv'
  OBVIOUS
<1> USE BuildLogsAssumption
<1>l. ASSUME appendLines, bld \in {"running", "saved"}, bld' \in {"running", "logged"}
      PROVE  LogInv'
  <2>1. /\ lines' \in 0 .. MaxLines
        /\ buffer' \in Seq(1 .. MaxLines) /\ BufferInv' /\ Len(buffer') <= ChanCap
        /\ queue' \in [Watchers -> Seq(1 .. MaxLines)]
        /\ \A w \in Watchers : Len(queue'[w]) <= ChanCap
        /\ lost' \subseteq Watchers /\ Gapless'
    BY <1>l, AppendTypes DEF BufferInv
  <2>2. LogTypeOK'
    BY <1>l, <2>1 DEF LogInv, LogTypeOK, appendLines
  <2>3. StreamInv'
    BY <1>l DEF LogInv, StreamInv, appendLines
  <2> QED
    BY <2>1, <2>2, <2>3 DEF LogInv
<1>1. CASE BuildRuns
  <2>1. CASE OpenStream
    <3>1. LogTypeOK' /\ StreamInv'
      BY <2>1 DEF LogInv, LogTypeOK, StreamInv, OpenStream, watching
    <3>2. BufferInv' /\ Gapless'
      BY <2>1 DEF LogInv, BufferInv, Gapless, OpenStream, watching
    <3> QED
      BY <3>1, <3>2 DEF LogInv
  <2>2. CASE LogLine
    BY <1>l, <2>2 DEF LogLine
  <2>3. CASE SaveResult
    <3>1. LogTypeOK' /\ StreamInv'
      BY <2>3 DEF LogInv, LogTypeOK, StreamInv, SaveResult, watching
    <3>2. BufferInv' /\ Gapless'
      BY <2>3 DEF LogInv, BufferInv, Gapless, SaveResult, watching
    <3> QED
      BY <3>1, <3>2 DEF LogInv
  <2>4. CASE LogSuccess
    BY <1>l, <2>4 DEF LogSuccess
  <2>5. CASE UnlistStream
    <3>1. LogTypeOK' /\ StreamInv'
      BY <2>5 DEF LogInv, LogTypeOK, StreamInv, UnlistStream, watching
    <3>2. BufferInv' /\ Gapless'
      BY <2>5 DEF LogInv, BufferInv, Gapless, UnlistStream, watching
    <3> QED
      BY <3>1, <3>2 DEF LogInv
  <2>6. CASE CloseStream
    <3>1. LogTypeOK' /\ StreamInv'
      BY <2>6 DEF LogInv, LogTypeOK, StreamInv, CloseStream
    <3>2. BufferInv' /\ Gapless'
      BY <2>6 DEF LogInv, BufferInv, Gapless, CloseStream
    <3> QED
      BY <3>1, <3>2 DEF LogInv
  <2> QED
    BY <1>1, <2>1, <2>2, <2>3, <2>4, <2>5, <2>6 DEF BuildRuns
<1>2. ASSUME NEW w \in Watchers, StreamLogs(w) PROVE LogInv'
  <2>0. /\ view[w] = "away" /\ w \notin subs
        /\ UNCHANGED <<bld, status, streams, stream, lines, buffer, shut, told, size, lost>>
    BY <1>2 DEF StreamLogs, builder, LogInv, StreamInv
  <2>b. BufferInv'
    BY <2>0 DEF BufferInv, LogInv
  <2>1. CASE streams = "listed" /\ subscribe(w)
    <3>1. /\ view' = [view EXCEPT ![w] = "live"] /\ subs' = subs \cup {w}
          /\ queue' = [queue EXCEPT ![w] = buffer]
          /\ last' = [last EXCEPT ![w] = lines - Len(buffer)] /\ replay' = replay
      BY <2>1 DEF subscribe, LogInv, StreamInv
    <3>2. /\ Len(buffer) \in Nat /\ lines - Len(buffer) \in 0 .. MaxLines
          /\ lines - Len(buffer) <= lines /\ buffer = Lines(lines - Len(buffer), lines)
      BY DEF LogInv, BufferInv, LogTypeOK
    <3>3. LogTypeOK'
      BY <2>0, <3>1, <3>2 DEF LogInv, LogTypeOK
    <3>4. StreamInv'
      BY <2>0, <3>1 DEF LogInv, StreamInv, LogTypeOK
    <3>5. Gapless'
      BY <2>0, <3>1, <3>2 DEF LogInv, Gapless, LogTypeOK
    <3> QED
      BY <2>b, <3>3, <3>4, <3>5 DEF LogInv
  <2>2. CASE /\ streams = "none" /\ view' = [view EXCEPT ![w] = "replay"]
             /\ replay' = [replay EXCEPT ![w] = "read"]
             /\ UNCHANGED <<queue, subs, last>>
    <3>1. LogTypeOK'
      BY <2>0, <2>2 DEF LogInv, LogTypeOK
    <3>2. StreamInv' /\ Gapless'
      BY <2>0, <2>2 DEF LogInv, StreamInv, Gapless, LogTypeOK
    <3> QED
      BY <2>b, <3>1, <3>2 DEF LogInv
  <2> QED
    BY <1>2, <2>1, <2>2 DEF StreamLogs
<1>3. ASSUME NEW w \in Watchers, ReplayRead(w) PROVE LogInv'
  <2>1. LogTypeOK'
    BY <1>3 DEF LogInv, LogTypeOK, ReplayRead, builder
  <2>2. StreamInv' /\ BufferInv' /\ Gapless'
    BY <1>3 DEF LogInv, LogTypeOK, StreamInv, BufferInv, Gapless, ReplayRead, builder
  <2> QED
    BY <2>1, <2>2 DEF LogInv
<1>4. ASSUME NEW w \in Watchers, ReplayPush(w) PROVE LogInv'
  <2> DEFINE next == last[w] + Len(queue[w]) + 1
  <2>1. /\ queue[w] \in Seq(1 .. MaxLines) /\ Len(queue[w]) < ChanCap
        /\ next \in 1 .. MaxLines /\ queue' = [queue EXCEPT ![w] = Append(@, next)]
        /\ UNCHANGED <<bld, status, streams, stream, lines, buffer, subs, shut, view, told,
                       replay, size, last, lost>>
    BY <1>4 DEF LogInv, LogTypeOK, ReplayPush, builder
  <2>2. Append(queue[w], next) \in Seq(1 .. MaxLines) /\ Len(Append(queue[w], next)) <= ChanCap
    BY <2>1
  <2>3. w \notin subs
    BY <1>4 DEF LogInv, StreamInv, ReplayPush
  <2> HIDE DEF next
  <2>4. LogTypeOK'
    BY <2>1, <2>2 DEF LogInv, LogTypeOK
  <2>5. StreamInv' /\ BufferInv'
    BY <2>1 DEF LogInv, StreamInv, BufferInv
  <2>6. Gapless'
    BY <2>1, <2>3 DEF LogInv, LogTypeOK, Gapless
  <2> QED
    BY <2>4, <2>5, <2>6 DEF LogInv
<1>5. ASSUME NEW w \in Watchers, ReplayEnd(w) PROVE LogInv'
  <2>1. LogTypeOK'
    BY <1>5 DEF LogInv, LogTypeOK, ReplayEnd, builder
  <2>2. StreamInv' /\ BufferInv' /\ Gapless'
    BY <1>5 DEF LogInv, LogTypeOK, StreamInv, BufferInv, Gapless, ReplayEnd, builder
  <2> QED
    BY <2>1, <2>2 DEF LogInv
<1>6. ASSUME NEW w \in Watchers, Ticker(w) PROVE LogInv'
  <2>1. LogTypeOK'
    BY <1>6 DEF LogInv, LogTypeOK, Ticker, builder
  <2>2. StreamInv' /\ BufferInv' /\ Gapless'
    BY <1>6 DEF LogInv, StreamInv, BufferInv, Gapless, Ticker, builder
  <2> QED
    BY <2>1, <2>2 DEF LogInv
<1>7. ASSUME NEW w \in Watchers, SendLine(w) PROVE LogInv'
  <2>1. /\ queue[w] \in Seq(1 .. MaxLines) /\ queue[w] # <<>> /\ Len(queue[w]) <= ChanCap
        /\ last' = [last EXCEPT ![w] = Head(queue[w])]
        /\ queue' = [queue EXCEPT ![w] = Tail(queue[w])]
        /\ UNCHANGED <<bld, status, streams, stream, lines, buffer, subs, shut, view, told,
                       replay, size, lost>>
    BY <1>7 DEF LogInv, LogTypeOK, SendLine, builder
  <2>2. /\ Head(queue[w]) \in 1 .. MaxLines /\ Tail(queue[w]) \in Seq(1 .. MaxLines)
        /\ Len(Tail(queue[w])) <= ChanCap
    <3> DEFINE q == queue[w]
    <3>1. q \in Seq(1 .. MaxLines) /\ q # <<>> /\ Len(q) <= ChanCap
      BY <2>1
    <3> HIDE DEF q
    <3>2. Head(q) \in 1 .. MaxLines /\ Tail(q) \in Seq(1 .. MaxLines) /\ Len(Tail(q)) = Len(q) - 1
      BY <3>1
    <3>3. Len(q) \in Nat /\ Len(Tail(q)) <= ChanCap
      BY <3>1, <3>2
    <3> QED
      BY <3>2, <3>3 DEF q
  <2>3. LogTypeOK'
    BY <2>1, <2>2, SMTT(30) DEF LogInv, LogTypeOK
  <2>4. StreamInv' /\ BufferInv'
    BY <2>1 DEF LogInv, StreamInv, BufferInv
  <2>5. Gapless'
    <3> SUFFICES ASSUME NEW v \in subs' \ lost'
                 PROVE  last'[v] <= lines' /\ queue'[v] = Lines(last'[v], lines')
      BY DEF Gapless
    <3>1. /\ v \in subs \ lost /\ v \in Watchers /\ last[v] \in Nat /\ lines \in Nat
          /\ last[v] <= lines /\ queue[v] = Lines(last[v], lines)
      BY <2>1 DEF LogInv, LogTypeOK, Gapless
    <3>2. CASE v # w
      BY <2>1, <3>1, <3>2 DEF LogInv, LogTypeOK
    <3>3. CASE v = w
      <4>1. last[v] < lines
        BY <2>1, <3>1, <3>3 DEF Lines
      <4>2. Head(queue[v]) = last[v] + 1 /\ Tail(queue[v]) = Lines(last[v] + 1, lines)
        BY <3>1, <4>1, LinesTail
      <4>3. last'[v] = Head(queue[v]) /\ queue'[v] = Tail(queue[v]) /\ lines' = lines
        BY <2>1, <3>1, <3>3 DEF LogInv, LogTypeOK
      <4> QED
        BY <3>1, <4>1, <4>2, <4>3
    <3> QED
      BY <3>2, <3>3
  <2> QED
    BY <2>3, <2>4, <2>5 DEF LogInv
<1>8. ASSUME NEW w \in Watchers, Returns(w) PROVE LogInv'
  <2>1. LogTypeOK'
    BY <1>8 DEF LogInv, LogTypeOK, Returns, builder
  <2>2. StreamInv' /\ BufferInv' /\ Gapless'
    BY <1>8 DEF LogInv, LogTypeOK, StreamInv, BufferInv, Gapless, Returns, builder
  <2> QED
    BY <2>1, <2>2 DEF LogInv
<1>9. CASE UNCHANGED logVars
  <2>1. LogTypeOK' /\ StreamInv'
    BY <1>9 DEF LogInv, LogTypeOK, StreamInv, logVars, builder, watching
  <2>2. BufferInv' /\ Gapless'
    BY <1>9 DEF LogInv, BufferInv, Gapless, logVars, builder, watching
  <2> QED
    BY <2>1, <2>2 DEF LogInv
<1> QED
  BY <1>1, <1>2, <1>3, <1>4, <1>5, <1>6, <1>7, <1>8, <1>9
  DEF LogNext, WatchRuns, WatchEnds, ClientLeaves

\* The variables of logStream and its watchers keep their types, the buffer
\* holds the newest lines in order and at most logBufferLines of them, and a
\* listed stream is open (queue.go:47-99, runner.go:106-126).
THEOREM LogTyped == LogSpec => []LogInv
<1>1. LogInit => LogInv
  BY LogInitInv
<1>2. LogInv /\ [LogNext]_logVars => LogInv'
  BY LogStep
<1> QED
  BY <1>1, <1>2, PTL DEF LogSpec

\* Whenever a watcher subscribes and however appendLines, its own sends and
\* other watchers interleave, it misses no line and gets none twice unless its
\* channel was full (queue.go:47-86).
THEOREM NoGapHolds == LogSpec => []NoGap
<1>1. LogInv => NoGap
  <2> SUFFICES ASSUME LogInv, NEW w \in subs \ lost
               PROVE  queue[w] = [i \in 1 .. lines - last[w] |-> last[w] + i]
    BY DEF NoGap
  <2>1. queue[w] = Lines(last[w], lines)
    BY DEF LogInv, Gapless
  <2> QED
    BY <2>1 DEF Lines
<1> QED
  BY <1>1, LogTyped, PTL

\* subscribe meets no closed stream, whose map of channels is nil, and never
\* blocks on the channel it fills (queue.go:71-99, runner.go:421-426).
THEOREM SubscribeIsSafeHolds == LogSpec => []SubscribeIsSafe
<1>1. LogInv => SubscribeIsSafe
  BY DEF LogInv, LogTypeOK, StreamInv, SubscribeIsSafe
<1> QED
  BY <1>1, LogTyped, PTL

----------------------------------------------------------------------------
(* Tokens and sessions. *)

\* What the history holds of a plaintext.
Given == [name : Names, exp : Nat, at : 0 .. MaxNow, session : BOOLEAN]

\* The types; a plaintext is given once, and only one that was can be revoked.
AuthTypes ==
    /\ passwords \in 0 .. MaxPasswords /\ user \in 0 .. MaxPasswords
    /\ login \in [Logins -> [at : {"idle", "verified", "issued"}, copy : 0 .. MaxPasswords]]
    /\ now \in 0 .. MaxNow /\ minted \in 0 .. MaxTokens
    /\ tokens \in [Names -> [plain : 0 .. MaxTokens, exp : Nat]]
    /\ given \in [1 .. minted -> Given] /\ revoked \subseteq 1 .. minted

\* A session is named by its second.
SessionNames ==
    \A p \in 1 .. minted : given[p].session => given[p].name = given[p].at

\* No later token took the name.
Newest(p) == \A q \in 1 .. minted : q > p => given[q].name # given[p].name

\* A record is of the newest token of its name, which is not revoked, ...
RecordIsNewest ==
    \A n \in Names :
       LET p == tokens[n].plain IN
       IF p = 0 THEN tokens[n] = NoToken
       ELSE /\ p \in 1 .. minted /\ p \notin revoked /\ Newest(p)
            /\ given[p].name = n /\ given[p].exp = tokens[n].exp

\* ... and the newest of a name has the record, unless it is revoked.
NewestHasRecord ==
    \A p \in 1 .. minted :
       p \notin revoked /\ Newest(p) => tokens[given[p].name].plain = p

AuthInv == AuthTypes /\ SessionNames /\ RecordIsNewest /\ NewestHasRecord

LEMMA AuthInitInv == AuthInit => AuthInv
<1> SUFFICES ASSUME AuthInit PROVE AuthInv
  OBVIOUS
<1> USE AuthAssumption
<1>1. minted = 0 /\ given = <<>> /\ revoked = {} /\ 1 .. minted = {}
  BY DEF AuthInit
<1>2. given \in [1 .. minted -> Given]
  BY <1>1
<1>3. AuthTypes
  BY <1>2 DEF AuthInit, AuthTypes, NoToken
<1>4. SessionNames /\ NewestHasRecord
  BY <1>1 DEF SessionNames, NewestHasRecord
<1>5. RecordIsNewest
  BY DEF AuthInit, RecordIsNewest, NoToken
<1> QED
  BY <1>3, <1>4, <1>5 DEF AuthInv

\* A new token has the record of its name.
LEMMA CreateTokenKeeps ==
    ASSUME AuthInv, NEW n \in Names, NEW ttl \in Nat, NEW session \in BOOLEAN,
           CreateToken(n, ttl, session), UNCHANGED <<user, passwords, now, revoked>>,
           login' \in [Logins -> [at : {"idle", "verified", "issued"}, copy : 0 .. MaxPasswords]],
           session => n = now
    PROVE  AuthInv'
<1> USE AuthAssumption
<1> DEFINE new == minted + 1
           exp == IF ttl > 0 THEN now + ttl ELSE 0
           g == [name |-> n, exp |-> exp, at |-> now, session |-> session]
<1>1. /\ minted \in Nat /\ now \in 0 .. MaxNow /\ exp \in Nat /\ new \in 1 .. MaxTokens
      /\ minted' = new /\ tokens' = [tokens EXCEPT ![n] = [plain |-> new, exp |-> exp]]
      /\ given' = [p \in 1 .. new |-> IF p <= minted THEN given[p] ELSE g]
      /\ revoked' = revoked /\ revoked \subseteq 1 .. minted
  BY DEF AuthInv, AuthTypes, CreateToken
<1>2. g \in Given /\ g.name = n /\ g.exp = exp /\ g.at = now /\ g.session = session
  BY <1>1 DEF Given
<1> HIDE DEF g, exp
<1>3. /\ given' \in [1 .. new -> Given] /\ given'[new] = g
      /\ \A p \in 1 .. minted : given'[p] = given[p] /\ p \in 1 .. new /\ p # new /\ new > p
      /\ \A p \in 1 .. new : p \in 1 .. minted \/ p = new
  BY <1>1, <1>2 DEF AuthInv, AuthTypes
<1>4. /\ tokens \in [Names -> [plain : 0 .. MaxTokens, exp : Nat]]
      /\ tokens'[n] = [plain |-> new, exp |-> exp]
      /\ \A m \in Names : m # n => tokens'[m] = tokens[m]
  BY <1>1 DEF AuthInv, AuthTypes
<1>5. AuthTypes'
  <2>1. tokens' \in [Names -> [plain : 0 .. MaxTokens, exp : Nat]]
    BY <1>1, <1>4
  <2> QED
    BY <1>1, <1>3, <2>1 DEF AuthInv, AuthTypes
<1>6. SessionNames'
  <2> SUFFICES ASSUME NEW p \in 1 .. new
               PROVE  given'[p].session => given'[p].name = given'[p].at
    BY <1>1 DEF SessionNames
  <2>1. CASE p = new
    BY <1>2, <1>3, <2>1
  <2>2. CASE p \in 1 .. minted
    BY <1>3, <2>2 DEF AuthInv, SessionNames
  <2> QED
    BY <1>3, <2>1, <2>2
\* The newest of before is the newest still unless its name is taken again.
<1>7. \A p \in 1 .. minted : Newest(p)' <=> Newest(p) /\ given[p].name # n
  <2> SUFFICES ASSUME NEW p \in 1 .. minted
               PROVE  Newest(p)' <=> Newest(p) /\ given[p].name # n
    OBVIOUS
  <2>1. Newest(p)' <=> \A q \in 1 .. new : q > p => given'[q].name # given'[p].name
    BY <1>1 DEF Newest
  <2>2. given'[p] = given[p] /\ \A q \in 1 .. minted : given'[q] = given[q]
    BY <1>3
  <2>3. given'[new].name = n /\ new > p /\ new \in 1 .. new
    BY <1>1, <1>2, <1>3
  <2>4. 1 .. new = (1 .. minted) \cup {new}
    BY <1>1
  <2>5. Newest(p) <=> \A q \in 1 .. minted : q > p => given[q].name # given[p].name
    BY DEF Newest
  <2> HIDE DEF new
  <2> QED
    BY <2>1, <2>2, <2>3, <2>4, <2>5
<1>8. \A p : p = new => Newest(p)'
  <2>1. \A q \in 1 .. new : ~(q > new)
    BY <1>1
  <2> QED
    BY <1>1, <2>1 DEF Newest
<1>9. RecordIsNewest'
  <2> SUFFICES ASSUME NEW m \in Names
               PROVE  IF tokens'[m].plain = 0 THEN tokens'[m] = NoToken
                      ELSE /\ tokens'[m].plain \in 1 .. new /\ tokens'[m].plain \notin revoked
                           /\ Newest(tokens[m].plain)'
                           /\ given'[tokens'[m].plain].name = m
                           /\ given'[tokens'[m].plain].exp = tokens'[m].exp
    BY <1>1 DEF RecordIsNewest
  <2>1. CASE m = n
    <3>1. tokens'[m].plain = new /\ tokens'[m].exp = exp /\ new # 0 /\ new \notin revoked
      BY <1>1, <1>4, <2>1
    <3>2. Newest(tokens[m].plain)'
      <4>1. PICK k : k = new
        OBVIOUS
      <4>2. Newest(k)'
        BY <1>8, <4>1
      <4>3. tokens'[m].plain = k
        BY <3>1, <4>1
      <4> QED
        BY <4>2, <4>3 DEF Newest
    <3> QED
      BY <1>1, <1>2, <1>3, <2>1, <3>1, <3>2
  <2>2. CASE m # n
    <3>1. tokens'[m] = tokens[m]
      BY <1>4, <2>2
    <3>2. CASE tokens[m].plain = 0
      BY <3>1, <3>2 DEF AuthInv, RecordIsNewest
    <3>3. CASE tokens[m].plain # 0
      <4> DEFINE p == tokens[m].plain
      <4>1. /\ p \in 1 .. minted /\ p \notin revoked /\ Newest(p)
            /\ given[p].name = m /\ given[p].exp = tokens[m].exp
        BY <3>3 DEF AuthInv, RecordIsNewest
      <4>2. PICK k : k = p
        OBVIOUS
      <4>3. Newest(k)'
        BY <1>7, <2>2, <4>1, <4>2
      <4>4. tokens'[m].plain = k
        BY <3>1, <4>2
      <4>5. Newest(tokens[m].plain)'
        BY <4>3, <4>4 DEF Newest
      <4> QED
        BY <1>3, <3>1, <3>3, <4>1, <4>5
    <3> QED
      BY <3>2, <3>3
  <2> QED
    BY <2>1, <2>2
<1>10. NewestHasRecord'
  <2> SUFFICES ASSUME NEW p \in 1 .. new, p \notin revoked, Newest(p)'
               PROVE  tokens'[given'[p].name].plain = p
    BY <1>1 DEF NewestHasRecord
  <2>1. CASE p = new
    BY <1>2, <1>3, <1>4, <2>1
  <2>2. CASE p \in 1 .. minted
    <3>1. Newest(p) /\ given[p].name # n /\ given'[p] = given[p]
      BY <1>3, <1>7, <2>2
    <3>2. given[p].name \in Names
      BY <2>2 DEF AuthInv, AuthTypes, Given
    <3>3. tokens[given[p].name].plain = p
      BY <2>2, <3>1 DEF AuthInv, NewestHasRecord
    <3> QED
      BY <1>4, <3>1, <3>2, <3>3
  <2> QED
    BY <1>3, <2>1, <2>2
<1> QED
  BY <1>5, <1>6, <1>9, <1>10 DEF AuthInv

\* What does not touch the tokens.
LEMMA AuthFrame ==
    ASSUME AuthInv, AuthTypes', UNCHANGED <<tokens, minted, given, revoked>>
    PROVE  AuthInv'
BY DEF AuthInv, SessionNames, RecordIsNewest, NewestHasRecord, Newest

\* Who deletes a record revokes its token and no other.
LEMMA DeleteTokenKeeps ==
    ASSUME AuthInv, NEW n \in Names, HandleDeleteToken(n)
    PROVE  AuthInv'
<1> USE AuthAssumption
<1> DEFINE d == tokens[n].plain
<1>1. /\ tokens' = [tokens EXCEPT ![n] = NoToken] /\ revoked' = revoked \cup {d}
      /\ UNCHANGED <<user, passwords, minted, now, login, given>> /\ tokens[n] # NoToken
  BY DEF HandleDeleteToken
<1>2. d \in 1 .. minted /\ given[d].name = n
  BY <1>1 DEF AuthInv, RecordIsNewest
<1>3. /\ tokens'[n] = NoToken /\ \A m \in Names : m # n => tokens'[m] = tokens[m]
  BY <1>1 DEF AuthInv, AuthTypes
<1>4. \A p : Newest(p)' <=> Newest(p)
  BY <1>1 DEF Newest
<1> HIDE DEF d
<1>5. AuthTypes'
  BY <1>1, <1>2 DEF AuthInv, AuthTypes, NoToken
<1>6. SessionNames'
  BY <1>1 DEF AuthInv, SessionNames
<1>7. RecordIsNewest'
  <2> SUFFICES ASSUME NEW m \in Names
               PROVE  IF tokens'[m].plain = 0 THEN tokens'[m] = NoToken
                      ELSE /\ tokens'[m].plain \in 1 .. minted
                           /\ tokens'[m].plain \notin revoked \cup {d}
                           /\ Newest(tokens[m].plain)'
                           /\ given[tokens'[m].plain].name = m
                           /\ given[tokens'[m].plain].exp = tokens'[m].exp
    BY <1>1 DEF RecordIsNewest
  <2>1. CASE m = n
    BY <1>3, <2>1 DEF NoToken
  <2>2. CASE m # n
    <3>1. tokens'[m] = tokens[m]
      BY <1>3, <2>2
    <3>2. PICK k : k = tokens[m].plain
      OBVIOUS
    <3>3. k # 0 => /\ k \in 1 .. minted /\ k \notin revoked /\ Newest(k)
                   /\ given[k].name = m /\ given[k].exp = tokens[m].exp
      BY <3>2 DEF AuthInv, RecordIsNewest
    <3>4. k # 0 => k # d
      BY <1>2, <2>2, <3>3
    <3>5. Newest(tokens[m].plain)' <=> Newest(k)'
      BY <3>1, <3>2 DEF Newest
    <3>6. k = 0 => tokens[m] = NoToken
      BY <3>2 DEF AuthInv, RecordIsNewest
    <3> QED
      BY <1>4, <3>1, <3>2, <3>3, <3>4, <3>5, <3>6
  <2> QED
    BY <2>1, <2>2
<1>8. NewestHasRecord'
  <2> SUFFICES ASSUME NEW p \in 1 .. minted, p \notin revoked \cup {d}, Newest(p)'
               PROVE  tokens'[given[p].name].plain = p
    BY <1>1 DEF NewestHasRecord
  <2>1. Newest(p) /\ tokens[given[p].name].plain = p
    BY <1>4 DEF AuthInv, NewestHasRecord
  <2>2. given[p].name \in Names /\ given[p].name # n
    BY <2>1 DEF d, AuthInv, AuthTypes, Given
  <2> QED
    BY <1>3, <2>1, <2>2
<1> QED
  BY <1>5, <1>6, <1>7, <1>8 DEF AuthInv

LEMMA AuthStep == AuthInv /\ [AuthNext]_authVars => AuthInv'
<1> SUFFICES ASSUME AuthInv, [AuthNext]_authVars PROVE AuthInv'
  OBVIOUS
<1> USE AuthAssumption
<1>1. CASE CreateUser
  BY <1>1, AuthFrame DEF CreateUser, AuthInv, AuthTypes
<1>2. CASE Tick
  <2>1. AuthTypes'
    BY <1>2 DEF Tick, AuthInv, AuthTypes
  <2> QED
    BY <1>2, <2>1, AuthFrame DEF Tick
<1>3. ASSUME NEW l \in Logins, LoginVerifies(l) PROVE AuthInv'
  <2>1. AuthTypes'
    BY <1>3 DEF LoginVerifies, AuthInv, AuthTypes
  <2> QED
    BY <1>3, <2>1, AuthFrame DEF LoginVerifies
<1>4. ASSUME NEW l \in Logins, LoginToken(l) PROVE AuthInv'
  <2>1. CASE CreateToken(now, SessionTTL, TRUE) /\ login' = [login EXCEPT ![l].at = "issued"]
    <3>1. login' \in [Logins -> [at : {"idle", "verified", "issued"}, copy : 0 .. MaxPasswords]]
      BY <2>1 DEF AuthInv, AuthTypes
    <3>2. now \in Names /\ UNCHANGED <<user, passwords, now, revoked>>
      BY <1>4 DEF LoginToken, Names, AuthInv, AuthTypes
    <3> QED
      BY <2>1, <3>1, <3>2, CreateTokenKeeps
  <2>2. CASE login' = [login EXCEPT ![l].at = "idle"] /\ UNCHANGED <<tokens, minted, given>>
    <3>1. AuthTypes'
      BY <1>4, <2>2 DEF LoginToken, AuthInv, AuthTypes
    <3> QED
      BY <1>4, <2>2, <3>1, AuthFrame DEF LoginToken
  <2> QED
    BY <1>4, <2>1, <2>2 DEF LoginToken
<1>5. ASSUME NEW l \in Logins, LoginPut(l) PROVE AuthInv'
  <2>1. AuthTypes'
    <3>1. login[l].copy \in 0 .. MaxPasswords
      BY DEF AuthInv, AuthTypes
    <3> QED
      BY <1>5, <3>1 DEF LoginPut, AuthInv, AuthTypes
  <2> QED
    BY <1>5, <2>1, AuthFrame DEF LoginPut
<1>6. ASSUME NEW n \in TokenNames, NEW ttl \in TTLs, HandleCreateToken(n, ttl) PROVE AuthInv'
  <2>1. CreateToken(n, ttl, FALSE) /\ UNCHANGED <<user, passwords, now, login, revoked>>
    BY <1>6 DEF HandleCreateToken
  <2>2. login' \in [Logins -> [at : {"idle", "verified", "issued"}, copy : 0 .. MaxPasswords]]
    BY <2>1 DEF AuthInv, AuthTypes
  <2>3. n \in Names /\ ttl \in Nat
    BY DEF Names
  <2> QED
    BY <2>1, <2>2, <2>3, CreateTokenKeeps
<1>7. ASSUME NEW n \in Names, HandleDeleteToken(n) PROVE AuthInv'
  BY <1>7, DeleteTokenKeeps
<1>8. CASE UNCHANGED authVars
  <2>1. AuthTypes'
    BY <1>8 DEF authVars, AuthInv, AuthTypes
  <2> QED
    BY <1>8, <2>1, AuthFrame DEF authVars
<1> QED
  BY <1>1, <1>2, <1>3, <1>4, <1>5, <1>6, <1>7, <1>8 DEF AuthNext

\* The records CreateToken and HandleDeleteToken leave are those of the newest
\* tokens of their names that are not revoked (auth.go:169-228).
THEOREM AuthTyped == AuthSpec => []AuthInv
<1>1. AuthInit => AuthInv
  BY AuthInitInv
<1>2. AuthInv /\ [AuthNext]_authVars => AuthInv'
  BY AuthStep
<1> QED
  BY <1>1, <1>2, PTL DEF AuthSpec

\* ResolveToken accepts a token exactly until it ends, is revoked or its name
\* is taken again, and among logins only one of the same second takes a
\* session's name, whatever logins, revocations and new passwords interleave
\* (auth.go:151-227).
THEOREM TokensLastHolds == AuthSpec => []TokensLast
<1>1. AuthInv => TokensLast
  <2> SUFFICES ASSUME AuthInv, NEW p \in DOMAIN given
               PROVE  ResolveToken(p) <=>
                         /\ given[p].exp = 0 \/ now <= given[p].exp
                         /\ p \notin revoked
                         /\ \A q \in DOMAIN given : ~Replaces(q, p)
    BY DEF TokensLast
  <2>1. DOMAIN given = 1 .. minted /\ p \in Nat \ {0} /\ minted \in Nat /\ given[p].name \in Names
    BY DEF AuthInv, AuthTypes, Given
  <2>2. Newest(p) <=> \A q \in DOMAIN given : ~Replaces(q, p)
    <3>1. ASSUME NEW q \in 1 .. minted, q > p, given[q].name = given[p].name
          PROVE  Replaces(q, p)
      <4>1. given[p].session => given[p].name = given[p].at
        BY <2>1 DEF AuthInv, SessionNames
      <4>2. given[q].session => given[q].name = given[q].at
        BY DEF AuthInv, SessionNames
      <4> QED
        BY <3>1, <4>1, <4>2 DEF Replaces
    <3> QED
      BY <2>1, <3>1 DEF Newest, Replaces
  <2>3. ASSUME NEW n \in Names, tokens[n].plain = p
        PROVE  p \notin revoked /\ Newest(p) /\ given[p].exp = tokens[n].exp
    BY <2>1, <2>3 DEF AuthInv, RecordIsNewest
  <2>4. p \notin revoked /\ Newest(p) => tokens[given[p].name].plain = p
    BY <2>1 DEF AuthInv, NewestHasRecord
  <2> QED
    BY <2>1, <2>2, <2>3, <2>4 DEF ResolveToken
<1> QED
  BY <1>1, AuthTyped, PTL

----------------------------------------------------------------------------
(* The event log. *)

\* What holds for some natural number holds for a least one.
LEMMA LeastNumber ==
    ASSUME NEW S \in SUBSET Nat, S # {}
    PROVE  \E n \in S : \A m \in S : n <= m
<1> DEFINE R == {r \in Nat \X Nat : r[1] < r[2]}
<1>1. R = OpToRel(<, Nat)
  BY DEF OpToRel
<1>2. IsWellFoundedOn(R, Nat)
  BY <1>1, NatLessThanWellFounded, Zenon
<1> HIDE DEF R
<1>3. \E n \in S : \A m \in S : ~(<<m, n>> \in R)
  BY <1>2, WFMin
<1>4. PICK n \in S : \A m \in S : ~(<<m, n>> \in R)
  BY <1>3
<1>5. ASSUME NEW m \in S PROVE n <= m
  <2>1. m \in Nat /\ n \in Nat
    OBVIOUS
  <2>2. m < n => <<m, n>> \in R
    BY <2>1 DEF R
  <2> QED
    BY <1>4, <2>1, <2>2
<1> QED
  BY <1>5

\* How many digits of a fraction are printed: up to the last that is not zero.
PrintedLen(t) ==
    CHOOSE n \in 0 .. Places : (n > 0 => t.frac[n] # 0) /\ \A i \in (n + 1) .. Places : t.frac[i] = 0

\* The digits of a fraction are numbers.
LEMMA DigitNumbers == \A d \in Digits : d \in Nat
<1>1. Digits \subseteq 0 .. 9
  BY EventLogAssumption
<1>2. \A d \in 0 .. 9 : d \in Nat
  OBVIOUS
<1> QED
  BY <1>1, <1>2

\* The choice in Printed is one that exists: what is cut off is zeros, and all
\* else is printed.
LEMMA PrintedDigits ==
    ASSUME NEW t \in Time
    PROVE  /\ PrintedLen(t) \in 0 .. Places
           /\ \A i \in 1 .. Places : t.frac[i] # 0 => i <= PrintedLen(t)
           /\ Printed(t) \in Seq(Nat) /\ Len(Printed(t)) = PrintedLen(t)
           /\ \A i \in 1 .. PrintedLen(t) : Printed(t)[i] = t.frac[i] /\ t.frac[i] \in Nat
<1> USE EventLogAssumption
<1>1. t.frac \in [1 .. Places -> Digits] /\ \A i \in 1 .. Places : t.frac[i] \in Nat
  <2>1. t.frac \in [1 .. Places -> Digits]
    BY DEF Time
  <2>2. \A d \in Digits : d \in Nat
    BY DigitNumbers
  <2> QED
    BY <2>1, <2>2
<1> DEFINE S == {n \in 0 .. Places : \A i \in (n + 1) .. Places : t.frac[i] = 0}
<1>2. \E n \in S : \A m \in S : n <= m
  <2>1. S \in SUBSET Nat /\ Places \in S
    OBVIOUS
  <2> HIDE DEF S
  <2> QED
    BY <2>1, LeastNumber
<1>3. PICK n \in S : \A m \in S : n <= m
  BY <1>2
<1>4. n > 0 => t.frac[n] # 0
  <2> SUFFICES ASSUME n > 0, t.frac[n] = 0 PROVE FALSE
    OBVIOUS
  <2>1. n - 1 \in 0 .. Places /\ n \in 0 .. Places
    OBVIOUS
  <2>2. \A i \in ((n - 1) + 1) .. Places : i = n \/ i \in (n + 1) .. Places
    OBVIOUS
  <2>3. \A i \in ((n - 1) + 1) .. Places : t.frac[i] = 0
    BY <2>2
  <2>4. n - 1 \in S
    BY <2>1, <2>3
  <2>5. ~(n <= n - 1)
    BY <2>1
  <2> QED
    BY <1>3, <2>4, <2>5
<1>5. /\ PrintedLen(t) \in 0 .. Places
      /\ \A i \in (PrintedLen(t) + 1) .. Places : t.frac[i] = 0
  <2>1. \E k \in 0 .. Places : (k > 0 => t.frac[k] # 0) /\ \A i \in (k + 1) .. Places : t.frac[i] = 0
    BY <1>3, <1>4
  <2> QED
    BY <2>1 DEF PrintedLen
<1>6. Printed(t) = SubSeq(t.frac, 1, PrintedLen(t))
  BY DEF Printed, PrintedLen
<1>7. t.frac \in Seq(Nat) /\ Len(t.frac) = Places
  BY <1>1
<1> DEFINE k == PrintedLen(t)
           f == t.frac
<1>8. k \in 0 .. Places /\ f \in Seq(Nat) /\ Len(f) = Places
  BY <1>5, <1>7
<1>9. ASSUME NEW i \in 1 .. Places, t.frac[i] # 0 PROVE i <= k
  <2> HIDE DEF k
  <2> QED
    BY <1>5, <1>8, <1>9 DEF k
<1> HIDE DEF k, f
<1>10. SubSeq(f, 1, k) \in Seq(Nat) /\ Len(SubSeq(f, 1, k)) = k
  BY <1>8, SubSeqProperties
<1>11. \A i \in 1 .. k : SubSeq(f, 1, k)[i] = f[i]
  BY <1>8, SubSeqProperties
<1> QED
  BY <1>1, <1>6, <1>8, <1>9, <1>10, <1>11 DEF k, f

\* The order of keys is transitive.
LEMMA BytesLessTransitive ==
    ASSUME NEW k \in Seq(Nat), NEW l \in Seq(Nat), NEW m \in Seq(Nat),
           BytesLess(k, l), BytesLess(l, m)
    PROVE  BytesLess(k, m)
<1>1. /\ DOMAIN k = 1 .. Len(k) /\ DOMAIN l = 1 .. Len(l) /\ DOMAIN m = 1 .. Len(m)
      /\ Len(k) \in Nat /\ Len(l) \in Nat /\ Len(m) \in Nat
      /\ \A i \in DOMAIN k : k[i] \in Nat
      /\ \A i \in DOMAIN l : l[i] \in Nat
      /\ \A i \in DOMAIN m : m[i] \in Nat
  OBVIOUS
<1>2. PICK i \in DOMAIN k \cap DOMAIN l : k[i] < l[i] /\ \A h \in 1 .. (i - 1) : k[h] = l[h]
  BY DEF BytesLess
<1>3. PICK j \in DOMAIN l \cap DOMAIN m : l[j] < m[j] /\ \A h \in 1 .. (j - 1) : l[h] = m[h]
  BY DEF BytesLess
<1>4. i \in Nat \ {0} /\ j \in Nat \ {0}
  BY <1>1
<1>5. CASE i <= j
  <2>1. i \in DOMAIN k \cap DOMAIN m
    BY <1>1, <1>4, <1>5
  <2>2. k[i] < m[i]
    <3>1. l[i] <= m[i]
      BY <1>1, <1>3, <1>4, <1>5, <2>1, SMTT(30)
    <3> QED
      BY <1>1, <1>2, <2>1, <3>1
  <2>3. \A h \in 1 .. (i - 1) : k[h] = m[h]
    BY <1>2, <1>3, <1>4, <1>5
  <2> QED
    BY <2>1, <2>2, <2>3 DEF BytesLess
<1>6. CASE j < i
  <2>1. j \in DOMAIN k \cap DOMAIN m
    BY <1>1, <1>4, <1>6
  <2>2. k[j] < m[j]
    BY <1>2, <1>3, <1>4, <1>6
  <2>3. \A h \in 1 .. (j - 1) : k[h] = m[h]
    BY <1>2, <1>3, <1>4, <1>6
  <2> QED
    BY <2>1, <2>2, <2>3 DEF BytesLess
<1> QED
  BY <1>4, <1>5, <1>6

\* Where the bytes of two sequences stand in both together.
LEMMA ConcatBytes ==
    ASSUME NEW a \in Seq(Nat), NEW b \in Seq(Nat)
    PROVE  /\ a \o b \in Seq(Nat) /\ Len(a) \in Nat /\ Len(b) \in Nat
           /\ Len(a \o b) = Len(a) + Len(b)
           /\ \A i \in 1 .. Len(a) : (a \o b)[i] = a[i]
           /\ \A i \in 1 .. Len(b) : (a \o b)[Len(a) + i] = b[i]
<1>1. a \o b \in Seq(Nat) /\ Len(a) \in Nat /\ Len(b) \in Nat /\ Len(a \o b) = Len(a) + Len(b)
  OBVIOUS
<1>2. \A i \in 1 .. Len(a) : (a \o b)[i] = a[i]
  BY <1>1
<1>3. ASSUME NEW i \in 1 .. Len(b) PROVE (a \o b)[Len(a) + i] = b[i]
  <2>1. /\ Len(a) + i \in 1 .. (Len(a) + Len(b)) /\ ~(Len(a) + i <= Len(a))
        /\ (Len(a) + i) - Len(a) = i
    BY <1>1
  <2> QED
    BY <1>1, <2>1, ConcatProperties
<1> QED
  BY <1>1, <1>2, <1>3

\* Where the zone stands in a key.
KeyEnd(t) == IF PrintedLen(t) = 0 THEN 2 ELSE PrintedLen(t) + 3

\* What stands where in a key.
LEMMA KeyBytes ==
    ASSUME NEW t \in Time
    PROVE  /\ Key(t) \in Seq(Nat) /\ 1 \in DOMAIN Key(t) /\ Key(t)[1] = t.sec
           /\ PrintedLen(t) > 0 => 2 \in DOMAIN Key(t) /\ Key(t)[2] = Dot
           /\ KeyEnd(t) \in DOMAIN Key(t) /\ Key(t)[KeyEnd(t)] = Zed
           /\ \A i \in 1 .. PrintedLen(t) :
                 i + 2 \in DOMAIN Key(t) /\ Key(t)[i + 2] = Zero + t.frac[i]
<1> USE EventLogAssumption
<1> DEFINE k == PrintedLen(t)
           p == Printed(t)
           d == IF p = <<>> THEN <<>> ELSE <<Dot>>
           z == [i \in DOMAIN p |-> Zero + p[i]]
           s == <<t.sec>>
           e == <<Zed>>
<1>1. /\ k \in Nat /\ p \in Seq(Nat) /\ Len(p) = k
      /\ \A i \in 1 .. k : p[i] = t.frac[i] /\ t.frac[i] \in Nat
  BY PrintedDigits
<1>2. Key(t) = ((s \o d) \o z) \o e
  BY DEF Key
<1>3. t.sec \in Nat
  BY DEF Time
<1>4. s \in Seq(Nat) /\ Len(s) = 1 /\ s[1] = t.sec /\ e \in Seq(Nat) /\ Len(e) = 1 /\ e[1] = Zed
  BY <1>3 DEF Zed
<1>5. d \in Seq(Nat) /\ (k > 0 => Len(d) = 1 /\ d[1] = Dot) /\ (k = 0 => Len(d) = 0)
  <2>1. CASE p = <<>>
    BY <1>1, <2>1
  <2>2. CASE p # <<>>
    BY <1>1, <2>2 DEF Dot
  <2> QED
    BY <2>1, <2>2
<1>6. z \in Seq(Nat) /\ Len(z) = k /\ \A i \in 1 .. k : z[i] = Zero + t.frac[i]
  <2> HIDE DEF k, p
  <2>1. DOMAIN p = 1 .. k /\ \A i \in 1 .. k : Zero + p[i] \in Nat
    BY <1>1 DEF Zero
  <2>2. z \in [1 .. k -> Nat]
    BY <2>1
  <2> QED
    BY <1>1, <2>1, <2>2
<1> HIDE DEF k, p, d, z, s, e
<1> DEFINE a == s \o d
<1>7. k \in Nat /\ (k > 0 => Len(d) = 1 /\ d[1] = Dot) /\ (k = 0 => Len(d) = 0)
  BY <1>1, <1>5
<1>8. /\ a \in Seq(Nat) /\ Len(a) \in Nat \ {0} /\ a[1] = t.sec
      /\ (k > 0 => Len(a) = 2 /\ a[2] = Dot) /\ (k = 0 => Len(a) = 1)
  <2>1. /\ a \in Seq(Nat) /\ Len(a) = 1 + Len(d) /\ Len(d) \in Nat
        /\ \A i \in 1 .. 1 : a[i] = s[i]
        /\ \A i \in 1 .. Len(d) : a[1 + i] = d[i]
    <3>1. /\ a \in Seq(Nat) /\ Len(a) = Len(s) + Len(d) /\ Len(d) \in Nat
          /\ \A i \in 1 .. Len(s) : a[i] = s[i]
          /\ \A i \in 1 .. Len(d) : a[Len(s) + i] = d[i]
      BY <1>4, <1>5, ConcatBytes
    <3>2. Len(s) = 1
      BY <1>4
    <3> HIDE DEF a
    <3> QED
      BY <3>1, <3>2
  <2>2. a[1] = t.sec
    BY <1>4, <2>1
  <2>3. ASSUME k > 0 PROVE Len(a) = 2 /\ a[2] = Dot
    <3>1. a[1 + 1] = d[1]
      BY <1>7, <2>1, <2>3
    <3> QED
      BY <1>7, <2>1, <2>3, <3>1
  <2>4. k = 0 => Len(a) = 1
    BY <1>7, <2>1
  <2> HIDE DEF a
  <2> QED
    BY <2>1, <2>2, <2>3, <2>4
<1>9. Key(t) = (a \o z) \o e
  BY <1>2
<1> HIDE DEF a
<1> DEFINE b == a \o z
<1>10. /\ b \in Seq(Nat) /\ Len(b) = Len(a) + k /\ b[1] = t.sec
       /\ k > 0 => b[2] = Dot
       /\ \A i \in 1 .. k : Len(b) = k + 2 /\ b[i + 2] = Zero + t.frac[i]
  <2>1. /\ b \in Seq(Nat) /\ Len(b) = Len(a) + k
        /\ \A i \in 1 .. Len(a) : b[i] = a[i]
        /\ \A i \in 1 .. k : b[Len(a) + i] = z[i]
    BY <1>6, <1>8, ConcatBytes
  <2> HIDE DEF b
  <2>2. b[1] = t.sec
    BY <1>8, <2>1
  <2>3. ASSUME k > 0 PROVE b[2] = Dot
    <3>1. Len(a) = 2 /\ a[2] = Dot
      BY <1>8, <2>3
    <3> QED
      BY <2>1, <3>1
  <2>4. ASSUME NEW i \in 1 .. k PROVE Len(b) = k + 2 /\ b[i + 2] = Zero + t.frac[i]
    <3>1. k > 0
      BY <1>7
    <3>2. Len(a) = 2
      BY <1>8, <3>1
    <3>3. Len(b) = k + 2 /\ Len(a) + i = i + 2
      BY <1>7, <2>1, <3>2
    <3>4. b[Len(a) + i] = z[i] /\ z[i] = Zero + t.frac[i]
      BY <1>6, <2>1
    <3> QED
      BY <3>3, <3>4
  <2> QED
    BY <2>1, <2>2, <2>3, <2>4
<1>11. Key(t) = b \o e
  BY <1>9
<1> HIDE DEF b
<1>12. /\ b \o e \in Seq(Nat) /\ Len(b \o e) = Len(b) + 1 /\ Len(b) \in Nat
       /\ \A i \in 1 .. Len(b) : (b \o e)[i] = b[i]
       /\ (b \o e)[Len(b) + 1] = Zed
  <2>1. b \in Seq(Nat)
    BY <1>10
  <2>2. e \in Seq(Nat) /\ Len(e) = 1 /\ e[1] = Zed
    BY <1>4
  <2>3. /\ b \o e \in Seq(Nat) /\ Len(b \o e) = Len(b) + Len(e) /\ Len(b) \in Nat
        /\ \A i \in 1 .. Len(b) : (b \o e)[i] = b[i]
        /\ \A i \in 1 .. Len(e) : (b \o e)[Len(b) + i] = e[i]
    BY <2>1, <2>2, ConcatBytes
  <2> QED
    BY <2>2, <2>3
<1>13. Key(t) \in Seq(Nat) /\ DOMAIN Key(t) = 1 .. (Len(b) + 1) /\ Len(b) >= 1
       /\ (k > 0 => Len(b) >= 2)
  BY <1>1, <1>8, <1>10, <1>11, <1>12
<1>14. \A i \in 1 .. k : i + 2 \in 1 .. Len(b) /\ i + 2 \in 1 .. (Len(b) + 1)
  BY <1>1, <1>10, <1>12, SMTT(30)
<1>15. 1 \in DOMAIN Key(t) /\ Key(t)[1] = t.sec
  BY <1>10, <1>11, <1>12, <1>13
<1>16. k > 0 => 2 \in DOMAIN Key(t) /\ Key(t)[2] = Dot
  BY <1>10, <1>11, <1>12, <1>13
<1>18. KeyEnd(t) \in DOMAIN Key(t) /\ Key(t)[KeyEnd(t)] = Zed
  <2>1. Len(b) + 1 = IF k = 0 THEN 2 ELSE k + 3
    <3>1. CASE k = 0
      <4>1. Len(a) = 1 /\ Len(b) = Len(a) + 0
        BY <1>8, <1>10, <3>1
      <4> QED
        BY <4>1, <3>1
    <3>2. CASE k # 0
      <4>1. k \in Nat /\ k > 0 /\ Len(a) = 2 /\ Len(b) = Len(a) + k
        BY <1>7, <1>8, <1>10, <3>2
      <4> QED
        BY <4>1, <3>2
    <3> QED
      BY <3>1, <3>2
  <2>2. KeyEnd(t) = Len(b) + 1
    BY <2>1 DEF KeyEnd, k
  <2> QED
    BY <2>2, <1>11, <1>12, <1>13
<1>17. \A i \in 1 .. k : i + 2 \in DOMAIN Key(t) /\ Key(t)[i + 2] = Zero + t.frac[i]
  BY <1>10, <1>11, <1>12, <1>13, <1>14
<1> QED
  BY <1>13, <1>15, <1>16, <1>17, <1>18 DEF k

\* The counts of ListEvents and TrimEventsDelete are of one order.
LEMMA KeyLessTransitive ==
    ASSUME NEW t \in Time, NEW u \in Time, NEW v \in Time, KeyLess(t, u), KeyLess(u, v)
    PROVE  KeyLess(t, v)
<1>1. Key(t) \in Seq(Nat) /\ Key(u) \in Seq(Nat) /\ Key(v) \in Seq(Nat)
  BY KeyBytes
<1> QED
  BY <1>1, BytesLessTransitive DEF KeyLess

\* Of two times in one second the first digit in which they differ decides if
\* both keys have it ...
LEMMA DigitDecides ==
    ASSUME NEW t \in Time, NEW u \in Time, t.sec = u.sec, NEW i \in 1 .. Places,
           t.frac[i] < u.frac[i], \A j \in 1 .. (i - 1) : t.frac[j] = u.frac[j],
           i <= PrintedLen(t)
    PROVE  KeyLess(t, u)
<1>1. \A j \in 1 .. Places : t.frac[j] \in Nat /\ u.frac[j] \in Nat
  <2>1. \A d \in Digits : d \in Nat
    BY DigitNumbers
  <2>2. t.frac \in [1 .. Places -> Digits] /\ u.frac \in [1 .. Places -> Digits]
    BY DEF Time
  <2> QED
    BY <2>1, <2>2
<1> USE EventLogAssumption
<1>2. t.sec = u.sec
  OBVIOUS
<1>3. i \in 1 .. Places /\ i \in Nat
  OBVIOUS
<1>4. \A j \in 1 .. (i - 1) : t.frac[j] = u.frac[j]
  OBVIOUS
<1>6. t.frac[i] < u.frac[i]
  OBVIOUS
<1> DEFINE k == PrintedLen(t)
           l == PrintedLen(u)
<1>7. /\ k \in Nat /\ l \in Nat
      /\ Printed(t) \in Seq(Nat) /\ Len(Printed(t)) = k
      /\ Printed(u) \in Seq(Nat) /\ Len(Printed(u)) = l
      /\ \A j \in 1 .. k : Printed(t)[j] = t.frac[j]
      /\ \A j \in 1 .. l : Printed(u)[j] = u.frac[j]
  BY PrintedDigits
<1>8. i <= l
  <2>1. u.frac[i] # 0
    BY <1>1, <1>3, <1>6
  <2> QED
    BY <1>3, <2>1, PrintedDigits
<1>9. i <= k
  OBVIOUS
<1>11. i \in 1 .. k /\ i \in 1 .. l /\ k > 0 /\ l > 0
  BY <1>3, <1>7, <1>8, <1>9
<1>12. /\ i + 2 \in DOMAIN Key(t) /\ i + 2 \in DOMAIN Key(u)
      /\ Key(t)[i + 2] = Zero + t.frac[i] /\ Key(u)[i + 2] = Zero + u.frac[i]
  BY <1>11, KeyBytes
<1>13. Key(t)[i + 2] < Key(u)[i + 2]
  BY <1>1, <1>3, <1>6, <1>12 DEF Zero
<1>14. ASSUME NEW j \in 1 .. ((i + 2) - 1) PROVE Key(t)[j] = Key(u)[j]
  <2>1. CASE j = 1
    BY <1>2, <2>1, KeyBytes
  <2>2. CASE j = 2
    BY <1>11, <2>2, KeyBytes
  <2>3. CASE j # 1 /\ j # 2
    <3>1. PICK h \in 1 .. (i - 1) : j = h + 2
      <4>1. j - 2 \in 1 .. (i - 1) /\ j = (j - 2) + 2
        BY <1>3, <2>3
      <4> QED
        BY <4>1
    <3>2. h \in 1 .. k /\ h \in 1 .. l /\ t.frac[h] = u.frac[h]
      <4>1. t.frac[h] = u.frac[h]
        BY <1>4
      <4>2. k \in Nat /\ l \in Nat /\ i <= k /\ i <= l /\ i \in Nat
        BY <1>3, <1>7, <1>8, <1>9
      <4> HIDE DEF k, l
      <4>3. h \in 1 .. k /\ h \in 1 .. l
        BY <4>2
      <4> QED
        BY <4>1, <4>3
    <3>3. Key(t)[h + 2] = Zero + t.frac[h] /\ Key(u)[h + 2] = Zero + u.frac[h]
      BY <3>2, KeyBytes
    <3> QED
      BY <3>1, <3>2, <3>3
  <2> QED
    BY <2>1, <2>2, <2>3
<1>15. BytesLess(Key(t), Key(u))
  BY <1>12, <1>13, <1>14 DEF BytesLess
<1> QED
  BY <1>15 DEF KeyLess

\* ... and otherwise the one is printed as the beginning of the other ...
LEMMA CutBefore ==
    ASSUME NEW t \in Time, NEW u \in Time, t.sec = u.sec, NEW i \in 1 .. Places,
           t.frac[i] < u.frac[i], \A j \in 1 .. (i - 1) : t.frac[j] = u.frac[j],
           ~(i <= PrintedLen(t))
    PROVE  Shadows(t, u)
<1>1. \A j \in 1 .. Places : t.frac[j] \in Nat /\ u.frac[j] \in Nat
  <2>1. \A d \in Digits : d \in Nat
    BY DigitNumbers
  <2>2. t.frac \in [1 .. Places -> Digits] /\ u.frac \in [1 .. Places -> Digits]
    BY DEF Time
  <2> QED
    BY <2>1, <2>2
<1> USE EventLogAssumption
<1>2. t.sec = u.sec
  OBVIOUS
<1>3. i \in 1 .. Places /\ i \in Nat
  OBVIOUS
<1>4. \A j \in 1 .. (i - 1) : t.frac[j] = u.frac[j]
  OBVIOUS
<1>6. t.frac[i] < u.frac[i]
  OBVIOUS
<1> DEFINE k == PrintedLen(t)
           l == PrintedLen(u)
<1>7. /\ k \in Nat /\ l \in Nat
      /\ Printed(t) \in Seq(Nat) /\ Len(Printed(t)) = k
      /\ Printed(u) \in Seq(Nat) /\ Len(Printed(u)) = l
      /\ \A j \in 1 .. k : Printed(t)[j] = t.frac[j]
      /\ \A j \in 1 .. l : Printed(u)[j] = u.frac[j]
  BY PrintedDigits
<1>8. i <= l
  <2>1. u.frac[i] # 0
    BY <1>1, <1>3, <1>6
  <2> QED
    BY <1>3, <2>1, PrintedDigits
<1>9. k < i
  <2>1. k \in Nat /\ i \in Nat /\ ~(i <= k)
    BY <1>7
  <2> QED
    BY <2>1
<1> DEFINE p == Printed(t)
           q == Printed(u)
<1>11. k < l /\ \A j \in 1 .. k : p[j] = q[j]
  <2>1. \A j \in 1 .. k : j \in 1 .. l /\ j \in 1 .. (i - 1)
    BY <1>3, <1>7, <1>8, <1>9
  <2> QED
    BY <1>3, <1>4, <1>7, <1>8, <1>9, <2>1, SMTT(30)
<1>12. p \in Seq(Nat) /\ q \in Seq(Nat) /\ Len(p) = k /\ Len(q) = l /\ k \in Nat /\ l \in Nat
  BY <1>7
<1> HIDE DEF p, q, k, l
<1>13. SubSeq(p, 1, k) = SubSeq(q, 1, k)
  <2>1. /\ SubSeq(p, 1, k) \in Seq(Nat) /\ Len(SubSeq(p, 1, k)) = k
        /\ \A j \in 1 .. k : SubSeq(p, 1, k)[j] = p[j]
    BY <1>12, SubSeqProperties
  <2>2. /\ SubSeq(q, 1, k) \in Seq(Nat) /\ Len(SubSeq(q, 1, k)) = k
        /\ \A j \in 1 .. k : SubSeq(q, 1, k)[j] = q[j]
    BY <1>11, <1>12, SubSeqProperties
  <2>3. \A j \in 1 .. k : SubSeq(p, 1, k)[j] = SubSeq(q, 1, k)[j]
    BY <1>11, <2>1, <2>2, Zenon
  <2> QED
    BY <1>12, <2>1, <2>2, <2>3, SameLines, Zenon
<1>14. Len(p) <= Len(q) /\ p # q
  BY <1>11, <1>12
<1>15. Seqs!IsStrictPrefix(p, q)
  BY <1>12, <1>13, <1>14 DEF Seqs!IsStrictPrefix, Seqs!IsPrefix
<1> QED
  BY <1>2, <1>15 DEF Shadows, p, q

\* ... and comes after it, since "Z" comes after "." and the digits.
LEMMA ShadowAfter ==
    ASSUME NEW t \in Time, NEW u \in Time, Shadows(t, u)
    PROVE  KeyLess(u, t)
<1> USE EventLogAssumption
<1> DEFINE k == PrintedLen(t)
           l == PrintedLen(u)
           e == KeyEnd(t)
<1>1. /\ k \in Nat /\ l \in Nat
      /\ Printed(t) \in Seq(Nat) /\ Len(Printed(t)) = k
      /\ Printed(u) \in Seq(Nat) /\ Len(Printed(u)) = l
      /\ \A j \in 1 .. k : Printed(t)[j] = t.frac[j]
      /\ \A j \in 1 .. l : Printed(u)[j] = u.frac[j]
  BY PrintedDigits
<1>2. k < l /\ \A j \in 1 .. k : t.frac[j] = u.frac[j]
  <2> DEFINE p == Printed(t)
             q == Printed(u)
  <2>1. Seqs!IsPrefix(p, q) /\ p # q
    BY DEF Shadows, Seqs!IsStrictPrefix
  <2>2. k <= l /\ SubSeq(p, 1, k) = SubSeq(q, 1, k)
    BY <1>1, <2>1 DEF Seqs!IsPrefix
  <2>3. p \in Seq(Nat) /\ q \in Seq(Nat) /\ Len(p) = k /\ Len(q) = l /\ k \in Nat /\ l \in Nat
    BY <1>1
  <2> HIDE DEF p, q, k, l
  <2>4. /\ \A j \in 1 .. k : SubSeq(p, 1, k)[j] = p[j]
        /\ \A j \in 1 .. k : SubSeq(q, 1, k)[j] = q[j]
    BY <2>2, <2>3, SubSeqProperties
  <2>5. \A j \in 1 .. k : p[j] = q[j]
    BY <2>2, <2>4
  <2>6. k # l
    <3> SUFFICES ASSUME k = l PROVE p = q
      BY <2>1
    <3> QED
      BY <2>3, <2>5, SameLines, Zenon
  <2>7. \A j \in 1 .. k : j \in 1 .. l
    BY <2>2, <2>3
  <2>8. \A j \in 1 .. k : p[j] = t.frac[j] /\ q[j] = u.frac[j]
    BY <1>1, <2>7 DEF p, q
  <2> QED
    BY <2>2, <2>3, <2>5, <2>6, <2>8
<1>3. t.sec = u.sec
  BY DEF Shadows
<1>4. e \in DOMAIN Key(t) /\ Key(t)[e] = Zed /\ e = IF k = 0 THEN 2 ELSE k + 3
  BY KeyBytes DEF KeyEnd
<1>5. e \in DOMAIN Key(u) /\ Key(u)[e] < Zed
  <2>1. CASE k = 0
    BY <1>1, <1>2, <1>4, <2>1, KeyBytes DEF Dot, Zed
  <2>2. CASE k # 0
    <3>1. k + 1 \in 1 .. l /\ (k + 1) + 2 = e
      BY <1>1, <1>2, <1>4, <2>2
    <3>2. e \in DOMAIN Key(u) /\ Key(u)[e] = Zero + u.frac[k + 1]
      BY <3>1, KeyBytes
    <3>3. u.frac[k + 1] \in 0 .. 9
      <4>1. PrintedLen(u) \in 0 .. Places
        BY PrintedDigits
      <4>2. k + 1 \in 1 .. Places
        BY <1>1, <3>1, <4>1
      <4>3. u.frac \in [1 .. Places -> Digits]
        BY DEF Time
      <4> QED
        BY <4>2, <4>3
    <3> QED
      BY <3>2, <3>3 DEF Zero, Zed
  <2> QED
    BY <2>1, <2>2
<1>6. ASSUME NEW j \in 1 .. (e - 1) PROVE Key(u)[j] = Key(t)[j]
  <2>1. CASE j = 1
    BY <1>3, <2>1, KeyBytes
  <2>2. CASE j = 2
    <3>1. k \in Nat /\ l \in Nat /\ k < l /\ e = IF k = 0 THEN 2 ELSE k + 3
      BY <1>1, <1>2, <1>4
    <3> HIDE DEF k, l, e
    <3>2. k > 0 /\ l > 0
      BY <3>1, <2>2
    <3> QED
      BY <2>2, <3>2, KeyBytes DEF k, l
  <2>3. CASE j # 1 /\ j # 2
    <3>1. k \in Nat /\ l \in Nat /\ k < l /\ e = IF k = 0 THEN 2 ELSE k + 3
      BY <1>1, <1>2, <1>4
    <3> HIDE DEF k, l, e
    <3>2. j - 2 \in 1 .. k /\ j - 2 \in 1 .. l /\ (j - 2) + 2 = j
      BY <3>1, <2>3
    <3>3. Key(t)[j] = Zero + t.frac[j - 2] /\ Key(u)[j] = Zero + u.frac[j - 2]
      BY <3>2, KeyBytes DEF k, l
    <3> QED
      BY <1>2, <3>2, <3>3
  <2> QED
    BY <2>1, <2>2, <2>3
<1>7. e \in DOMAIN Key(u) \cap DOMAIN Key(t) /\ Key(u)[e] < Key(t)[e]
  BY <1>4, <1>5
<1> HIDE DEF e
<1> QED
  BY <1>6, <1>7 DEF KeyLess, BytesLess

\* Of two times the key of the first is the smaller one, or the second is the
\* earlier one, or the first is printed as the beginning of the second.
LEMMA KeyOrder ==
    ASSUME NEW t \in Time, NEW u \in Time, t # u, ~KeyLess(t, u)
    PROVE  Before(u, t) \/ Shadows(t, u)
<1> USE EventLogAssumption
<1>1. /\ t = [sec |-> t.sec, frac |-> t.frac] /\ u = [sec |-> u.sec, frac |-> u.frac]
      /\ t.sec \in Nat /\ u.sec \in Nat
      /\ t.frac \in [1 .. Places -> Digits] /\ u.frac \in [1 .. Places -> Digits]
  BY DEF Time
<1>2. \A i \in 1 .. Places : t.frac[i] \in Nat /\ u.frac[i] \in Nat
  <2>1. \A d \in Digits : d \in Nat
    BY DigitNumbers
  <2> QED
    BY <1>1, <2>1
<1>3. CASE t.sec # u.sec
  <2>1. ~(t.sec < u.sec)
    <3> SUFFICES ASSUME t.sec < u.sec PROVE KeyLess(t, u)
      OBVIOUS
    <3>1. /\ 1 \in DOMAIN Key(t) \cap DOMAIN Key(u) /\ Key(t)[1] < Key(u)[1]
      BY KeyBytes
    <3>2. \A j \in 1 .. (1 - 1) : Key(t)[j] = Key(u)[j]
      OBVIOUS
    <3> QED
      BY <3>1, <3>2 DEF KeyLess, BytesLess
  <2> QED
    BY <1>1, <1>3, <2>1 DEF Before
<1>4. CASE t.sec = u.sec
  <2> DEFINE D == {i \in 1 .. Places : t.frac[i] # u.frac[i]}
  <2>1. D # {}
    <3> SUFFICES ASSUME D = {} PROVE FALSE
      OBVIOUS
    <3>1. \A i \in 1 .. Places : t.frac[i] = u.frac[i]
      OBVIOUS
    <3>2. t.frac = u.frac
      BY <1>1, <3>1
    <3> QED
      BY <1>1, <1>4, <3>2
  <2>2. PICK i \in D : \A j \in D : i <= j
    <3>1. D \in SUBSET Nat
      OBVIOUS
    <3> HIDE DEF D
    <3> QED
      BY <2>1, <3>1, LeastNumber
  <2>3. i \in 1 .. Places /\ i \in Nat /\ t.frac[i] # u.frac[i]
    OBVIOUS
  <2>4. \A j \in 1 .. (i - 1) : t.frac[j] = u.frac[j]
    BY <2>2, <2>3
  <2> HIDE DEF D
  <2>5. CASE u.frac[i] < t.frac[i]
    <3>1. BytesLess(u.frac, t.frac)
      BY <1>1, <2>3, <2>4, <2>5 DEF BytesLess
    <3> QED
      BY <1>4, <3>1 DEF Before
  <2>6. CASE t.frac[i] < u.frac[i]
    <3>1. CASE i <= PrintedLen(t)
      BY <1>4, <2>3, <2>4, <2>6, <3>1, DigitDecides
    <3>2. CASE ~(i <= PrintedLen(t))
      BY <1>4, <2>3, <2>4, <2>6, <3>2, CutBefore
    <3> QED
      BY <3>1, <3>2
  <2> QED
    BY <1>2, <2>3, <2>5, <2>6
<1> QED
  BY <1>3, <1>4

\* No two events have the same place in the log.
LEMMA KeyTotal ==
    ASSUME NEW t \in Time, NEW u \in Time, t # u, ~KeyLess(t, u)
    PROVE  KeyLess(u, t)
<1> USE EventLogAssumption
<1>1. Before(u, t) \/ Shadows(t, u)
  BY KeyOrder
<1>2. CASE t.sec # u.sec
  <2>1. u.sec < t.sec
    BY <1>1, <1>2 DEF Before, Shadows
  <2>2. 1 \in DOMAIN Key(u) \cap DOMAIN Key(t) /\ Key(u)[1] < Key(t)[1]
    BY <2>1, KeyBytes
  <2>3. \A j \in 1 .. (1 - 1) : Key(u)[j] = Key(t)[j]
    OBVIOUS
  <2> QED
    BY <2>2, <2>3 DEF KeyLess, BytesLess
<1>3. CASE t.sec = u.sec /\ Shadows(t, u)
  BY <1>3, ShadowAfter
<1>4. CASE t.sec = u.sec /\ ~Shadows(t, u)
  <2>1. BytesLess(u.frac, t.frac)
    <3>1. t.sec \in Nat /\ u.sec \in Nat
      BY DEF Time
    <3> QED
      BY <1>1, <1>4, <3>1 DEF Before
  <2>2. PICK i \in 1 .. Places :
           u.frac[i] < t.frac[i] /\ \A j \in 1 .. (i - 1) : u.frac[j] = t.frac[j]
    <3>1. DOMAIN u.frac = 1 .. Places /\ DOMAIN t.frac = 1 .. Places
      BY DEF Time
    <3> QED
      BY <2>1, <3>1 DEF BytesLess
  <2>3. CASE i <= PrintedLen(u)
    BY <1>4, <2>2, <2>3, DigitDecides
  <2>4. CASE ~(i <= PrintedLen(u))
    <3>1. Shadows(u, t)
      BY <1>4, <2>2, <2>4, CutBefore
    <3> QED
      BY <1>1, <1>4, <2>2, <2>4, <3>1, ShadowAfter
  <2> QED
    BY <2>3, <2>4
<1> QED
  BY <1>2, <1>3, <1>4

\* The log is finite, and only grows after it was counted.
EventLogInv ==
    /\ evlog \in SUBSET Time /\ IsFiniteSet(evlog)
    /\ found \in Nat /\ found <= Cardinality(evlog)

LEMMA EventLogTyped == EventLogSpec => []EventLogInv
<1>1. EventLogInit => EventLogInv
  BY FS_EmptySet DEF EventLogInit, EventLogInv
<1>2. EventLogInv /\ [EventLogNext]_eventLogVars => EventLogInv'
  <2> SUFFICES ASSUME EventLogInv, [EventLogNext]_eventLogVars PROVE EventLogInv'
    OBVIOUS
  <2> USE DEF EventLogInv
  <2>1. ASSUME NEW t \in Time, AppendEvent(t) PROVE EventLogInv'
    <3>1. evlog' = evlog \cup {t} /\ t \notin evlog /\ found' = found
      BY <2>1 DEF AppendEvent
    <3>2. IsFiniteSet(evlog') /\ Cardinality(evlog') = Cardinality(evlog) + 1
      BY <3>1, FS_AddElement
    <3>3. Cardinality(evlog) \in Nat
      BY FS_CardinalityType
    <3> QED
      BY <3>1, <3>2, <3>3
  <2>2. CASE TrimEvents
    BY <2>2, FS_CardinalityType DEF TrimEvents
  <2>3. CASE TrimEventsDelete
    <3>1. found' = 0 /\ evlog' \subseteq evlog
      BY <2>3 DEF TrimEventsDelete
    <3>2. IsFiniteSet(evlog') /\ Cardinality(evlog') \in Nat
      BY <3>1, FS_Subset, FS_CardinalityType
    <3> QED
      BY <3>1, <3>2
  <2>4. CASE UNCHANGED eventLogVars
    BY <2>4 DEF eventLogVars
  <2> QED
    BY <2>1, <2>2, <2>3, <2>4 DEF EventLogNext
<1> QED
  BY <1>1, <1>2, PTL DEF EventLogSpec

\* The events of the log whose keys are before, and after, that of t.
Earlier(t) == {u \in evlog : KeyLess(u, t)}
Later(t) == {u \in evlog : KeyLess(t, u)}

\* The smaller a key, the fewer are before it and the more after it.
LEMMA KeyCounts ==
    ASSUME EventLogInv, NEW t \in evlog, NEW u \in evlog, KeyLess(t, u)
    PROVE  /\ Cardinality(Earlier(t)) <= Cardinality(Earlier(u))
           /\ Cardinality(Later(u)) <= Cardinality(Later(t))
<1>1. Earlier(t) \subseteq Earlier(u) /\ Later(u) \subseteq Later(t)
  <2>1. t \in Time /\ u \in Time /\ evlog \subseteq Time
    BY DEF EventLogInv
  <2> QED
    BY <2>1, KeyLessTransitive DEF Earlier, Later
<1>2. IsFiniteSet(Earlier(u)) /\ IsFiniteSet(Later(t))
  BY FS_Subset DEF Earlier, Later, EventLogInv
<1> QED
  BY <1>1, <1>2, FS_Subset

\* ListEvents shows and TrimEvents keeps the newest events, for every number of
\* digits and any times, but for the one case in which RFC3339Nano prints an
\* older fraction as the beginning of a newer one (store.go:788-863).
THEOREM OldestFirstHolds == EventLogSpec => OldestFirst
<1>1. EventLogInv => ListNewest
  <2> SUFFICES ASSUME EventLogInv, NEW t \in ListEvents, NEW u \in evlog \ ListEvents
               PROVE  Before(u, t) \/ Shadows(t, u)
    BY DEF ListNewest
  <2>1. t \in evlog /\ t \in Time /\ u \in Time /\ t # u
    BY DEF ListEvents, EventLogInv
  <2>2. Cardinality(Later(t)) < Limit /\ ~(Cardinality(Later(u)) < Limit)
    BY DEF ListEvents, Later
  <2>3. Cardinality(Later(t)) \in Nat /\ Cardinality(Later(u)) \in Nat
    BY FS_Subset, FS_CardinalityType DEF Later, EventLogInv
  <2>4. ~KeyLess(t, u)
    BY <2>1, <2>2, <2>3, KeyCounts, EventLogAssumption
  <2> QED
    BY <2>1, <2>4, KeyOrder
<1>2. EventLogInv /\ [EventLogNext]_eventLogVars =>
         [\A t \in evlog \ evlog' : \A u \in evlog' : Before(t, u) \/ Shadows(u, t)]_eventLogVars
  <2> SUFFICES ASSUME EventLogInv, EventLogNext, NEW t \in evlog \ evlog', NEW u \in evlog'
               PROVE  Before(t, u) \/ Shadows(u, t)
    OBVIOUS
  <2>1. TrimEventsDelete
    BY DEF EventLogNext, AppendEvent, TrimEvents
  <2>2. /\ u \in evlog /\ t # u /\ t \in Time /\ u \in Time
        /\ ~(Cardinality(Earlier(t)) >= found - KeepLog)
        /\ Cardinality(Earlier(u)) >= found - KeepLog
    BY <2>1 DEF TrimEventsDelete, Earlier, EventLogInv
  <2>3. Cardinality(Earlier(t)) \in Nat /\ Cardinality(Earlier(u)) \in Nat
    BY FS_Subset, FS_CardinalityType DEF Earlier, EventLogInv
  <2>4. ~KeyLess(u, t)
    <3>1. found - KeepLog \in Int
      BY EventLogAssumption DEF EventLogInv
    <3> QED
      BY <2>2, <2>3, <3>1, KeyCounts
  <2> QED
    BY <2>2, <2>4, KeyOrder
<1> QED
  BY <1>1, <1>2, EventLogTyped, PTL DEF EventLogSpec, OldestFirst, TrimOldest

\* However many events are appended between the count and the deletion, and
\* wherever their keys belong, the deletion leaves the last KeepLog keys alone
\* (store.go:834-863).
THEOREM TrimKeepsLatestHolds == EventLogSpec => TrimKeepsLatest
<1>1. EventLogInv /\ [EventLogNext]_eventLogVars =>
         [\A t \in evlog : Cardinality({u \in evlog : KeyLess(t, u)}) < KeepLog
                               => t \in evlog']_eventLogVars
  <2> SUFFICES ASSUME EventLogInv, EventLogNext, NEW t \in evlog,
                      Cardinality(Later(t)) < KeepLog
               PROVE  t \in evlog'
    BY DEF Later
  <2>1. CASE ~TrimEventsDelete
    BY <2>1 DEF EventLogNext, AppendEvent, TrimEvents
  <2>2. CASE TrimEventsDelete
    <3>1. /\ IsFiniteSet(Earlier(t)) /\ IsFiniteSet(Later(t)) /\ IsFiniteSet(evlog)
          /\ Cardinality(Earlier(t)) \in Nat /\ Cardinality(Later(t)) \in Nat
          /\ Cardinality(evlog) \in Nat
      BY FS_Subset, FS_CardinalityType DEF Earlier, Later, EventLogInv
    <3>2. evlog \subseteq (Earlier(t) \cup {t}) \cup Later(t)
      <4>1. \A u \in evlog : u # t => KeyLess(u, t) \/ KeyLess(t, u)
        BY KeyTotal DEF EventLogInv
      <4> QED
        BY <4>1 DEF Earlier, Later
    <3>3. Cardinality(evlog) <= (Cardinality(Earlier(t)) + 1) + Cardinality(Later(t))
      <4>1. /\ IsFiniteSet(Earlier(t) \cup {t})
            /\ Cardinality(Earlier(t) \cup {t}) <= Cardinality(Earlier(t)) + 1
        <5> DEFINE A == Earlier(t)
        <5>1. IsFiniteSet(A) /\ Cardinality(A) \in Nat
          BY <3>1
        <5> HIDE DEF A
        <5>2. /\ IsFiniteSet(A \cup {t})
              /\ Cardinality(A \cup {t}) = IF t \in A THEN Cardinality(A) ELSE Cardinality(A) + 1
          BY <5>1, FS_AddElement
        <5> QED
          BY <5>1, <5>2 DEF A
      <4>2. /\ IsFiniteSet((Earlier(t) \cup {t}) \cup Later(t))
            /\ Cardinality((Earlier(t) \cup {t}) \cup Later(t))
                  <= Cardinality(Earlier(t) \cup {t}) + Cardinality(Later(t))
        <5> DEFINE A == Earlier(t) \cup {t}
                   B == Later(t)
        <5>1. IsFiniteSet(A) /\ IsFiniteSet(B)
          BY <3>1, <4>1
        <5> HIDE DEF A, B
        <5>2. /\ IsFiniteSet(A \cup B)
              /\ Cardinality(A \cup B) = Cardinality(A) + Cardinality(B) - Cardinality(A \cap B)
          BY <5>1, FS_Union
        <5>3. Cardinality(A \cap B) \in Nat /\ Cardinality(A) \in Nat /\ Cardinality(B) \in Nat
          BY <5>1, FS_Intersection, FS_CardinalityType
        <5> QED
          BY <5>2, <5>3 DEF A, B
      <4>3. Cardinality(evlog) <= Cardinality((Earlier(t) \cup {t}) \cup Later(t))
        BY <3>2, <4>2, FS_Subset
      <4>4. /\ Cardinality(Earlier(t) \cup {t}) \in Nat
            /\ Cardinality((Earlier(t) \cup {t}) \cup Later(t)) \in Nat
        BY <4>1, <4>2, FS_CardinalityType
      <4> QED
        BY <3>1, <4>1, <4>2, <4>3, <4>4
    <3>4. Cardinality(Earlier(t)) >= found - KeepLog
      BY <3>1, <3>3, EventLogAssumption DEF EventLogInv
    <3> QED
      BY <2>2, <3>4 DEF TrimEventsDelete, Earlier
  <2> QED
    BY <2>1, <2>2
<1> QED
  BY <1>1, EventLogTyped, PTL DEF EventLogSpec, TrimKeepsLatest
=============================================================================
