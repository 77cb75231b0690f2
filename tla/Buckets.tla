------------------------------ MODULE Buckets -------------------------------
(***************************************************************************)
(* Buckets and access keys of several projects in one Garage.  Projects    *)
(* use one bucket name, which Garage takes once for all of them, and one   *)
(* key name each.  Garage's answers of "error" are ignored by the handlers *)
(* wherever they are here.                                                 *)
(***************************************************************************)
EXTENDS Naturals

CONSTANTS
    Projects,
    NoProject,
    Requests,    \* requests at a time
    MaxBuckets,  \* bound on buckets Garage makes
    MaxKeys,     \* bound on keys Garage makes
    MaxObjReqs,  \* bound on requests
    MaxObjFaults \* bound on failing calls

BucketIDs == 1 .. MaxBuckets
KeyIDs == 1 .. MaxKeys
NoRecord == MaxBuckets + MaxKeys + 1 \* a record that is not there; 0 is one without id

ASSUME BucketsAssumption ==
    /\ MaxBuckets \in Nat /\ MaxKeys \in Nat /\ MaxObjReqs \in Nat /\ MaxObjFaults \in Nat
    /\ NoProject \notin Projects

VARIABLES
    bucket, \* Garage's buckets: "none", "empty", "filled", or "gone"
    maker,  \* history: the project each bucket was made for
    key,    \* Garage's keys: "none", "live", or "gone"
    holder, \* history: the project each key was made for
    grant,  \* Garage's permissions: pairs of a key and a bucket
    brec,   \* bucket records: the GarageID per project
    krec,   \* access key records: the AccessKeyID per project
    named,  \* history: the ids records have got from the clients of each project
    req,    \* requests: place, project, bucket and key id they hold
    asked,  \* requests so far
    failed  \* failing calls so far

garageState == <<bucket, maker, key, holder, grant>>
objVars == <<garageState, brec, krec, named, req, asked, failed>>

Holding(s, p, b, k) == [at |-> s, project |-> p, bucket |-> b, key |-> k]
Idle == Holding("idle", NoProject, 0, 0)

ObjInit ==
    /\ bucket = [b \in BucketIDs |-> "none"] /\ maker = [b \in BucketIDs |-> NoProject]
    /\ key = [k \in KeyIDs |-> "none"] /\ holder = [k \in KeyIDs |-> NoProject]
    /\ grant = {} /\ brec = [p \in Projects |-> NoRecord] /\ krec = [p \in Projects |-> NoRecord]
    /\ named = [p \in Projects |-> {}] /\ req = [r \in Requests |-> Idle]
    /\ asked = 0 /\ failed = 0

----------------------------------------------------------------------------
(* Garage, through its admin API. *)

Live(b) == bucket[b] \in {"empty", "filled"}
Taken == \E b \in BucketIDs : Live(b) \* the alias is

Fails == failed < MaxObjFaults /\ failed' = failed + 1
Works == UNCHANGED failed

MakeBucket(p, b) ==
    /\ ~Taken /\ bucket[b] = "none" /\ \A c \in 1 .. (b - 1) : bucket[c] # "none"
    /\ bucket' = [bucket EXCEPT ![b] = "empty"] /\ maker' = [maker EXCEPT ![b] = p]
    /\ UNCHANGED <<key, holder, grant>>

MakeKey(p, k) ==
    /\ key[k] = "none" /\ \A c \in 1 .. (k - 1) : key[c] # "none"
    /\ key' = [key EXCEPT ![k] = "live"] /\ holder' = [holder EXCEPT ![k] = p]
    /\ UNCHANGED <<bucket, maker, grant>>

\* Somebody writes or deletes objects.
ObjectsChange(b) ==
    /\ Live(b) /\ bucket' = [bucket EXCEPT ![b] = IF @ = "empty" THEN "filled" ELSE "empty"]
    /\ UNCHANGED <<maker, key, holder, grant, brec, krec, named, req, asked, failed>>

----------------------------------------------------------------------------
Asks(r) == req[r] = Idle /\ asked < MaxObjReqs /\ asked' = asked + 1
Goes(r, s) == req' = [req EXCEPT ![r] = s]
Answers(r) == req' = [req EXCEPT ![r] = Idle]
ID(x) == IF x = NoRecord THEN 0 ELSE x

\* Bug: a name that is taken is no error but the bucket that has it.
PutBucketAdopts(r, p, sent) ==
    /\ Asks(r) /\ Works /\ UNCHANGED <<brec, krec, named>>
    /\ \E b \in BucketIDs :
          /\ MakeBucket(p, b) \/ (Live(b) /\ UNCHANGED garageState)
          /\ Goes(r, Holding("putrec", p, b, 0))

\* handlePutBucket asks Garage for a new bucket, also when there is a record.
\* After an error, be it that the name is taken or that the answer got lost,
\* the record has the garageId of the body: nothing, what the client has read
\* of its own bucket, or any other id.
PutBucket(r, p, sent) ==
    LET goes(b) == Goes(r, Holding("putrec", p, b, 0))
        given(b) == goes(b) /\ UNCHANGED named
        kept == goes(sent) /\ named' = [named EXCEPT ![p] = @ \cup ({sent} \ {0})]
    IN
    /\ Asks(r) /\ UNCHANGED <<brec, krec>>
    /\ \/ \E b \in BucketIDs : MakeBucket(p, b) /\ ((Works /\ given(b)) \/ (Fails /\ kept))
       \/ Taken /\ Works /\ kept /\ UNCHANGED garageState
       \/ Fails /\ kept /\ UNCHANGED garageState

PutBucketRecord(r) ==
    /\ req[r].at = "putrec" /\ Answers(r) /\ UNCHANGED <<garageState, krec, named, asked>>
    /\ \/ Works /\ brec' = [brec EXCEPT ![req[r].project] = req[r].bucket]
       \/ Fails /\ UNCHANGED brec

\* handleDeleteBucket: the record ...
DeleteBucket(r, p) ==
    /\ Asks(r) /\ brec[p] # NoRecord
    /\ Goes(r, Holding(IF brec[p] = 0 THEN "delrec" ELSE "delbucket", p, brec[p], 0))
    /\ UNCHANGED <<garageState, brec, krec, named, failed>>

\* ... Garage, which refuses while there are objects ...
DeleteBucketGarage(r) ==
    /\ req[r].at = "delbucket" /\ Goes(r, [req[r] EXCEPT !.at = "delrec"])
    /\ \/ /\ bucket[req[r].bucket] = "empty" /\ Works
          /\ bucket' = [bucket EXCEPT ![req[r].bucket] = "gone"]
          /\ grant' = {g \in grant : g[2] # req[r].bucket}
       \/ bucket[req[r].bucket] # "empty" /\ Works /\ UNCHANGED <<bucket, grant>>
       \/ Fails /\ UNCHANGED <<bucket, grant>>
    /\ UNCHANGED <<maker, key, holder, brec, krec, named, asked>>

\* ... and the record, whatever it is by now.
DeleteBucketRecord(r) ==
    /\ req[r].at = "delrec" /\ Answers(r) /\ UNCHANGED <<garageState, krec, named, asked>>
    /\ \/ Works /\ brec' = [brec EXCEPT ![req[r].project] = NoRecord]
       \/ Fails /\ UNCHANGED brec

----------------------------------------------------------------------------
\* handleCreateAccessKey: a new key; without one the record will have none ...
CreateAccessKey(r, p) ==
    /\ Asks(r) /\ UNCHANGED <<brec, krec, named>>
    /\ \/ /\ \E k \in KeyIDs :
                /\ MakeKey(p, k)
                /\ Goes(r, Holding("find", p, 0, k))
          /\ Works
       \/ /\ Goes(r, Holding("keyrec", p, 0, 0))
          /\ Fails /\ ((\E k \in KeyIDs : MakeKey(p, k)) \/ UNCHANGED garageState)

\* ... the record of the bucket ...
FindBucket(r) ==
    LET b == ID(brec[req[r].project]) IN
    /\ req[r].at = "find" /\ UNCHANGED <<garageState, brec, krec, named, asked, failed>>
    /\ Goes(r, Holding(IF b = 0 THEN "keyrec" ELSE "allow", req[r].project, b, req[r].key))

\* ... the permission, if the bucket is there ...
AllowKey(r) ==
    /\ req[r].at = "allow" /\ Goes(r, [req[r] EXCEPT !.at = "keyrec"])
    /\ \/ /\ Live(req[r].bucket) /\ key[req[r].key] = "live" /\ Works
          /\ grant' = grant \cup {<<req[r].key, req[r].bucket>>}
       \/ ~(Live(req[r].bucket) /\ key[req[r].key] = "live") /\ Works /\ UNCHANGED grant
       \/ Fails /\ UNCHANGED grant
    /\ UNCHANGED <<bucket, maker, key, holder, brec, krec, named, asked>>

\* ... and the record of the key.
CreateKeyRecord(r) ==
    /\ req[r].at = "keyrec" /\ Answers(r) /\ UNCHANGED <<garageState, brec, named, asked>>
    /\ \/ Works /\ krec' = [krec EXCEPT ![req[r].project] = req[r].key]
       \/ Fails /\ UNCHANGED krec

\* handleDeleteAccessKey, the same three steps as for a bucket.
DeleteAccessKey(r, p) ==
    /\ Asks(r) /\ krec[p] # NoRecord
    /\ Goes(r, Holding(IF krec[p] = 0 THEN "delkeyrec" ELSE "delkey", p, 0, krec[p]))
    /\ UNCHANGED <<garageState, brec, krec, named, failed>>

DeleteKeyGarage(r) ==
    /\ req[r].at = "delkey" /\ Goes(r, [req[r] EXCEPT !.at = "delkeyrec"])
    /\ \/ /\ Works /\ key' = [key EXCEPT ![req[r].key] = "gone"]
          /\ grant' = {g \in grant : g[1] # req[r].key}
       \/ Fails /\ UNCHANGED <<key, grant>>
    /\ UNCHANGED <<bucket, maker, holder, brec, krec, named, asked>>

DeleteKeyRecord(r) ==
    /\ req[r].at = "delkeyrec" /\ Answers(r) /\ UNCHANGED <<garageState, brec, named, asked>>
    /\ \/ Works /\ krec' = [krec EXCEPT ![req[r].project] = NoRecord]
       \/ Fails /\ UNCHANGED krec

Step(r) ==
    \/ PutBucketRecord(r) \/ DeleteBucketGarage(r) \/ DeleteBucketRecord(r)
    \/ FindBucket(r) \/ AllowKey(r) \/ CreateKeyRecord(r)
    \/ DeleteKeyGarage(r) \/ DeleteKeyRecord(r)

ObjNext ==
    \/ \E b \in BucketIDs : ObjectsChange(b)
    \/ \E r \in Requests : Step(r)
    \/ \E r \in Requests, p \in Projects :
          \/ \E sent \in {0} \cup BucketIDs : PutBucket(r, p, sent)
          \/ DeleteBucket(r, p) \/ CreateAccessKey(r, p) \/ DeleteAccessKey(r, p)

ObjSpec == ObjInit /\ [][ObjNext]_objVars

----------------------------------------------------------------------------
\* Projects with a bucket of one name share Garage's only by a client's word:
\* a record has no id, one of a bucket made for its project, or one that a
\* client of the project has itself sent.  Taken names, lost answers, repeated
\* PUTs and deletions in between never give a project the bucket of another
\* (handlers.go:420-460).
BucketsApart ==
    \A p \in Projects : \A b \in BucketIDs : brec[p] = b => maker[b] = p \/ b \in named[p]

\* A key opens only buckets made for its own project, or named by its clients,
\* whatever was deleted, put again or failed while it was made
\* (handlers.go:478-516).
KeysApart == \A g \in grant : holder[g[1]] = maker[g[2]] \/ g[2] \in named[holder[g[1]]]

\* Projects stay apart in one Garage as long as their clients keep to the ids
\* they were given (handlers.go:420-541).
ProjectsApart == BucketsApart /\ KeysApart
=============================================================================
