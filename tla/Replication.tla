---------------------------- MODULE Replication ----------------------------
(***************************************************************************)
(* How a write reaches the BoltDB of every node: ReplicatedStore decides   *)
(* between the local Store and the Raft log, the FSM of each node applies  *)
(* the committed log to its own BoltDB, snapshots dump and replace that    *)
(* BoltDB, and a restarted node replays the log over whatever is in it.    *)
(*                                                                         *)
(* hashicorp/raft is external and modelled by what it promises: one        *)
(* committed log, a leader that has all of it, in-order application, and   *)
(* on restart the last snapshot restored and the rest applied again.  A    *)
(* key stands for a bucket and a BoltDB key, a value for the record's JSON.*)
(***************************************************************************)
EXTENDS Integers, Sequences, FiniteSets

CONSTANTS
    Nodes,        \* machines
    First,        \* the node that bootstraps the cluster
    Keys, Vals,   \* records and what they may hold
    None,         \* no record
    NoKey,        \* the key of a configuration entry
    NoNode,       \* no leader; the voter of an entry that adds none
    InternalKeys, \* keys the reconciler, builder etc. write with the bare Store
    MaxLog,       \* bound on the log
    MaxLocal,     \* bound on writes that bypass the log
    MaxRestarts   \* bound on restarts and leadership losses

ASSUME ReplicationAssumption ==
    /\ First \in Nodes /\ NoNode \notin Nodes
    /\ NoKey \notin Keys /\ None \notin Vals
    /\ InternalKeys \subseteq Keys
    /\ MaxLog \in Nat /\ MaxLocal \in Nat /\ MaxRestarts \in Nat

VARIABLES
    log,      \* the committed Raft log
    leader,   \* the current leader or NoNode
    got,      \* per node: how much of the log it has received
    applied,  \* per node: index of the last entry its FSM applied
    db,       \* per node: BoltDB
    snap,     \* per node: last snapshot [idx, db]; idx 0 means none
    pend,     \* per node: an API write that took the fast path, not done yet
    dirty,    \* history: keys ever written outside the log
    locals, restarts \* how much of the bounds is spent

replVars == <<log, leader, got, applied, db, snap, pend, dirty, locals, restarts>>

Bolt == [Keys -> Vals \cup {None}]
EmptyBolt == [k \in Keys |-> None]
\* LogOp: value None is the op "delete".  A configuration entry has NoKey.
Entry == [key : Keys \cup {NoKey}, val : Vals \cup {None}, voter : Nodes \cup {NoNode}]
LogOp(k, v) == [key |-> k, val |-> v, voter |-> NoNode]
AddServer(n) == [key |-> NoKey, val |-> None, voter |-> n]
Write == [key : Keys, val : Vals \cup {None}]
Snap == [idx : Nat, db : Bolt]

ReplTypeOK ==
    /\ log \in Seq(Entry)
    /\ leader \in Nodes \cup {NoNode}
    /\ got \in [Nodes -> Nat] /\ applied \in [Nodes -> Nat]
    /\ \A n \in Nodes : applied[n] <= got[n] /\ got[n] <= Len(log)
    /\ db \in [Nodes -> Bolt]
    /\ snap \in [Nodes -> Snap]
    /\ \A n \in Nodes : snap[n].idx <= got[n]
    /\ pend \in [Nodes -> Write \cup {None}]
    /\ dirty \subseteq Keys
    /\ locals \in 0 .. MaxLocal /\ restarts \in 0 .. MaxRestarts

\* NewRaft with Bootstrap on the first node; the others start empty.
ReplInit ==
    /\ log = <<AddServer(First)>>
    /\ leader = NoNode
    /\ got = [n \in Nodes |-> IF n = First THEN 1 ELSE 0]
    /\ applied = [n \in Nodes |-> 0]
    /\ db = [n \in Nodes |-> EmptyBolt]
    /\ snap = [n \in Nodes |-> [idx |-> 0, db |-> EmptyBolt]]
    /\ pend = [n \in Nodes |-> None]
    /\ dirty = {} /\ locals = 0 /\ restarts = 0

----------------------------------------------------------------------------
(* Membership and leadership (external). *)

\* Raft.Servers: the newest configuration the node has received.
Servers(n) == {log[i].voter : i \in 1 .. got[n]} \ {NoNode}
Voters == {log[i].voter : i \in 1 .. Len(log)} \ {NoNode}

IsLeader(n) == leader = n

\* Only a voter that holds every committed entry is elected.
Elect(n) ==
    /\ leader = NoNode /\ n \in Voters /\ got[n] = Len(log)
    /\ leader' = n
    /\ UNCHANGED <<log, got, applied, db, snap, pend, dirty, locals, restarts>>

LoseLeadership ==
    /\ leader # NoNode /\ restarts < MaxRestarts
    /\ leader' = NoNode /\ restarts' = restarts + 1
    /\ UNCHANGED <<log, got, applied, db, snap, pend, dirty, locals>>

\* The leader appends and commits an entry.
Commit(n, e) ==
    /\ Len(log) < MaxLog
    /\ log' = Append(log, e)
    /\ got' = [got EXCEPT ![n] = Len(log) + 1]

\* Raft.AddVoter, called by handleClusterJoin.
AddVoter(l, n) ==
    /\ IsLeader(l) /\ n \notin Servers(l)
    /\ Commit(l, AddServer(n))
    /\ UNCHANGED <<leader, applied, db, snap, pend, dirty, locals, restarts>>

\* Replication to the other voters.
Receive(n) ==
    /\ n \in Voters /\ got[n] < Len(log)
    /\ got' = [got EXCEPT ![n] = @ + 1]
    /\ UNCHANGED <<log, leader, applied, db, snap, pend, dirty, locals, restarts>>

----------------------------------------------------------------------------
(* Writes. *)

\* shouldReplicate: more than one voter.
ShouldReplicate(n) == Cardinality(Servers(n)) > 1

\* applyTypedPut / applyTypedDelete on the leader (leaderRedirect keeps other
\* nodes' API from getting here), through Raft.Apply.
ApplyTyped(n, k, v) ==
    /\ IsLeader(n) /\ ShouldReplicate(n)
    /\ Commit(n, LogOp(k, v))
    /\ UNCHANGED <<leader, applied, db, snap, pend, dirty, locals, restarts>>

\* The single-voter fast path, whoever leads by then: decided here ...
FastPathDecide(n, k, v) ==
    /\ ~ShouldReplicate(n) /\ pend[n] = None
    /\ locals < MaxLocal /\ locals' = locals + 1
    /\ pend' = [pend EXCEPT ![n] = [key |-> k, val |-> v]]
    /\ UNCHANGED <<log, leader, got, applied, db, snap, dirty, restarts>>

LocalWrite(n, k, v) ==
    /\ db' = [db EXCEPT ![n][k] = v]
    /\ dirty' = dirty \cup {k}

\* ... and done here, by Store.putScoped or Store.localDelete.
FastPathWrite(n) ==
    /\ pend[n] # None
    /\ LocalWrite(n, pend[n].key, pend[n].val)
    /\ pend' = [pend EXCEPT ![n] = None]
    /\ UNCHANGED <<log, leader, got, applied, snap, locals, restarts>>

\* Subsystems that hold the bare *Store write locally on any node.
InternalWrite(n, k, v) ==
    /\ k \in InternalKeys
    /\ locals < MaxLocal /\ locals' = locals + 1
    /\ LocalWrite(n, k, v)
    /\ UNCHANGED <<log, leader, got, applied, snap, pend, restarts>>

----------------------------------------------------------------------------
(* The FSM. *)

\* Bug: a delete of an absent key fails and the entry is tried for ever.
FSMApplyStuck(n) ==
    LET e == log[applied[n] + 1] IN
    /\ applied[n] < got[n]
    /\ e.key # NoKey /\ e.val = None => db[n][e.key] # None
    /\ db' = IF e.key = NoKey THEN db ELSE [db EXCEPT ![n][e.key] = e.val]
    /\ applied' = [applied EXCEPT ![n] = @ + 1]
    /\ UNCHANGED <<log, leader, got, snap, pend, dirty, locals, restarts>>

\* FSM.Apply: put or delete (ErrNotFound if absent: nothing changes and the
\* entry counts as applied).  Configuration entries do not reach the FSM.
FSMApply(n) ==
    LET e == log[applied[n] + 1] IN
    /\ applied[n] < got[n]
    /\ db' = IF e.key = NoKey THEN db ELSE [db EXCEPT ![n][e.key] = e.val]
    /\ applied' = [applied EXCEPT ![n] = @ + 1]
    /\ UNCHANGED <<log, leader, got, snap, pend, dirty, locals, restarts>>

\* FSM.Snapshot: dumpBolt copies every bucket, local writes included.
Snapshot(n) ==
    /\ applied[n] > snap[n].idx
    /\ snap' = [snap EXCEPT ![n] = [idx |-> applied[n], db |-> db[n]]]
    /\ UNCHANGED <<log, leader, got, applied, db, pend, dirty, locals, restarts>>

\* A voter too far behind gets the leader's snapshot instead of entries:
\* FSM.Restore, restoreBolt replaces every bucket.
InstallSnapshot(l, n) ==
    /\ IsLeader(l) /\ n \in Voters /\ snap[l].idx > got[n]
    /\ snap' = [snap EXCEPT ![n] = snap[l]]
    /\ db' = [db EXCEPT ![n] = snap[l].db]
    /\ got' = [got EXCEPT ![n] = snap[l].idx]
    /\ applied' = [applied EXCEPT ![n] = snap[l].idx]
    /\ UNCHANGED <<log, leader, pend, dirty, locals, restarts>>

\* Bug: what was received is taken for applied, nothing is replayed.
RestartNoReplay(n) ==
    /\ restarts < MaxRestarts /\ restarts' = restarts + 1
    /\ leader' = IF leader = n THEN NoNode ELSE leader
    /\ pend' = [pend EXCEPT ![n] = None]
    /\ db' = IF snap[n].idx = 0 THEN db ELSE [db EXCEPT ![n] = snap[n].db]
    /\ applied' = [applied EXCEPT ![n] = got[n]]
    /\ UNCHANGED <<log, got, snap, dirty, locals>>

\* The process restarts: NewRaft restores the last snapshot, if any, over
\* BoltDB, and application starts again behind it.  Without a snapshot BoltDB
\* keeps its content and the whole log is applied over it.
Restart(n) ==
    /\ restarts < MaxRestarts /\ restarts' = restarts + 1
    /\ leader' = IF leader = n THEN NoNode ELSE leader
    /\ pend' = [pend EXCEPT ![n] = None]
    /\ db' = IF snap[n].idx = 0 THEN db ELSE [db EXCEPT ![n] = snap[n].db]
    /\ applied' = [applied EXCEPT ![n] = snap[n].idx]
    /\ UNCHANGED <<log, got, snap, dirty, locals>>

ReplNext ==
    \/ LoseLeadership
    \/ \E n \in Nodes :
        \/ Elect(n) \/ Receive(n) \/ FSMApply(n) \/ Snapshot(n) \/ Restart(n)
        \/ FastPathWrite(n)
        \/ \E k \in Keys, v \in Vals \cup {None} :
             ApplyTyped(n, k, v) \/ FastPathDecide(n, k, v) \/ InternalWrite(n, k, v)
        \/ \E m \in Nodes : AddVoter(n, m) \/ InstallSnapshot(n, m)

ReplSpec == ReplInit /\ [][ReplNext]_replVars

----------------------------------------------------------------------------
(* Properties. *)

\* The entries a .. b write k.
Touched(k, a, b) == \E i \in a .. b : log[i].key = k
\* v is what the first a entries of the log leave under k.
IsValueAt(k, a, v) ==
    \/ ~Touched(k, 1, a) /\ v = None
    \/ \E i \in 1 .. a : /\ log[i].key = k /\ log[i].val = v
                         /\ ~Touched(k, i + 1, a)

CaughtUp(n) == applied[n] = Len(log)

\* A node that has applied the whole log holds, for every key that only the
\* log writes, the value of the last entry, whatever restarts, replays over a
\* newer BoltDB, snapshots taken in the middle of a replay and snapshot
\* installs it went through (fsm.go, snapshot.go, raft.go).
CaughtUpFaithful ==
    \A n \in Nodes : CaughtUp(n) =>
        \A k \in Keys \ dirty : IsValueAt(k, Len(log), db[n][k])

\* Once writers and restarts are done every voter gets there and stays.
EventuallyConverged ==
    <>[](\A n \in Voters : \A k \in Keys \ dirty : IsValueAt(k, Len(log), db[n][k]))
=============================================================================
