------------------------- MODULE ReplicationProofs -------------------------
(***************************************************************************)
(* Nodes that have applied the whole log agree with it, for any number of  *)
(* nodes, keys, writes and restarts.  After a restart BoltDB may be ahead  *)
(* of the applied index, and a snapshot taken then is ahead too, so "db is *)
(* the state at applied" is not invariant.  What is: a key that is ahead   *)
(* will be written again by an entry still to be applied.                  *)
(***************************************************************************)
EXTENDS Replication, TLAPS

\* d is a BoltDB from which applying the entries behind a gives the right state.
Heals(d, a) ==
    \A k \in Keys \ dirty :
        IsValueAt(k, a, d[k]) \/ Touched(k, a + 1, Len(log))

ReplayInv ==
    /\ ReplTypeOK
    /\ \A n \in Nodes : Heals(db[n], applied[n])
    /\ \A n \in Nodes : Heals(snap[n].db, snap[n].idx)

-----------------------------------------------------------------------------

LEMMA LogTyped ==
    ASSUME ReplTypeOK
    PROVE  /\ Len(log) \in Nat
           /\ \A i \in 1 .. Len(log) : log[i] \in Entry
  BY DEF ReplTypeOK

\* An entry for another key, or a configuration entry, leaves k alone.
LEMMA OtherEntry ==
    ASSUME NEW k \in Keys, NEW a \in Nat, NEW v,
           log[a + 1].key # k, IsValueAt(k, a, v)
    PROVE  IsValueAt(k, a + 1, v)
<1>1. ASSUME NEW i \in Nat, ~Touched(k, i, a) PROVE ~Touched(k, i, a + 1)
  BY <1>1 DEF Touched
<1>2. CASE ~Touched(k, 1, a) /\ v = None
  BY <1>1, <1>2 DEF IsValueAt
<1>3. ASSUME NEW i \in 1 .. a, log[i].key = k, log[i].val = v, ~Touched(k, i + 1, a)
      PROVE  IsValueAt(k, a + 1, v)
  <2>1. ~Touched(k, i + 1, a + 1) /\ i \in 1 .. a + 1
    BY <1>1, <1>3
  <2>. QED BY <1>3, <2>1 DEF IsValueAt
<1>. QED BY <1>2, <1>3 DEF IsValueAt

\* The entry just applied decides its key.
LEMMA SameEntry ==
    ASSUME NEW k \in Keys, NEW a \in Nat, log[a + 1].key = k
    PROVE  IsValueAt(k, a + 1, log[a + 1].val)
<1>1. ~Touched(k, a + 2, a + 1)
  BY DEF Touched
<1>. QED BY <1>1 DEF IsValueAt

\* Nothing is ahead of an empty log position.
LEMMA FromScratch ==
    ASSUME NEW k \in Keys, NEW a \in Nat, NEW b \in Nat, NEW v, a <= b,
           IsValueAt(k, a, v) \/ Touched(k, a + 1, b)
    PROVE  IsValueAt(k, 0, v) \/ Touched(k, 1, b)
  BY DEF IsValueAt, Touched

\* A longer log says the same about its old part.
LEMMA LongerLog ==
    ASSUME ReplTypeOK, NEW e \in Entry, log' = Append(log, e), dirty' = dirty,
           NEW d, NEW a \in Nat, a <= Len(log), Heals(d, a)
    PROVE  /\ \A k \in Keys \ dirty' :
                 IsValueAt(k, a, d[k])' \/ Touched(k, a + 1, Len(log))'
<1>1. /\ Len(log') = Len(log) + 1 /\ Len(log) \in Nat
      /\ \A i \in 1 .. Len(log) : log'[i] = log[i]
  BY DEF ReplTypeOK
<1>. QED
  BY <1>1 DEF Heals, IsValueAt, Touched

LEMMA InitReplay == ReplInit => ReplayInv
<1> SUFFICES ASSUME ReplInit PROVE ReplayInv
  OBVIOUS
<1>1. ReplTypeOK
  <2>1. EmptyBolt \in Bolt
    BY DEF EmptyBolt, Bolt
  <2>2. AddServer(First) \in Entry
    BY ReplicationAssumption DEF AddServer, Entry
  <2>3. log \in Seq(Entry) /\ Len(log) = 1
    BY <2>2 DEF ReplInit
  <2>. QED
    BY <2>1, <2>3, ReplicationAssumption DEF ReplInit, ReplTypeOK, Snap
<1>2. ASSUME NEW k \in Keys PROVE IsValueAt(k, 0, EmptyBolt[k])
  BY <1>2 DEF IsValueAt, Touched, EmptyBolt
<1>. QED
  BY <1>1, <1>2 DEF ReplInit, ReplayInv, Heals

\* The log grows: a write through Raft or a join.
LEMMA CommitReplay ==
    ASSUME ReplayInv, NEW n \in Nodes, NEW e \in Entry, Commit(n, e),
           UNCHANGED <<leader, applied, db, snap, pend, dirty, locals, restarts>>
    PROVE  ReplayInv'
<1>. USE DEF ReplayInv
<1>1. /\ log' = Append(log, e) /\ log' \in Seq(Entry)
      /\ Len(log') = Len(log) + 1 /\ Len(log) \in Nat
      /\ got' = [got EXCEPT ![n] = Len(log) + 1]
  BY DEF Commit, ReplTypeOK
<1>2. ReplTypeOK'
  <2>1. /\ got' \in [Nodes -> Nat]
        /\ \A m \in Nodes : got[m] <= got'[m] /\ got'[m] <= Len(log')
    BY <1>1 DEF ReplTypeOK
  <2>2. \A m \in Nodes : /\ applied[m] <= got'[m] /\ snap[m].idx <= got'[m]
    BY <2>1 DEF ReplTypeOK, Snap
  <2>. QED BY <1>1, <2>1, <2>2 DEF ReplTypeOK
<1>3. ASSUME NEW m \in Nodes PROVE Heals(db[m], applied[m])'
  <2>1. applied[m] \in Nat /\ applied[m] <= Len(log)
    BY <1>1 DEF ReplTypeOK
  <2>. QED BY <1>1, <2>1, LongerLog DEF Heals
<1>4. ASSUME NEW m \in Nodes PROVE Heals(snap[m].db, snap[m].idx)'
  <2>1. snap[m].idx \in Nat /\ snap[m].idx <= Len(log)
    BY <1>1 DEF ReplTypeOK, Snap
  <2>. QED BY <1>1, <2>1, LongerLog DEF Heals
<1>. QED BY <1>2, <1>3, <1>4

\* A write outside the log touches only keys nothing is claimed of.
LEMMA LocalReplay ==
    ASSUME ReplayInv, NEW n \in Nodes, NEW k \in Keys, NEW v \in Vals \cup {None},
           LocalWrite(n, k, v), pend' \in [Nodes -> Write \cup {None}],
           locals' \in 0 .. MaxLocal,
           UNCHANGED <<log, leader, got, applied, snap, restarts>>
    PROVE  ReplayInv'
<1>. USE DEF ReplayInv
<1>1. /\ db' \in [Nodes -> Bolt] /\ dirty' \subseteq Keys /\ dirty \subseteq dirty'
      /\ \A m \in Nodes : \A j \in Keys \ dirty' : db'[m][j] = db[m][j]
  BY DEF LocalWrite, ReplTypeOK, Bolt
<1>2. ReplTypeOK'
  BY <1>1 DEF ReplTypeOK
<1>3. \A m \in Nodes : Heals(db[m], applied[m])'
  BY <1>1 DEF Heals, IsValueAt, Touched
<1>4. \A m \in Nodes : Heals(snap[m].db, snap[m].idx)'
  BY <1>1 DEF Heals, IsValueAt, Touched
<1>. QED BY <1>2, <1>3, <1>4

\* One entry applied: the key it writes is right from now on.
LEMMA ApplyReplay ==
    ASSUME ReplayInv, NEW n \in Nodes, FSMApply(n)
    PROVE  ReplayInv'
<1>. USE DEF ReplayInv
<1>. DEFINE a == applied[n]
            e == log[a + 1]
<1>1. /\ a \in Nat /\ a + 1 \in 1 .. Len(log) /\ a < got[n] /\ Len(log) \in Nat
      /\ e \in Entry
  BY DEF FSMApply, ReplTypeOK
<1>2. /\ db' = IF e.key = NoKey THEN db ELSE [db EXCEPT ![n][e.key] = e.val]
      /\ applied' = [applied EXCEPT ![n] = a + 1]
      /\ UNCHANGED <<log, leader, got, snap, pend, dirty, locals, restarts>>
  BY DEF FSMApply
<1>3. db' \in [Nodes -> Bolt]
  BY <1>1, <1>2 DEF ReplTypeOK, Entry, Bolt
<1>4. ReplTypeOK'
  BY <1>1, <1>2, <1>3 DEF ReplTypeOK
<1>5. ASSUME NEW m \in Nodes PROVE Heals(db[m], applied[m])'
  <2>1. CASE m # n
    <3>1. db'[m] = db[m] /\ applied'[m] = applied[m]
      BY <1>2, <2>1 DEF ReplTypeOK
    <3>. QED BY <1>2, <3>1 DEF Heals, IsValueAt, Touched
  <2>2. CASE m = n
    <3>0. applied'[m] = a + 1
      BY <1>2, <2>2 DEF ReplTypeOK
    <3> SUFFICES ASSUME NEW k \in Keys \ dirty
                 PROVE  \/ IsValueAt(k, a + 1, db'[n][k])
                        \/ Touched(k, (a + 1) + 1, Len(log))
      BY <1>2, <2>2, <3>0 DEF Heals, IsValueAt, Touched
    <3>1. CASE e.key = k
      <4>1. db'[n][k] = e.val
        BY <1>2, <3>1, ReplicationAssumption DEF ReplTypeOK, Bolt
      <4>. QED BY <1>1, <3>1, <4>1, SameEntry
    <3>2. CASE e.key # k
      <4>1. db'[n][k] = db[n][k]
        BY <1>1, <1>2, <3>2 DEF ReplTypeOK, Bolt, Entry
      <4>2. CASE IsValueAt(k, a, db[n][k])
        BY <1>1, <3>2, <4>1, <4>2, OtherEntry
      <4>3. CASE Touched(k, a + 1, Len(log))
        BY <1>1, <3>2, <4>3 DEF Touched
      <4>. QED BY <4>2, <4>3 DEF Heals
    <3>. QED BY <3>1, <3>2
  <2>. QED BY <2>1, <2>2
<1>6. \A m \in Nodes : Heals(snap[m].db, snap[m].idx)'
  BY <1>2 DEF Heals, IsValueAt, Touched
<1>. QED BY <1>4, <1>5, <1>6

\* Snapshots, installs and restarts move whole databases about, always with
\* the index they belong to.
LEMMA SnapshotReplay ==
    ASSUME ReplayInv, NEW n \in Nodes, Snapshot(n)
    PROVE  ReplayInv'
<1>. USE DEF ReplayInv
<1>1. /\ snap' = [snap EXCEPT ![n] = [idx |-> applied[n], db |-> db[n]]]
      /\ UNCHANGED <<log, leader, got, applied, db, pend, dirty, locals, restarts>>
  BY DEF Snapshot
<1>2. ReplTypeOK'
  BY <1>1 DEF ReplTypeOK, Snap
<1>3. \A m \in Nodes : Heals(db[m], applied[m])'
  BY <1>1 DEF Heals, IsValueAt, Touched
<1>4. ASSUME NEW m \in Nodes PROVE Heals(snap[m].db, snap[m].idx)'
  <2>1. \/ snap'[m] = snap[m]
        \/ m = n /\ snap'[m].db = db[n] /\ snap'[m].idx = applied[n]
    BY <1>1 DEF ReplTypeOK
  <2>. QED BY <1>1, <2>1 DEF Heals, IsValueAt, Touched
<1>. QED BY <1>2, <1>3, <1>4

LEMMA InstallReplay ==
    ASSUME ReplayInv, NEW l \in Nodes, NEW n \in Nodes, InstallSnapshot(l, n)
    PROVE  ReplayInv'
<1>. USE DEF ReplayInv
<1>1. /\ snap' = [snap EXCEPT ![n] = snap[l]]
      /\ db' = [db EXCEPT ![n] = snap[l].db]
      /\ got' = [got EXCEPT ![n] = snap[l].idx]
      /\ applied' = [applied EXCEPT ![n] = snap[l].idx]
      /\ UNCHANGED <<log, leader, pend, dirty, locals, restarts>>
  BY DEF InstallSnapshot
<1>2. ReplTypeOK'
  <2>1. snap[l] \in Snap /\ snap[l].idx <= got[l] /\ got[l] <= Len(log)
    BY DEF ReplTypeOK
  <2>2. snap[l].db \in Bolt /\ snap[l].idx \in Nat
    BY <2>1 DEF Snap
  <2>3. /\ db' \in [Nodes -> Bolt] /\ snap' \in [Nodes -> Snap]
        /\ got' \in [Nodes -> Nat] /\ applied' \in [Nodes -> Nat]
    BY <1>1, <2>1, <2>2 DEF ReplTypeOK
  <2>4. \A m \in Nodes : /\ applied'[m] <= got'[m] /\ got'[m] <= Len(log)
                         /\ snap'[m].idx <= got'[m]
    <3>1. snap[l].idx <= Len(log)
      BY <2>1, <2>2 DEF ReplTypeOK
    <3>. QED BY <1>1, <2>2, <3>1 DEF ReplTypeOK
  <2>. QED BY <1>1, <2>3, <2>4 DEF ReplTypeOK
<1>3. ASSUME NEW m \in Nodes PROVE Heals(db[m], applied[m])'
  <2>1. \/ db'[m] = db[m] /\ applied'[m] = applied[m]
        \/ db'[m] = snap[l].db /\ applied'[m] = snap[l].idx
    BY <1>1 DEF ReplTypeOK
  <2>. QED BY <1>1, <2>1 DEF Heals, IsValueAt, Touched
<1>4. ASSUME NEW m \in Nodes PROVE Heals(snap[m].db, snap[m].idx)'
  <2>1. snap'[m] = snap[m] \/ snap'[m] = snap[l]
    BY <1>1 DEF ReplTypeOK
  <2>. QED BY <1>1, <2>1 DEF Heals, IsValueAt, Touched
<1>. QED BY <1>2, <1>3, <1>4

LEMMA RestartReplay ==
    ASSUME ReplayInv, NEW n \in Nodes, Restart(n)
    PROVE  ReplayInv'
<1>. USE DEF ReplayInv
<1>1. /\ db' = IF snap[n].idx = 0 THEN db ELSE [db EXCEPT ![n] = snap[n].db]
      /\ applied' = [applied EXCEPT ![n] = snap[n].idx]
      /\ pend' = [pend EXCEPT ![n] = None]
      /\ leader' = IF leader = n THEN NoNode ELSE leader
      /\ restarts < MaxRestarts /\ restarts' = restarts + 1
      /\ UNCHANGED <<log, got, snap, dirty, locals>>
  BY DEF Restart
<1>2. snap[n].idx \in Nat /\ snap[n].db \in Bolt /\ snap[n].idx <= got[n]
  BY DEF ReplTypeOK, Snap
<1>3. ReplTypeOK'
  <2>1. db' \in [Nodes -> Bolt] /\ applied' \in [Nodes -> Nat]
    BY <1>1, <1>2 DEF ReplTypeOK
  <2>2. \A m \in Nodes : applied'[m] <= got[m]
    BY <1>1, <1>2 DEF ReplTypeOK
  <2>3. restarts' \in 0 .. MaxRestarts
    BY <1>1, ReplicationAssumption DEF ReplTypeOK
  <2>4. pend' \in [Nodes -> Write \cup {None}] /\ leader' \in Nodes \cup {NoNode}
    BY <1>1 DEF ReplTypeOK
  <2>. QED BY <1>1, <2>1, <2>2, <2>3, <2>4 DEF ReplTypeOK
<1>4. ASSUME NEW m \in Nodes PROVE Heals(db[m], applied[m])'
  <2>1. CASE m # n
    <3>1. db'[m] = db[m] /\ applied'[m] = applied[m]
      BY <1>1, <2>1 DEF ReplTypeOK
    <3>2. ASSUME NEW k \in Keys \ dirty
          PROVE (IsValueAt(k, applied[m], db[m][k]) \/ Touched(k, applied[m] + 1, Len(log)))'
      <4>1. IsValueAt(k, applied[m], db[m][k]) \/ Touched(k, applied[m] + 1, Len(log))
        BY DEF Heals
      <4>. QED BY <1>1, <3>1, <4>1 DEF IsValueAt, Touched
    <3>. QED BY <1>1, <3>2 DEF Heals
  <2>2. CASE m = n /\ snap[n].idx # 0
    <3>1. db'[m] = snap[m].db /\ applied'[m] = snap[m].idx
      BY <1>1, <2>2 DEF ReplTypeOK
    <3>2. ASSUME NEW k \in Keys \ dirty
          PROVE (IsValueAt(k, applied[m], db[m][k]) \/ Touched(k, applied[m] + 1, Len(log)))'
      <4>1. IsValueAt(k, snap[m].idx, snap[m].db[k]) \/ Touched(k, snap[m].idx + 1, Len(log))
        BY DEF Heals
      <4>. QED BY <1>1, <3>1, <4>1 DEF IsValueAt, Touched
    <3>. QED BY <1>1, <3>2 DEF Heals
  <2>3. CASE m = n /\ snap[n].idx = 0
    <3>1. db'[m] = db[m] /\ applied'[m] = 0
      BY <1>1, <2>3 DEF ReplTypeOK
    <3>2. /\ applied[m] \in Nat /\ Len(log) \in Nat /\ applied[m] <= Len(log)
          /\ Heals(db[m], applied[m])
      BY DEF ReplTypeOK
    <3>3. \A k \in Keys \ dirty :
             IsValueAt(k, 0, db[m][k]) \/ Touched(k, 1, Len(log))
      BY <3>2, FromScratch DEF Heals
    <3>. QED BY <1>1, <3>1, <3>3 DEF Heals, IsValueAt, Touched
  <2>. QED BY <2>1, <2>2, <2>3
<1>5. \A m \in Nodes : Heals(snap[m].db, snap[m].idx)'
  BY <1>1 DEF Heals, IsValueAt, Touched
<1>. QED BY <1>3, <1>4, <1>5

LEMMA StepReplay == ReplayInv /\ [ReplNext]_replVars => ReplayInv'
<1> SUFFICES ASSUME ReplayInv, [ReplNext]_replVars PROVE ReplayInv'
  OBVIOUS
<1>. USE DEF ReplayInv
<1>1. ASSUME UNCHANGED <<log, applied, db, snap, dirty>>, ReplTypeOK' PROVE ReplayInv'
  BY <1>1 DEF Heals, IsValueAt, Touched
<1>2. CASE LoseLeadership
  <2>1. ReplTypeOK'
    BY <1>2, ReplicationAssumption DEF LoseLeadership, ReplTypeOK
  <2>. QED BY <1>1, <1>2, <2>1 DEF LoseLeadership
<1>3. ASSUME NEW n \in Nodes, Elect(n) PROVE ReplayInv'
  <2>1. ReplTypeOK'
    BY <1>3 DEF Elect, ReplTypeOK
  <2>. QED BY <1>1, <1>3, <2>1 DEF Elect
<1>4. ASSUME NEW n \in Nodes, Receive(n) PROVE ReplayInv'
  <2>1. /\ got' \in [Nodes -> Nat]
        /\ \A m \in Nodes : got[m] <= got'[m] /\ got'[m] <= Len(log)
    BY <1>4 DEF Receive, ReplTypeOK
  <2>2. \A m \in Nodes : applied[m] <= got'[m] /\ snap[m].idx <= got'[m]
    BY <2>1 DEF ReplTypeOK, Snap
  <2>3. ReplTypeOK'
    BY <1>4, <2>1, <2>2 DEF Receive, ReplTypeOK
  <2>. QED BY <1>1, <1>4, <2>3 DEF Receive
<1>5. ASSUME NEW n \in Nodes, FSMApply(n) \/ Snapshot(n) \/ Restart(n)
      PROVE  ReplayInv'
  BY <1>5, ApplyReplay, SnapshotReplay, RestartReplay
<1>6. ASSUME NEW n \in Nodes, FastPathWrite(n) PROVE ReplayInv'
  <2>1. pend[n] \in Write /\ pend' = [pend EXCEPT ![n] = None]
    BY <1>6 DEF FastPathWrite, ReplTypeOK
  <2>2. pend[n].key \in Keys /\ pend[n].val \in Vals \cup {None}
    BY <2>1 DEF Write
  <2>3. pend' \in [Nodes -> Write \cup {None}] /\ locals \in 0 .. MaxLocal
    BY <2>1 DEF ReplTypeOK
  <2>. QED BY <1>6, <2>2, <2>3, LocalReplay DEF FastPathWrite
<1>7. ASSUME NEW n \in Nodes, NEW k \in Keys, NEW v \in Vals \cup {None},
             ApplyTyped(n, k, v)
      PROVE  ReplayInv'
  <2>1. LogOp(k, v) \in Entry
    BY DEF LogOp, Entry
  <2>. QED BY <1>7, <2>1, CommitReplay DEF ApplyTyped
<1>8. ASSUME NEW n \in Nodes, NEW k \in Keys, NEW v \in Vals \cup {None},
             FastPathDecide(n, k, v)
      PROVE  ReplayInv'
  <2>1. [key |-> k, val |-> v] \in Write
    BY DEF Write
  <2>2. locals' \in 0 .. MaxLocal
    BY <1>8, ReplicationAssumption DEF FastPathDecide, ReplTypeOK
  <2>3. ReplTypeOK'
    BY <1>8, <2>1, <2>2 DEF FastPathDecide, ReplTypeOK
  <2>. QED BY <1>1, <1>8, <2>3 DEF FastPathDecide
<1>9. ASSUME NEW n \in Nodes, NEW k \in Keys, NEW v \in Vals \cup {None},
             InternalWrite(n, k, v)
      PROVE  ReplayInv'
  <2>1. locals' \in 0 .. MaxLocal /\ pend' \in [Nodes -> Write \cup {None}]
    BY <1>9, ReplicationAssumption DEF InternalWrite, ReplTypeOK
  <2>. QED BY <1>9, <2>1, LocalReplay DEF InternalWrite
<1>10. ASSUME NEW n \in Nodes, NEW m \in Nodes, AddVoter(n, m) \/ InstallSnapshot(n, m)
       PROVE  ReplayInv'
  <2>1. AddServer(m) \in Entry
    BY DEF AddServer, Entry
  <2>. QED BY <1>10, <2>1, CommitReplay, InstallReplay DEF AddVoter
<1>11. CASE UNCHANGED replVars
  <2>1. ReplTypeOK'
    BY <1>11 DEF replVars, ReplTypeOK
  <2>. QED BY <1>1, <1>11, <2>1 DEF replVars
<1>. QED
  BY <1>2, <1>3, <1>4, <1>5, <1>6, <1>7, <1>8, <1>9, <1>10, <1>11 DEF ReplNext

\* The indexes stay within the log and every database is one.
THEOREM ReplicationTypes == ReplSpec => []ReplTypeOK
<1>1. ReplayInv => ReplTypeOK
  BY DEF ReplayInv
<1>. QED
  BY <1>1, InitReplay, StepReplay, PTL DEF ReplSpec

\* fsm.go, snapshot.go: replaying the log over a newer BoltDB, snapshots of a
\* half-replayed one and their installation on other nodes never leave a node
\* that has applied the whole log with a wrong record.
THEOREM CaughtUpFaithfulHolds == ReplSpec => []CaughtUpFaithful
<1>1. ReplayInv => CaughtUpFaithful
  <2> SUFFICES ASSUME ReplayInv, NEW n \in Nodes, CaughtUp(n),
                      NEW k \in Keys \ dirty
               PROVE  IsValueAt(k, Len(log), db[n][k])
    BY DEF CaughtUpFaithful
  <2>1. ~Touched(k, Len(log) + 1, Len(log))
    <3>1. Len(log) \in Nat
      BY DEF ReplayInv, ReplTypeOK
    <3>. QED BY <3>1 DEF Touched
  <2>. QED BY <2>1 DEF ReplayInv, Heals, CaughtUp
<1>. QED
  BY <1>1, InitReplay, StepReplay, PTL DEF ReplSpec
=============================================================================
