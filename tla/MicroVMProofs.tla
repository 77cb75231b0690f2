--------------------------- MODULE MicroVMProofs ---------------------------
(***************************************************************************)
(* The types and the four safety invariants of MicroVM, for any number of  *)
(* invocations, deployments and restarts.  TLC's instance has three        *)
(* invocations, of which two can restore the same snapshot at once.        *)
(***************************************************************************)
EXTENDS MicroVM, TLAPS

\* The actions of one invocation and its process.
OwnStep(i) == Begin(i) \/ Rejected(i) \/ HostStep(i) \/ FcListens(i) \/ AgentBoots(i)

(***************************************************************************)
(* What holds of the processes: a cold boot talks to its own guest; and a  *)
(* vsock path that another process has is the path of an invocation whose  *)
(* snapshot is taken, since only a snapshot carries it elsewhere.          *)
(***************************************************************************)
Snapped == {"meta", "publish", "finish", "done", "lost"}

Guests ==
  /\ \A i \in Inv : pc[i] \in {"dial", "conn", "snap"} =>
       /\ use[i] = i /\ vm[i].uds = i
       /\ vm[i].st \in IF pc[i] = "dial" THEN {"boot", "up"} ELSE {"up"}
  /\ \A i \in Inv : image.by = i => pc[i] \in Snapped
  /\ \A i, p \in Inv : vm[p].uds = i /\ p # i => pc[i] \in Snapped

(***************************************************************************)
(* What holds of the processes and the chroots an invocation has: none     *)
(* before it starts one and after it returns, but for the chroot of a      *)
(* snapshot, which meta.json names before keepChroot is set.               *)
(***************************************************************************)
Files ==
  /\ \A i \in Inv : pc[i] \in {"idle", "restore", "cold", "done"} => vm[i].st = "off"
  /\ \A i \in Inv : pc[i] \in {"dial", "conn", "snap", "meta", "publish"} => i \in jail
  /\ \A i \in jail :
       \/ pc[i] \in {"dial", "conn", "snap", "meta", "publish", "finish", "lost"}
       \/ i \in kept
  /\ meta # Nobody => /\ meta \in jail
                      /\ pc[meta] \in {"publish", "lost"} \/ meta \in kept

(***************************************************************************)
(* How often the request of i has run and may still run: an agent that i   *)
(* has given up on may hold it, and only one such, since a restore sends   *)
(* it once and the process of i itself is gone before the cold boot.       *)
(***************************************************************************)
Held(i) == \E p \in Inv : i \in inbox[p]

Attempts(i) ==
  /\ pc[i] \in {"idle", "restore", "load", "rdial"} => runs[i] = 0 /\ ~ Held(i)
  /\ pc[i] \in {"rconn", "cold", "dial"} =>
       /\ runs[i] <= 1
       /\ Held(i) => runs[i] = 0
       /\ \A p, q \in Inv : i \in inbox[p] /\ i \in inbox[q] => p = q
  /\ pc[i] \in {"cold", "dial"} => i \notin inbox[i]
  /\ runs[i] <= 2
  /\ Held(i) => runs[i] <= 1
  /\ \A p, q \in Inv \ {i} : i \in inbox[p] /\ i \in inbox[q] => p = q
  /\ i \in inbox[i] /\ (\E p \in Inv \ {i} : i \in inbox[p]) => runs[i] = 0

Runs == \A i \in Inv : Attempts(i)

IInv == TypeOK /\ Guests /\ Files /\ Runs

-----------------------------------------------------------------------------
(* Every step keeps the types. *)
LEMMA TypesStep == IInv /\ [Next]_vars => TypeOK'
<1> SUFFICES ASSUME IInv, [Next]_vars PROVE TypeOK'
  OBVIOUS
<1> USE InvAssumption, BoundsAssumption
    DEF IInv, TypeOK, Codes, MaybeInv, InFlight, Process, Image, None, Torn, Runnable, host, disk,
        ops
<1>1. CASE \/ DeployTruncate \/ (\E v \in writing : DeployWrite(v))
           \/ RemoveSnapshot \/ RemoveCode
  <2>1. CASE DeployTruncate
    BY <2>1 DEF DeployTruncate
  <2>2. ASSUME NEW v \in writing, DeployWrite(v) PROVE TypeOK'
    <3>1. v \in Codes
      OBVIOUS
    <3> QED
      BY <2>2, <3>1 DEF DeployWrite
  <2>3. CASE RemoveSnapshot
    BY <2>3 DEF RemoveSnapshot
  <2>4. CASE RemoveCode
    BY <2>4 DEF RemoveCode
  <2> QED
    BY <1>1, <2>1, <2>2, <2>3, <2>4
<1>2. ASSUME NEW i \in Inv, OwnStep(i) PROVE TypeOK'
  <2>1. CASE Begin(i)
    BY <2>1 DEF Begin
  <2>2. CASE Rejected(i)
    BY <2>2 DEF Rejected
  <2>3. CASE RestoreStart(i)
    BY <2>3 DEF RestoreStart, Off
  <2>4. CASE FcListens(i)
    <3>1. sock' \in [Inv -> MaybeInv]
      BY <2>4 DEF FcListens
    <3>2. vm' \in [Inv -> Process]
      <4>1. CASE sock[use[i]] = Nobody
        BY <2>4, <4>1 DEF FcListens
      <4>2. CASE sock[use[i]] # Nobody
        BY <2>4, <4>2 DEF FcListens, Off
      <4> QED
        BY <4>1, <4>2
    <3> QED
      BY <2>4, <3>1, <3>2 DEF FcListens
  <2>5. CASE RestoreLoad(i)
    BY <2>5 DEF RestoreLoad, Listening, SocketThere, Serves
  <2>6. CASE RestoreDial(i)
    BY <2>6 DEF RestoreDial, Dial, Listening
  <2>7. CASE RestoreAnswer(i)
    BY <2>7 DEF RestoreAnswer, Kill, Over, Off
  <2>8. CASE RestoreFails(i)
    BY <2>8 DEF RestoreFails, Kill, Over, Off
  <2>9. CASE Stage(i)
    BY <2>9 DEF Stage, CodeDrive
  <2>10. CASE StageFails(i)
    BY <2>10 DEF StageFails, Over
  <2>11. CASE AgentBoots(i)
    BY <2>11 DEF AgentBoots
  <2>12. CASE ColdDial(i)
    BY <2>12 DEF ColdDial, Dial, Listening
  <2>13. CASE ColdAnswer(i)
    BY <2>13 DEF ColdAnswer
  <2>14. CASE CreateSnapshot(i)
    BY <2>14, SMTT(30) DEF CreateSnapshot, Serves, Guests
  <2>15. CASE WriteMeta(i)
    BY <2>15 DEF WriteMeta
  <2>16. CASE SnapshotFails(i)
    BY <2>16 DEF SnapshotFails, NoImage
  <2>17. CASE Publish(i)
    BY <2>17 DEF Publish
  <2>18. CASE Finish(i)
    BY <2>18 DEF Finish, Return, Kill, Over, Off
  <2>19. CASE ColdFails(i)
    BY <2>19 DEF ColdFails, Return, Kill, Over, Off
  <2> QED
    BY <1>2, <2>1, <2>2, <2>3, <2>4, <2>5, <2>6, <2>7, <2>8, <2>9, <2>10,
       <2>11, <2>12, <2>13, <2>14, <2>15, <2>16, <2>17, <2>18, <2>19
    DEF OwnStep, HostStep, RestoreStep, ColdStep, SnapshotStep
<1>3. ASSUME NEW i \in Inv, NEW p \in Inv, GuestStep(i, p) PROVE TypeOK'
  <2>1. Output(p) \in Codes
    BY DEF Output
  <2>2. PICK r \in Codes : Answer(i, p, r)
    BY <1>3, <2>1 DEF GuestStep, AgentRefuses, Serve
  <2>3. inbox' \in [Inv -> SUBSET Inv] /\ reply' \in [Inv -> Codes \cup {None}]
    BY <2>2 DEF Answer
  <2>4. vm' = vm /\ runs' \in [Inv -> Nat]
    BY <1>3 DEF GuestStep, AgentRefuses, Serve
  <2> QED
    BY <2>2, <2>3, <2>4 DEF Answer
<1>4. CASE Crash
  BY <1>4 DEF Crash
<1>5. CASE UNCHANGED vars
  BY <1>5 DEF vars
<1> QED
  BY <1>1, <1>2, <1>3, <1>4, <1>5 DEF Next, OwnStep

(* Every step keeps what holds of the guests. *)
LEMMA GuestsStep == IInv /\ [Next]_vars => Guests'
<1> SUFFICES ASSUME IInv, [Next]_vars PROVE Guests'
  OBVIOUS
<1> USE InvAssumption, BoundsAssumption
    DEF IInv, TypeOK, Codes, MaybeInv, InFlight, Process, Image, None, Torn, Runnable, host, disk,
        ops, Guests, Snapped
<1>1. CASE \/ DeployTruncate \/ (\E v \in writing : DeployWrite(v))
           \/ RemoveSnapshot \/ RemoveCode
  BY <1>1 DEF DeployTruncate, DeployWrite, RemoveSnapshot, RemoveCode
<1>2. ASSUME NEW i \in Inv, OwnStep(i) PROVE Guests'
  <2>1. CASE Begin(i)
    BY <2>1 DEF Begin
  <2>2. CASE Rejected(i)
    BY <2>2 DEF Rejected
  <2>3. CASE RestoreStart(i)
    BY <2>3 DEF RestoreStart, Off
  <2>4. CASE FcListens(i)
    <3>1. CASE sock[use[i]] = Nobody
      <4>1. /\ vm[i].st = "fc" /\ pc' = pc /\ use' = use /\ image' = image
            /\ vm'[i].st = "api" /\ vm'[i].code = vm[i].code /\ vm'[i].uds = vm[i].uds
            /\ \A p \in Inv : p # i => vm'[p] = vm[p]
        BY <2>4, <3>1 DEF FcListens
      <4>3. \A p \in Inv : vm'[p].uds = vm[p].uds
        BY <4>1
      <4>4. \A j \in Inv : pc[j] \in {"dial", "conn", "snap"} => vm'[j] = vm[j]
        BY <4>1
      <4> QED
        BY <4>1, <4>3, <4>4
    <3>2. CASE sock[use[i]] # Nobody
      BY <2>4, <3>2, SMTT(30) DEF FcListens, Off
    <3> QED
      BY <3>1, <3>2
  <2>5. CASE RestoreLoad(i)
    BY <2>5 DEF RestoreLoad, Listening, SocketThere, Serves
  <2>6. CASE RestoreDial(i)
    BY <2>6 DEF RestoreDial, Dial, Listening
  <2>7. CASE RestoreAnswer(i)
    BY <2>7 DEF RestoreAnswer, Kill, Over, Off
  <2>8. CASE RestoreFails(i)
    BY <2>8 DEF RestoreFails, Kill, Over, Off
  <2>9. CASE Stage(i)
    BY <2>9 DEF Stage, CodeDrive
  <2>10. CASE StageFails(i)
    BY <2>10 DEF StageFails, Over
  <2>11. CASE AgentBoots(i)
    BY <2>11 DEF AgentBoots
  <2>12. CASE ColdDial(i)
    BY <2>12 DEF ColdDial, Dial, Listening
  <2>13. CASE ColdAnswer(i)
    BY <2>13 DEF ColdAnswer
  <2>14. CASE CreateSnapshot(i)
    BY <2>14 DEF CreateSnapshot, Serves
  <2>15. CASE WriteMeta(i)
    BY <2>15 DEF WriteMeta
  <2>16. CASE SnapshotFails(i)
    BY <2>16 DEF SnapshotFails, NoImage
  <2>17. CASE Publish(i)
    BY <2>17 DEF Publish
  <2>18. CASE Finish(i)
    BY <2>18 DEF Finish, Return, Kill, Over, Off
  <2>19. CASE ColdFails(i)
    BY <2>19 DEF ColdFails, Return, Kill, Over, Off
  <2> QED
    BY <1>2, <2>1, <2>2, <2>3, <2>4, <2>5, <2>6, <2>7, <2>8, <2>9, <2>10,
       <2>11, <2>12, <2>13, <2>14, <2>15, <2>16, <2>17, <2>18, <2>19
    DEF OwnStep, HostStep, RestoreStep, ColdStep, SnapshotStep
<1>3. ASSUME NEW i \in Inv, NEW p \in Inv, GuestStep(i, p) PROVE Guests'
  BY <1>3 DEF GuestStep, AgentRefuses, Serve, Received, Output, Answer, Open
<1>4. CASE Crash
  BY <1>4 DEF Crash
<1>5. CASE UNCHANGED vars
  BY <1>5 DEF vars
<1> QED
  BY <1>1, <1>2, <1>3, <1>4, <1>5 DEF Next, OwnStep

(* Every step keeps what holds of the processes and the chroots. *)
LEMMA FilesStep == IInv /\ [Next]_vars => Files'
<1> SUFFICES ASSUME IInv, [Next]_vars PROVE Files'
  OBVIOUS
<1> USE InvAssumption, BoundsAssumption
    DEF IInv, TypeOK, Codes, MaybeInv, InFlight, Process, Image, None, Torn, Runnable, host, disk,
        ops, Files
<1>1. CASE \/ DeployTruncate \/ (\E v \in writing : DeployWrite(v))
           \/ RemoveSnapshot \/ RemoveCode
  BY <1>1 DEF DeployTruncate, DeployWrite, RemoveSnapshot, RemoveCode
<1>2. ASSUME NEW i \in Inv, OwnStep(i) PROVE Files'
  <2>1. CASE Begin(i)
    BY <2>1 DEF Begin
  <2>2. CASE Rejected(i)
    BY <2>2 DEF Rejected
  <2>3. CASE RestoreStart(i)
    BY <2>3 DEF RestoreStart, Off
  <2>4. CASE FcListens(i)
    BY <2>4 DEF FcListens, Off
  <2>5. CASE RestoreLoad(i)
    BY <2>5 DEF RestoreLoad, Listening, SocketThere, Serves
  <2>6. CASE RestoreDial(i)
    BY <2>6 DEF RestoreDial, Dial, Listening
  <2>7. CASE RestoreAnswer(i)
    BY <2>7 DEF RestoreAnswer, Kill, Over, Off
  <2>8. CASE RestoreFails(i)
    BY <2>8 DEF RestoreFails, Kill, Over, Off
  <2>9. CASE Stage(i)
    BY <2>9 DEF Stage, CodeDrive
  <2>10. CASE StageFails(i)
    BY <2>10 DEF StageFails, Over
  <2>11. CASE AgentBoots(i)
    BY <2>11 DEF AgentBoots
  <2>12. CASE ColdDial(i)
    BY <2>12 DEF ColdDial, Dial, Listening
  <2>13. CASE ColdAnswer(i)
    BY <2>13 DEF ColdAnswer
  <2>14. CASE CreateSnapshot(i)
    BY <2>14 DEF CreateSnapshot, Serves
  <2>15. CASE WriteMeta(i)
    BY <2>15 DEF WriteMeta
  <2>16. CASE SnapshotFails(i)
    BY <2>16 DEF SnapshotFails, NoImage
  <2>17. CASE Publish(i)
    BY <2>17 DEF Publish
  <2>18. CASE Finish(i)
    BY <2>18 DEF Finish, Return, Kill, Over, Off
  <2>19. CASE ColdFails(i)
    BY <2>19 DEF ColdFails, Return, Kill, Over, Off
  <2> QED
    BY <1>2, <2>1, <2>2, <2>3, <2>4, <2>5, <2>6, <2>7, <2>8, <2>9, <2>10,
       <2>11, <2>12, <2>13, <2>14, <2>15, <2>16, <2>17, <2>18, <2>19
    DEF OwnStep, HostStep, RestoreStep, ColdStep, SnapshotStep
<1>3. ASSUME NEW i \in Inv, NEW p \in Inv, GuestStep(i, p) PROVE Files'
  BY <1>3 DEF GuestStep, AgentRefuses, Serve, Received, Output, Answer, Open
<1>4. CASE Crash
  BY <1>4 DEF Crash
<1>5. CASE UNCHANGED vars
  BY <1>5 DEF vars
<1> QED
  BY <1>1, <1>2, <1>3, <1>4, <1>5 DEF Next, OwnStep

(* Every step keeps the account of the runs. *)
LEMMA RunsStep == IInv /\ [Next]_vars => Runs'
<1> SUFFICES ASSUME IInv, [Next]_vars PROVE Runs'
  OBVIOUS
<1> USE InvAssumption, BoundsAssumption
    DEF IInv, TypeOK, Codes, MaybeInv, InFlight, Process, Image, None, Torn, Runnable, host, disk,
        ops, Runs, Attempts, Held
<1>1. CASE \/ DeployTruncate \/ (\E v \in writing : DeployWrite(v))
           \/ RemoveSnapshot \/ RemoveCode
  BY <1>1 DEF DeployTruncate, DeployWrite, RemoveSnapshot, RemoveCode
<1>2. ASSUME NEW i \in Inv, OwnStep(i) PROVE Runs'
  <2>1. CASE Begin(i)
    BY <2>1 DEF Begin
  <2>2. CASE Rejected(i)
    BY <2>2 DEF Rejected
  <2>3. CASE RestoreStart(i)
    BY <2>3 DEF RestoreStart, Off
  <2>4. CASE FcListens(i)
    BY <2>4 DEF FcListens, Off
  <2>5. CASE RestoreLoad(i)
    BY <2>5 DEF RestoreLoad, Listening, SocketThere, Serves
  <2>6. CASE RestoreDial(i)
    BY <2>6 DEF RestoreDial, Dial, Listening
  <2>7. CASE RestoreAnswer(i)
    BY <2>7 DEF RestoreAnswer, Kill, Over, Off
  <2>8. CASE RestoreFails(i)
    BY <2>8 DEF RestoreFails, Kill, Over, Off
  <2>9. CASE Stage(i)
    BY <2>9 DEF Stage, CodeDrive
  <2>10. CASE StageFails(i)
    BY <2>10 DEF StageFails, Over
  <2>11. CASE AgentBoots(i)
    BY <2>11 DEF AgentBoots
  <2>12. CASE ColdDial(i)
    <3>1. use[i] = i /\ \A p \in Inv : vm[p].uds = i => p = i
      BY <2>12 DEF ColdDial, Guests, Snapped
    <3>2. inbox' = [inbox EXCEPT ![i] = @ \cup {i}] /\ pc' = [pc EXCEPT ![i] = "conn"]
      BY <2>12, <3>1 DEF ColdDial, Dial, Listening
    <3>3. Attempts(i)'
      BY <2>12, <3>2 DEF ColdDial, Dial
    <3>4. ASSUME NEW j \in Inv, j # i PROVE Attempts(j)'
      BY <2>12, <3>2, <3>4 DEF ColdDial, Dial
    <3> QED
      BY <3>3, <3>4
  <2>13. CASE ColdAnswer(i)
    BY <2>13 DEF ColdAnswer
  <2>14. CASE CreateSnapshot(i)
    BY <2>14 DEF CreateSnapshot, Serves
  <2>15. CASE WriteMeta(i)
    BY <2>15 DEF WriteMeta
  <2>16. CASE SnapshotFails(i)
    BY <2>16 DEF SnapshotFails, NoImage
  <2>17. CASE Publish(i)
    BY <2>17 DEF Publish
  <2>18. CASE Finish(i)
    BY <2>18 DEF Finish, Return, Kill, Over, Off
  <2>19. CASE ColdFails(i)
    BY <2>19 DEF ColdFails, Return, Kill, Over, Off
  <2> QED
    BY <1>2, <2>1, <2>2, <2>3, <2>4, <2>5, <2>6, <2>7, <2>8, <2>9, <2>10,
       <2>11, <2>12, <2>13, <2>14, <2>15, <2>16, <2>17, <2>18, <2>19
    DEF OwnStep, HostStep, RestoreStep, ColdStep, SnapshotStep
<1>3. ASSUME NEW i \in Inv, NEW p \in Inv, GuestStep(i, p) PROVE Runs'
  <2>1. /\ i \in inbox[p] /\ inbox' = [inbox EXCEPT ![p] = @ \ {i}] /\ pc' = pc
        /\ runs' = runs \/ runs' = [runs EXCEPT ![i] = @ + 1]
    BY <1>3 DEF GuestStep, AgentRefuses, Serve, Received, Output, Answer
  <2>2. ASSUME NEW j \in Inv, j # i PROVE Attempts(j)'
    BY <2>1, <2>2
  <2>3. Attempts(i)'
    <3>1. runs'[i] \in {runs[i], runs[i] + 1} /\ runs[i] <= 1
      BY <2>1
    <3>2. \A q \in Inv : i \in inbox'[q] <=> i \in inbox[q] /\ q # p
      BY <2>1
    <3> QED
      BY <2>1, <3>1, <3>2
  <2> QED
    BY <2>2, <2>3
<1>4. CASE Crash
  BY <1>4 DEF Crash
<1>5. CASE UNCHANGED vars
  BY <1>5 DEF vars
<1> QED
  BY <1>1, <1>2, <1>3, <1>4, <1>5 DEF Next, OwnStep

-----------------------------------------------------------------------------
(* The inductive invariant holds in every reachable state. *)
LEMMA Inductive == Spec => []IInv
<1>1. Init => IInv
  BY InvAssumption, BoundsAssumption
  DEF Init, IInv, TypeOK, Codes, MaybeInv, InFlight, Process, Off, Image, NoImage, None,
      Torn, Runnable, Guests, Snapped, Files, Runs, Attempts, Held
<1>2. IInv /\ [Next]_vars => IInv'
  BY TypesStep, GuestsStep, FilesStep, RunsStep DEF IInv
<1> QED
  BY <1>1, <1>2, PTL DEF Spec

(* Every variable keeps its type: above all, the table of snapshots is     *)
(* never given a key that is not the function's or an entry of snapshots/. *)
THEOREM MicroVMTypes == Spec => []TypeOK
<1>1. IInv => TypeOK
  BY DEF IInv
<1> QED
  BY <1>1, Inductive, PTL

(* A readable meta.json always names a chroot on disk. *)
THEOREM ServableSnapshotHolds == Spec => []ServableSnapshot
<1>1. IInv => ServableSnapshot
  BY DEF IInv, Files, ServableSnapshot
<1> QED
  BY <1>1, Inductive, PTL

(* An invocation that has returned leaves no process, and a chroot only    *)
(* for its snapshot.                                                       *)
THEOREM NothingLeftHolds == Spec => []NothingLeft
<1>1. IInv => NothingLeft
  BY DEF IInv, Files, NothingLeft
<1> QED
  BY <1>1, Inductive, PTL

(* However many restores share a snapshot and its API socket, no request   *)
(* reaches the user code of more than two guests.                          *)
THEOREM TwoGuestsAtMostHolds == Spec => []TwoGuestsAtMost
<1>1. IInv => TwoGuestsAtMost
  BY DEF IInv, Runs, Attempts, TwoGuestsAtMost
<1> QED
  BY <1>1, Inductive, PTL

(* The guest of a cold boot is alone on its vsock path until its snapshot  *)
(* is taken, whatever other invocations restore and whenever they fail.    *)
THEOREM ColdGuestIsOwnHolds == Spec => []ColdGuestIsOwn
<1>1. IInv => ColdGuestIsOwn
  BY DEF IInv, Guests, Snapped, Listening, ColdGuestIsOwn
<1> QED
  BY <1>1, Inductive, PTL
=============================================================================
