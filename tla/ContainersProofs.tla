-------------------------- MODULE ContainersProofs --------------------------
(***************************************************************************)
(* What holds of Containers for every set of keys, images and handlers and *)
(* every bound.  The invariants about the records are not inductive: the   *)
(* actors write back copies, so each copy (in a bootstrap list, in flight  *)
(* in a handler or in the reconciler) has to be as legitimate as the       *)
(* record it came from.                                                    *)
(***************************************************************************)
EXTENDS Containers, TLAPS

\* An actor in the middle of something holds the record it is working on.
BusyHasCopy == \A a \in Actors : pc[a] \notin {"idle", "boot"} => cp[a] # Absent

\* A copy is legitimate for a key: a user put its image there, and it says
\* Stopped with a restarting policy only if a request made it so.
Legit(n, c) ==
    /\ c.image \in hist[n].images
    /\ c.phase = "Stopped" /\ ShouldRestart(c.policy) => hist[n].stops # {}

CopiesLegit ==
    /\ \A n \in Names : db[n] # Absent => Legit(n, db[n])
    /\ \A n \in Names : work[n] # Absent => Legit(n, work[n])
    /\ \A a \in Actors : cp[a] # Absent => Legit(name[a], cp[a])

\* A handler about to record a stop was asked for one.
StopAsked ==
    \A h \in Handlers :
        \/ pc[h] = "putStopped"
        \/ pc[h] = "kill" /\ op[h] # "delete"
        => hist[name[h]].stops # {}

RecordsInv == TypeOK /\ BusyHasCopy /\ CopiesLegit /\ StopAsked

-----------------------------------------------------------------------------

\* The starting state: nothing put, nobody busy.
LEMMA InitRecords == Init => RecordsInv
<1> SUFFICES ASSUME Init PROVE RecordsInv
  OBVIOUS
<1>0. (CHOOSE n \in Names : TRUE) \in Names
  BY ContainersAssumption
<1>1. TypeOK
  <2>1. NewRState \in RState
    <3>1. 0 \in Gens
      BY ContainersAssumption DEF Gens
    <3>. QED BY <3>1 DEF NewRState, RState
  <2>2. [images |-> {}, stops |-> {}, last |-> "none"] \in History
    BY DEF History
  <2>3. subq \in Seq(Event) /\ Len(subq) <= SubCap
    BY ContainersAssumption DEF Init
  <2>4. subscribed \in BOOLEAN
    BY Zenon DEF Init
  <2>5. /\ rstate \in [Names -> RState] /\ hist \in [Names -> History]
        /\ name \in [Actors -> Names]
    BY <1>0, <2>1, <2>2 DEF Init
  <2>6. ops \in 0 .. MaxOps /\ faults \in 0 .. MaxFaults
    BY ContainersAssumption DEF Init
  <2>7. pc \in [Actors -> PCs]
    BY DEF Init, PCs
  <2>8. /\ db \in [Names -> Container \cup {Absent}]
        /\ work \in [Names -> Container \cup {Absent}]
        /\ ctrd \in [Ids -> CtrContainer \cup {Absent}]
        /\ TaskID \in [Names -> Ids]
        /\ op \in [Handlers -> {"start", "stop", "restart", "delete"}]
        /\ cp \in [Actors -> Container \cup {Absent}]
    BY ContainersAssumption DEF Init
  <2>. QED
    BY <2>3, <2>4, <2>5, <2>6, <2>7, <2>8 DEF TypeOK
<1>2. BusyHasCopy /\ CopiesLegit /\ StopAsked
  BY ContainersAssumption
     DEF Init, BusyHasCopy, CopiesLegit, StopAsked, Actors
<1>. QED BY <1>1, <1>2 DEF RecordsInv

\* Store.putScoped keeps the record a Container and the channel bounded.
LEMMA PutTyped ==
    ASSUME TypeOK, NEW n \in Names, NEW c \in Container, PutContainer(n, c)
    PROVE  /\ db' \in [Names -> Container \cup {Absent}]
           /\ subq' \in Seq(Event) /\ Len(subq') <= SubCap
<1>1. (c.gen + 1) % GenMod \in Gens
  BY ContainersAssumption DEF Container, Gens
<1>2. [c EXCEPT !.gen = (c.gen + 1) % GenMod] \in Container
  BY <1>1 DEF Container
<1>3. [op |-> "put", name |-> n] \in Event
  BY DEF Event
<1>. QED
  BY <1>2, <1>3, ContainersAssumption DEF PutContainer, Emit, TypeOK

\* ... and touches one key, with the copy's image, phase and policy.
LEMMA PutLegit ==
    ASSUME TypeOK, NEW n \in Names, NEW c \in Container, PutContainer(n, c)
    PROVE  /\ \A m \in Names : m # n => db'[m] = db[m]
           /\ db'[n].image = c.image /\ db'[n].phase = c.phase
           /\ db'[n].policy = c.policy
  BY DEF PutContainer, TypeOK, Container

\* Setting fields of a reconcileState keeps it one.
LEMMA FlagTyped ==
    ASSUME NEW r \in RState, NEW b \in BOOLEAN
    PROVE  /\ [r EXCEPT !.startedOK = b] \in RState
           /\ [r EXCEPT !.aliveChecked = b] \in RState
           /\ [r EXCEPT !.backoff = b] \in RState
  BY DEF RState

\* What the reconciler and the clocks do to one reconcileState.
RStateChange(n) ==
    \/ rstate' = rstate
    \/ rstate' = [rstate EXCEPT ![n].aliveChecked = TRUE]
    \/ rstate' = [rstate EXCEPT ![n].aliveChecked = FALSE]
    \/ rstate' = [rstate EXCEPT ![n].backoff = FALSE]
    \/ rstate' = [rstate EXCEPT ![n].aliveChecked = TRUE, ![n].startedOK = FALSE]
    \/ rstate' = [rstate EXCEPT ![n].startedOK = FALSE, ![n].backoff = TRUE]
    \/ \E g \in Gens :
           rstate' = [rstate EXCEPT ![n].startedOK = TRUE, ![n].lastGen = g]

LEMMA RStateTyped ==
    ASSUME TypeOK, NEW n \in Names, RStateChange(n)
    PROVE  rstate' \in [Names -> RState]
<1>. DEFINE r == rstate[n]
<1>1. r \in RState
  BY DEF TypeOK
<1>2. /\ [r EXCEPT !.aliveChecked = TRUE] \in RState
      /\ [r EXCEPT !.aliveChecked = FALSE] \in RState
      /\ [r EXCEPT !.backoff = FALSE] \in RState
      /\ [r EXCEPT !.startedOK = FALSE] \in RState
      /\ [r EXCEPT !.startedOK = TRUE] \in RState
  BY <1>1, FlagTyped
<1>3. /\ [r EXCEPT !.aliveChecked = TRUE, !.startedOK = FALSE] \in RState
      /\ [r EXCEPT !.startedOK = FALSE, !.backoff = TRUE] \in RState
  BY <1>2, FlagTyped
<1>4. \A g \in Gens : [r EXCEPT !.startedOK = TRUE, !.lastGen = g] \in RState
  BY <1>2 DEF RState
<1>5. /\ rstate \in [Names -> RState]
      /\ [rstate EXCEPT ![n].aliveChecked = TRUE] \in [Names -> RState]
      /\ [rstate EXCEPT ![n].aliveChecked = FALSE] \in [Names -> RState]
      /\ [rstate EXCEPT ![n].backoff = FALSE] \in [Names -> RState]
      /\ [rstate EXCEPT ![n].aliveChecked = TRUE, ![n].startedOK = FALSE]
           \in [Names -> RState]
      /\ [rstate EXCEPT ![n].startedOK = FALSE, ![n].backoff = TRUE]
           \in [Names -> RState]
      /\ \A g \in Gens :
           [rstate EXCEPT ![n].startedOK = TRUE, ![n].lastGen = g]
             \in [Names -> RState]
  BY <1>2, <1>3, <1>4 DEF TypeOK
<1>. HIDE DEF r
<1>6. CASE rstate' = rstate
  BY <1>5, <1>6
<1>7. CASE rstate' = [rstate EXCEPT ![n].aliveChecked = TRUE]
  BY <1>5, <1>7
<1>8. CASE rstate' = [rstate EXCEPT ![n].aliveChecked = FALSE]
  BY <1>5, <1>8
<1>9. CASE rstate' = [rstate EXCEPT ![n].backoff = FALSE]
  BY <1>5, <1>9
<1>10. CASE rstate' = [rstate EXCEPT ![n].aliveChecked = TRUE, ![n].startedOK = FALSE]
  BY <1>5, <1>10
<1>11. CASE rstate' = [rstate EXCEPT ![n].startedOK = FALSE, ![n].backoff = TRUE]
  BY <1>5, <1>11
<1>12. ASSUME NEW g \in Gens,
              rstate' = [rstate EXCEPT ![n].startedOK = TRUE, ![n].lastGen = g]
       PROVE  rstate' \in [Names -> RState]
  BY <1>5, <1>12
<1>. QED
  BY <1>6, <1>7, <1>8, <1>9, <1>10, <1>11, <1>12, Zenon DEF RStateChange

\* The budgets stay within their bounds.
LEMMA Budgets ==
    ASSUME TypeOK, UserRequest \/ Fault \/ NoFault
    PROVE  ops' \in 0 .. MaxOps /\ faults' \in 0 .. MaxFaults
  BY ContainersAssumption DEF TypeOK, UserRequest, Fault, NoFault

\* The ctr commands of rt.Start, by handler or reconciler: no record changes.
LEMMA StartRecords ==
    ASSUME RecordsInv, TaskID' = TaskID, NEW a \in Actors,
           StartList(a) \/ StartPull(a) \/ StartRun(a)
    PROVE  RecordsInv'
<1>. USE DEF RecordsInv
<1>1. /\ UNCHANGED <<db, subq, subscribed, rstate, work, op, name, cp, hist>>
      /\ NoFault \/ Fault
      /\ pc[a] \in {"list", "pull", "run"}
      /\ \E l \in {"started", "pull", "run", "pullErr", "runErr"} : Goto(a, l)
  BY DEF StartList, StartPull, StartRun
<1>2. ctrd' \in [Ids -> CtrContainer \cup {Absent}]
  <2>1. cp[a] \in Container
    BY <1>1 DEF BusyHasCopy, TypeOK
  <2>2. [image |-> cp[a].image, task |-> "running"] \in CtrContainer
    BY <2>1 DEF Container, CtrContainer, Tasks
  <2>. QED
    BY <2>2 DEF StartList, StartPull, StartRun, TypeOK
<1>3. pc' \in [Actors -> PCs]
  BY <1>1 DEF Goto, TypeOK, PCs
<1>4. TypeOK'
  BY <1>1, <1>2, <1>3, Budgets DEF TypeOK
<1>5. BusyHasCopy'
  BY <1>1 DEF BusyHasCopy, Goto, TypeOK
<1>6. CopiesLegit'
  BY <1>1 DEF CopiesLegit, Legit
<1>7. StopAsked'
  BY <1>1 DEF StopAsked, Goto, TypeOK, Actors
<1>. QED BY <1>4, <1>5, <1>6, <1>7

\* A write of a legitimate copy by an actor that keeps its copy, together with
\* a history that only grows, keeps every copy legitimate.
LEMMA PutCopiesLegit ==
    ASSUME TypeOK, CopiesLegit, NEW n \in Names, NEW c \in Container,
           PutContainer(n, c), UNCHANGED <<work, name, cp>>,
           \A m \in Names : /\ hist[m].images \subseteq hist'[m].images
                            /\ hist[m].stops \subseteq hist'[m].stops,
           c.image \in hist'[n].images,
           c.phase = "Stopped" /\ ShouldRestart(c.policy) => hist'[n].stops # {}
    PROVE  CopiesLegit'
<1>1. \A m \in Names : m # n => db'[m] = db[m]
  BY PutLegit
<1>2. /\ db'[n].image = c.image /\ db'[n].phase = c.phase
      /\ db'[n].policy = c.policy
  BY PutLegit
<1>3. \A m \in Names : db'[m] # Absent => Legit(m, db[m])' 
  <2> SUFFICES ASSUME NEW m \in Names, db'[m] # Absent PROVE Legit(m, db[m])'
    OBVIOUS
  <2>1. CASE m = n
    BY <2>1, <1>2 DEF Legit
  <2>2. CASE m # n
    BY <2>2, <1>1 DEF Legit, CopiesLegit
  <2>. QED BY <2>1, <2>2
<1>4. \A a \in Actors : name[a] \in Names
  BY DEF TypeOK
<1>. QED
  BY <1>3, <1>4 DEF CopiesLegit, Legit

\* A request: PUT writes the body and adds what it says to the history.
LEMMA HandlePutRecords ==
    ASSUME RecordsInv, TaskID' = TaskID, NEW n \in Names, NEW c \in Bodies,
           HandlePut(n, c)
    PROVE  RecordsInv'
<1>1. TypeOK /\ PutContainer(n, c) /\ c \in Container
  BY ContainersAssumption DEF HandlePut, RecordsInv
<1>2. c.image \in Images
  BY <1>1 DEF Container
<1>3. /\ hist' \in [Names -> History]
      /\ \A m \in Names : /\ hist[m].images \subseteq hist'[m].images
                          /\ hist[m].stops \subseteq hist'[m].stops
      /\ c.image \in hist'[n].images
      /\ c.phase = "Stopped" => hist'[n].stops # {}
  <2>. DEFINE s == IF c.phase = "Stopped" THEN hist[n].stops \cup {"put"} ELSE hist[n].stops
              i == hist[n].images \cup {c.image}
  <2>1. s \in SUBSET StopOps /\ hist[n].stops \subseteq s
    BY <1>1 DEF TypeOK, History, StopOps
  <2>2. i \in SUBSET Images /\ hist[n].images \subseteq i /\ c.image \in i
    BY <1>1, <1>2 DEF TypeOK, History
  <2>3. hist' = [hist EXCEPT ![n].images = i, ![n].last = "put", ![n].stops = s]
    BY DEF HandlePut
  <2>4. c.phase = "Stopped" => s # {}
    OBVIOUS
  <2>. HIDE DEF s, i
  <2>5. hist \in [Names -> History] /\ hist[n] \in History
    BY <1>1 DEF TypeOK
  <2>. DEFINE w == [hist[n] EXCEPT !.images = i, !.last = "put", !.stops = s]
  <2>6. w \in History /\ w.images = i /\ w.stops = s
    BY <2>1, <2>2, <2>5 DEF History
  <2>7. hist' = [hist EXCEPT ![n] = w]
    BY <2>3, <2>5
  <2>. HIDE DEF w
  <2>. QED BY <2>1, <2>2, <2>4, <2>5, <2>6, <2>7
<1>4. TypeOK'
  BY <1>1, <1>3, PutTyped, Budgets DEF HandlePut, TypeOK
<1>6. CopiesLegit'
  BY <1>1, <1>3, PutCopiesLegit DEF HandlePut, RecordsInv
<1>7. BusyHasCopy'
  BY DEF BusyHasCopy, HandlePut, RecordsInv
<1>8. StopAsked'
  BY <1>1, <1>3 DEF StopAsked, HandlePut, RecordsInv, TypeOK, Actors
<1>. QED BY <1>4, <1>6, <1>7, <1>8 DEF RecordsInv

\* The other requests read the record they will work on.
LEMMA HandleGetRecords ==
    ASSUME RecordsInv, TaskID' = TaskID, NEW h \in Handlers, NEW n \in Names,
           NEW o \in {"start", "stop", "restart", "delete"}, HandleGet(h, o, n)
    PROVE  RecordsInv'
<1>. USE DEF RecordsInv
<1>1. h \in Actors
  BY DEF Actors
<1>2. /\ hist' \in [Names -> History]
      /\ \A m \in Names : /\ hist'[m].images = hist[m].images
                          /\ hist[m].stops \subseteq hist'[m].stops
      /\ o \in {"stop", "restart"} => hist'[n].stops # {}
  <2>. DEFINE s == hist[n].stops \cup ({o} \cap StopOps)
  <2>1. s \in SUBSET StopOps
    BY DEF TypeOK, History
  <2>2. hist' = [hist EXCEPT ![n].stops = s, ![n].last = "pending"]
    BY DEF HandleGet
  <2>3. o \in {"stop", "restart"} => s # {}
    BY DEF StopOps
  <2>4. hist[n].stops \subseteq s
    OBVIOUS
  <2>. HIDE DEF s
  <2>. QED BY <2>1, <2>2, <2>3, <2>4, ZenonT(40) DEF TypeOK, History
<1>3. FirstStep(o) \in PCs
  BY DEF FirstStep, PCs
<1>4. TypeOK'
  BY <1>1, <1>2, <1>3, Budgets DEF HandleGet, TypeOK, Goto
<1>5. BusyHasCopy'
  BY <1>1 DEF HandleGet, TypeOK, Goto, BusyHasCopy
<1>6. CopiesLegit'
  <2>1. \A a \in Actors : a # h => cp'[a] = cp[a] /\ name'[a] = name[a]
    BY DEF HandleGet, TypeOK
  <2>2. cp'[h] = db[n] /\ name'[h] = n /\ db[n] # Absent
    BY <1>1 DEF HandleGet, TypeOK
  <2>3. \A a \in Actors : name[a] \in Names
    BY DEF TypeOK
  <2>4. ASSUME NEW a \in Actors, cp'[a] # Absent PROVE Legit(name[a], cp[a])'
    <3>1. CASE a = h
      BY <2>2, <3>1, <1>2 DEF Legit, CopiesLegit
    <3>2. CASE a # h
      BY <2>1, <2>3, <2>4, <3>2, <1>2 DEF Legit, CopiesLegit
    <3>. QED BY <3>1, <3>2
  <2>5. UNCHANGED <<db, work>>
    BY DEF HandleGet
  <2>6. ASSUME NEW m \in Names PROVE db'[m] # Absent => Legit(m, db[m])'
    BY <2>5, <1>2 DEF CopiesLegit, Legit
  <2>7. ASSUME NEW m \in Names PROVE work'[m] # Absent => Legit(m, work[m])'
    BY <2>5, <1>2 DEF CopiesLegit, Legit
  <2>. QED BY <2>4, <2>6, <2>7 DEF CopiesLegit
<1>7. StopAsked'
  <2> SUFFICES ASSUME NEW k \in Handlers,
                      \/ pc'[k] = "putStopped"
                      \/ pc'[k] = "kill" /\ op'[k] # "delete"
               PROVE  hist'[name'[k]].stops # {}
    BY DEF StopAsked
  <2>1. CASE k = h
    BY <1>1, <1>2, <2>1, ZenonT(40) DEF HandleGet, FirstStep, Goto, TypeOK
  <2>2. CASE k # h
    <3>1. pc'[k] = pc[k] /\ op'[k] = op[k] /\ name'[k] = name[k]
      BY <2>2 DEF HandleGet, Goto, TypeOK, Actors
    <3>2. hist[name[k]].stops # {} /\ name[k] \in Names
      BY <3>1 DEF StopAsked, TypeOK, Actors
    <3>. QED BY <1>2, <3>1, <3>2
  <2>. QED BY <2>1, <2>2
<1>. QED BY <1>4, <1>5, <1>6, <1>7

\* The steps of a request already accepted.
LEMMA HandlerRecords ==
    ASSUME RecordsInv, TaskID' = TaskID, NEW h \in Handlers, HandlerStep(h)
    PROVE  RecordsInv'
<1>. USE DEF RecordsInv
<1>0. h \in Actors /\ name[h] \in Names /\ TaskID[name[h]] \in Ids
  BY DEF Actors, TypeOK
<1>1. CASE StartList(h) \/ StartPull(h) \/ StartRun(h)
  BY <1>0, <1>1, StartRecords
<1>2. CASE HandleStarted(h) /\ pc[h] = "started"
  <2>. DEFINE c == [cp[h] EXCEPT !.phase = "Running", !.msg = "ok"]
  <2>1. cp[h] \in Container /\ Legit(name[h], cp[h])
    BY <1>0, <1>2 DEF BusyHasCopy, TypeOK, CopiesLegit
  <2>2. c \in Container /\ c.image = cp[h].image /\ c.phase = "Running"
    BY <2>1 DEF Container, Phases, Messages
  <2>3. PutContainer(name[h], c)
    BY <1>2 DEF HandleStarted
  <2>. HIDE DEF c
  <2>4. TypeOK'
    BY <1>0, <1>2, <2>2, <2>3, PutTyped, Budgets DEF HandleStarted, TypeOK, Goto, PCs
  <2>5. CopiesLegit'
    BY <1>0, <1>2, <2>1, <2>2, <2>3, PutCopiesLegit DEF HandleStarted, Legit
  <2>6. BusyHasCopy' /\ StopAsked'
    BY <1>0, <1>2 DEF HandleStarted, BusyHasCopy, StopAsked, Goto, TypeOK, Actors
  <2>. QED BY <2>4, <2>5, <2>6
<1>3. CASE HandleStarted(h) /\ pc[h] # "started"
  <2>1. TypeOK'
    BY <1>0, <1>3, Budgets DEF HandleStarted, NoPut, TypeOK, Goto, PCs
  <2>2. CopiesLegit'
    BY <1>3 DEF HandleStarted, NoPut, CopiesLegit, Legit
  <2>3. BusyHasCopy' /\ StopAsked'
    BY <1>0, <1>3 DEF HandleStarted, BusyHasCopy, StopAsked, Goto, TypeOK, Actors
  <2>. QED BY <2>1, <2>2, <2>3
<1>4. CASE HandleKill(h)
  <2>1. ctrd' \in [Ids -> CtrContainer \cup {Absent}]
    BY <1>0, <1>4, ContainersAssumption
       DEF HandleKill, Alive, Exists, TypeOK, CtrContainer, Tasks
  <2>2. TypeOK'
    BY <1>0, <1>4, <2>1, Budgets DEF HandleKill, TypeOK, Goto, PCs
  <2>3. CopiesLegit'
    BY <1>4 DEF HandleKill, CopiesLegit, Legit
  <2>4. BusyHasCopy'
    BY <1>0, <1>4 DEF HandleKill, BusyHasCopy, Goto, TypeOK, Actors
  <2>5. StopAsked'
    BY <1>0, <1>4 DEF HandleKill, StopAsked, Goto, TypeOK, Actors
  <2>. QED BY <2>2, <2>3, <2>4, <2>5
<1>5. CASE HandlePutStopped(h)
  <2>. DEFINE c == [cp[h] EXCEPT !.phase = "Stopped"]
  <2>1. cp[h] \in Container /\ Legit(name[h], cp[h]) /\ hist[name[h]].stops # {}
    BY <1>0, <1>5 DEF HandlePutStopped, BusyHasCopy, TypeOK, CopiesLegit, StopAsked
  <2>2. c \in Container /\ c.image = cp[h].image
    BY <2>1 DEF Container, Phases
  <2>3. PutContainer(name[h], c)
    BY <1>5 DEF HandlePutStopped
  <2>4. /\ hist' \in [Names -> History]
        /\ \A m \in Names : /\ hist'[m].images = hist[m].images
                            /\ hist'[m].stops = hist[m].stops
    BY <1>0, <1>5 DEF HandlePutStopped, TypeOK, History
  <2>. HIDE DEF c
  <2>5. TypeOK'
    BY <1>0, <1>5, <2>2, <2>3, <2>4, PutTyped, Budgets
       DEF HandlePutStopped, TypeOK, Goto, PCs
  <2>6. CopiesLegit'
    BY <1>0, <1>5, <2>1, <2>2, <2>3, <2>4, PutCopiesLegit
       DEF HandlePutStopped, Legit
  <2>7. BusyHasCopy'
    BY <1>0, <1>5 DEF HandlePutStopped, BusyHasCopy, Goto, TypeOK, Actors
  <2>8. StopAsked'
    BY <1>0, <1>5, <2>4 DEF HandlePutStopped, StopAsked, Goto, TypeOK, Actors
  <2>. QED BY <2>5, <2>6, <2>7, <2>8
<1>6. CASE HandleReget(h)
  <2>1. TypeOK'
    BY <1>0, <1>6, Budgets DEF HandleReget, TypeOK, Goto, PCs
  <2>2. CopiesLegit'
    BY <1>0, <1>6 DEF HandleReget, CopiesLegit, Legit, TypeOK
  <2>3. BusyHasCopy' /\ StopAsked'
    BY <1>0, <1>6 DEF HandleReget, BusyHasCopy, StopAsked, Goto, TypeOK, Actors
  <2>. QED BY <2>1, <2>2, <2>3
<1>7. CASE HandleRmTask(h) \/ HandleRmCtr(h)
  <2>1. ctrd' \in [Ids -> CtrContainer \cup {Absent}]
    <3>1. ctrd \in [Ids -> CtrContainer \cup {Absent}]
      BY DEF TypeOK
    <3>2. CASE HandleRmTask(h)
      <4>1. \/ UNCHANGED ctrd
            \/ /\ Exists(name[h])
               /\ ctrd' = [ctrd EXCEPT ![TaskID[name[h]]].task = "none"]
        BY <3>2 DEF HandleRmTask
      <4>. QED BY <1>0, <3>1, <4>1 DEF Exists, CtrContainer, Tasks
    <3>3. CASE HandleRmCtr(h)
      BY <1>0, <3>1, <3>3 DEF HandleRmCtr
    <3>. QED BY <1>7, <3>2, <3>3
  <2>2. TypeOK'
    BY <1>0, <1>7, <2>1, Budgets DEF HandleRmTask, HandleRmCtr, TypeOK, Goto, PCs
  <2>3. CopiesLegit'
    BY <1>7 DEF HandleRmTask, HandleRmCtr, CopiesLegit, Legit
  <2>4. BusyHasCopy' /\ StopAsked'
    BY <1>0, <1>7
       DEF HandleRmTask, HandleRmCtr, BusyHasCopy, StopAsked, Goto, TypeOK, Actors
  <2>. QED BY <2>2, <2>3, <2>4
<1>8. CASE HandleDbDel(h)
  <2>1. /\ db' \in [Names -> Container \cup {Absent}]
        /\ \A m \in Names : db'[m] = db[m] \/ db'[m] = Absent
    BY <1>0, <1>8 DEF HandleDbDel, NoPut, TypeOK
  <2>0. /\ subq' = subq \/ Emit("delete", name[h])
        /\ hist' = [hist EXCEPT ![name[h]].last = "deleted"]
        /\ UNCHANGED <<work, name, cp>>
    BY <1>8 DEF HandleDbDel, NoPut
  <2>2. subq' \in Seq(Event) /\ Len(subq') <= SubCap
    <3>1. [op |-> "delete", name |-> name[h]] \in Event
      BY <1>0 DEF Event
    <3>2. CASE subq' = subq
      BY <3>2 DEF TypeOK
    <3>3. CASE Emit("delete", name[h])
      BY <3>1, <3>3, ContainersAssumption DEF Emit, TypeOK
    <3>. QED BY <2>0, <3>2, <3>3
  <2>3. /\ hist' \in [Names -> History]
        /\ \A m \in Names : /\ hist'[m].images = hist[m].images
                            /\ hist'[m].stops = hist[m].stops
    BY <1>0, <2>0, SMTT(30) DEF TypeOK, History
  <2>4. TypeOK'
    BY <1>0, <1>8, <2>1, <2>2, <2>3, Budgets DEF HandleDbDel, TypeOK, Goto, PCs
  <2>5. CopiesLegit'
    <3>1. \A m \in Names : db'[m] # Absent => Legit(m, db[m])'
      BY <2>1, <2>3 DEF CopiesLegit, Legit
    <3>2. \A m \in Names : work'[m] # Absent => Legit(m, work[m])'
      BY <2>0, <2>3 DEF CopiesLegit, Legit
    <3>3. \A a \in Actors : cp'[a] # Absent => Legit(name[a], cp[a])'
      BY <2>0, <2>3 DEF CopiesLegit, Legit, TypeOK
    <3>. QED BY <3>1, <3>2, <3>3 DEF CopiesLegit
  <2>6. BusyHasCopy'
    BY <1>0, <1>8 DEF HandleDbDel, BusyHasCopy, Goto, TypeOK, Actors
  <2>7. StopAsked'
    BY <1>0, <1>8, <2>3 DEF HandleDbDel, StopAsked, Goto, TypeOK, Actors
  <2>. QED BY <2>4, <2>5, <2>6, <2>7
<1>. QED
  BY <1>1, <1>2, <1>3, <1>4, <1>5, <1>6, <1>7, <1>8 DEF HandlerStep

\* The reconciler.  It is no handler, so StopAsked is out of its reach.
LEMMA RecRecords ==
    ASSUME RecordsInv, TaskID' = TaskID, RecStep
    PROVE  RecordsInv'
<1>. USE DEF RecordsInv
<1>0. Rec \in Actors /\ Rec \notin Handlers /\ name[Rec] \in Names
  BY ContainersAssumption DEF Actors, TypeOK
<1>1. CASE Bootstrap
  <2>1. TypeOK'
    BY <1>0, <1>1, Budgets DEF Bootstrap, TypeOK, Goto, PCs
  <2>2. CopiesLegit'
    BY <1>1 DEF Bootstrap, CopiesLegit, Legit
  <2>3. BusyHasCopy' /\ StopAsked'
    BY <1>0, <1>1 DEF Bootstrap, BusyHasCopy, StopAsked, Goto, TypeOK, Actors
  <2>. QED BY <2>1, <2>2, <2>3
<1>2. ASSUME NEW n \in Names, NextWork(n) PROVE RecordsInv'
  <2>1. TypeOK'
    BY <1>0, <1>2, Budgets DEF NextWork, TypeOK, Goto, PCs
  <2>2. CopiesLegit'
    BY <1>0, <1>2 DEF NextWork, CopiesLegit, Legit, TypeOK
  <2>3. BusyHasCopy' /\ StopAsked'
    BY <1>0, <1>2 DEF NextWork, BusyHasCopy, StopAsked, Goto, TypeOK, Actors
  <2>. QED BY <2>1, <2>2, <2>3
<1>3. CASE Subscribe
  <2>1. subscribed' \in BOOLEAN
    BY <1>3, Zenon DEF Subscribe
  <2>2. TypeOK'
    BY <1>0, <1>3, <2>1, Budgets DEF Subscribe, TypeOK
  <2>. QED BY <1>3, <2>2 DEF Subscribe, CopiesLegit, Legit, BusyHasCopy, StopAsked
<1>4. CASE RecvEvent
  <2>1. Head(subq) \in Event /\ Tail(subq) \in Seq(Event) /\ Len(Tail(subq)) <= SubCap
    BY <1>4, ContainersAssumption DEF RecvEvent, TypeOK
  <2>2. NewRState \in RState
    <3>1. 0 \in Gens
      BY ContainersAssumption DEF Gens
    <3>. QED BY <3>1 DEF NewRState, RState
  <2>3. Head(subq).name \in Names
    BY <2>1 DEF Event
  <2>4. TypeOK'
    <3>1. rstate' \in [Names -> RState]
      BY <1>4, <2>2, <2>3 DEF RecvEvent, TypeOK
    <3>2. /\ pc' \in [Actors -> PCs] /\ name' \in [Actors -> Names]
          /\ cp' \in [Actors -> Container \cup {Absent}]
      BY <1>4, <2>3 DEF RecvEvent, TypeOK, Goto, PCs
    <3>. QED BY <1>4, <2>1, <3>1, <3>2, Budgets DEF RecvEvent, TypeOK
  <2>5. CopiesLegit'
    BY <1>0, <1>4, <2>3 DEF RecvEvent, CopiesLegit, Legit, TypeOK
  <2>6. BusyHasCopy' /\ StopAsked'
    BY <1>0, <1>4 DEF RecvEvent, BusyHasCopy, StopAsked, Goto, TypeOK, Actors
  <2>. QED BY <2>4, <2>5, <2>6
<1>5. CASE DecideSkip \/ DecideStart
  <2>1. /\ UNCHANGED <<db, subq, subscribed, ctrd, work, op, name, cp, hist>>
        /\ NoFault \/ Fault
        /\ Goto(Rec, "idle") \/ Goto(Rec, "list")
        /\ pc[Rec] = "decide"
    BY <1>5 DEF DecideSkip, DecideStart
  <2>2. rstate' \in [Names -> RState]
    <3>1. RStateChange(RecN)
      BY <1>5, Zenon DEF DecideSkip, DecideStart, RStateChange
    <3>2. RecN \in Names
      BY <1>0 DEF RecN
    <3>. QED BY <3>1, <3>2, RStateTyped
  <2>3. TypeOK'
    BY <1>0, <2>1, <2>2, Budgets DEF TypeOK, Goto, PCs
  <2>4. CopiesLegit'
    BY <2>1 DEF CopiesLegit, Legit
  <2>5. BusyHasCopy' /\ StopAsked'
    BY <1>0, <2>1 DEF BusyHasCopy, StopAsked, Goto, TypeOK, Actors
  <2>. QED BY <2>3, <2>4, <2>5
<1>6. CASE DecideExited
  <2>. DEFINE c == [RecC EXCEPT !.phase = "Stopped"]
  <2>1. RecC \in Container /\ Legit(RecN, RecC) /\ ~ShouldRestart(RecC.policy)
    BY <1>0, <1>6 DEF DecideExited, BusyHasCopy, TypeOK, CopiesLegit, RecC, RecN
  <2>2. c \in Container /\ c.image = RecC.image /\ c.policy = RecC.policy
    BY <2>1 DEF Container, Phases
  <2>3. /\ PutContainer(RecN, c) /\ Goto(Rec, "idle") /\ NoFault
        /\ UNCHANGED <<subscribed, ctrd, work, op, name, cp, hist>>
        /\ rstate' = [rstate EXCEPT ![RecN].aliveChecked = TRUE,
                                    ![RecN].startedOK = FALSE]
    BY <1>6 DEF DecideExited
  <2>. HIDE DEF c
  <2>4. rstate' \in [Names -> RState]
    <3>1. RStateChange(RecN)
      BY <2>3, Zenon DEF RStateChange
    <3>. QED BY <1>0, <3>1, RStateTyped DEF RecN
  <2>5. TypeOK'
    BY <1>0, <2>2, <2>3, <2>4, PutTyped, Budgets DEF TypeOK, Goto, PCs, RecN
  <2>6. CopiesLegit'
    BY <1>0, <2>1, <2>2, <2>3, PutCopiesLegit DEF Legit, RecN
  <2>7. BusyHasCopy' /\ StopAsked'
    BY <1>0, <2>3 DEF BusyHasCopy, StopAsked, Goto, TypeOK, Actors
  <2>. QED BY <2>5, <2>6, <2>7
<1>7. CASE RecStarted \/ RecFailed
  <2>0. PICK c \in Container :
          /\ c.image = RecC.image /\ c.phase # "Stopped"
          /\ PutContainer(RecN, c) \/ NoPut
    <3>1. RecC \in Container
      BY <1>0, <1>7 DEF RecStarted, RecFailed, BusyHasCopy, TypeOK, RecC
    <3>2. CASE RecStarted
      <4>. DEFINE c == [RecC EXCEPT !.phase = "Running", !.msg = "ok", !.node = Self]
      <4>1. c \in Container /\ c.image = RecC.image /\ c.phase # "Stopped"
        BY <3>1 DEF Container, Phases, Messages
      <4>2. PutContainer(RecN, c) \/ NoPut
        BY <3>2 DEF RecStarted
      <4>. QED BY <4>1, <4>2
    <3>3. CASE RecFailed
      <4>. DEFINE msg == IF pc[Rec] = "pullErr" THEN "pull" ELSE "run"
                  c == [RecC EXCEPT !.phase = "Failed", !.msg = msg]
      <4>1. c \in Container /\ c.image = RecC.image /\ c.phase # "Stopped"
        BY <3>1 DEF Container, Phases, Messages
      <4>2. PutContainer(RecN, c) \/ NoPut
        BY <3>3 DEF RecFailed
      <4>. QED BY <4>1, <4>2
    <3>. QED BY <1>7, <3>2, <3>3
  <2>1. Legit(RecN, RecC)
    BY <1>0, <1>7 DEF RecStarted, RecFailed, BusyHasCopy, CopiesLegit, RecC, RecN
  <2>2. /\ Goto(Rec, "idle") /\ NoFault
        /\ UNCHANGED <<subscribed, ctrd, work, op, name, cp, hist>>
    BY <1>7 DEF RecStarted, RecFailed
  <2>3. rstate' \in [Names -> RState]
    <3>1. RecC.gen \in Gens
      BY <1>0, <1>7 DEF RecStarted, RecFailed, BusyHasCopy, TypeOK, RecC, Container
    <3>2. RStateChange(RecN)
      BY <1>7, <3>1, Zenon DEF RecStarted, RecFailed, RStateChange
    <3>3. RecN \in Names
      BY <1>0 DEF RecN
    <3>. QED BY <3>1, <3>2, <3>3, RStateTyped
  <2>4. TypeOK'
    <3>1. /\ db' \in [Names -> Container \cup {Absent}]
          /\ subq' \in Seq(Event) /\ Len(subq') <= SubCap
      BY <1>0, <2>0, PutTyped DEF NoPut, TypeOK, RecN
    <3>. QED BY <1>0, <2>2, <2>3, <3>1, Budgets DEF TypeOK, Goto, PCs
  <2>5. CopiesLegit'
    <3>1. CASE PutContainer(RecN, c)
      BY <1>0, <2>0, <2>1, <2>2, <3>1, PutCopiesLegit DEF Legit, RecN
    <3>2. CASE NoPut
      BY <2>2, <3>2 DEF NoPut, CopiesLegit, Legit
    <3>. QED BY <2>0, <3>1, <3>2
  <2>6. BusyHasCopy' /\ StopAsked'
    BY <1>0, <2>2 DEF BusyHasCopy, StopAsked, Goto, TypeOK, Actors
  <2>. QED BY <2>4, <2>5, <2>6
<1>8. CASE StartList(Rec) \/ StartPull(Rec) \/ StartRun(Rec)
  BY <1>0, <1>8, StartRecords
<1>. QED
  BY <1>1, <1>2, <1>3, <1>4, <1>5, <1>6, <1>7, <1>8 DEF RecStep

\* Every step, the clocks and a crash included.
LEMMA StepRecords == RecordsInv /\ [Next]_vars => RecordsInv'
<1> SUFFICES ASSUME RecordsInv, [Next]_vars PROVE RecordsInv'
  OBVIOUS
<1>0. TaskID' = TaskID
  BY DEF Next, vars
<1>1. CASE UserStep
  BY <1>0, <1>1, HandlePutRecords, HandleGetRecords DEF UserStep
<1>2. CASE \E h \in Handlers : HandlerStep(h)
  BY <1>0, <1>2, HandlerRecords
<1>3. CASE RecStep
  BY <1>0, <1>3, RecRecords
<1>4. ASSUME NEW n \in Names, TaskExit(n) PROVE RecordsInv'
  <2>1. ctrd' \in [Ids -> CtrContainer \cup {Absent}]
    BY <1>4, ContainersAssumption
       DEF TaskExit, Alive, Exists, RecordsInv, TypeOK, CtrContainer, Tasks
  <2>2. UNCHANGED <<db, subq, subscribed, rstate, work, pc, op, name, cp, hist>>
    BY <1>4 DEF TaskExit
  <2>3. TypeOK'
    BY <1>0, <1>4, <2>1, <2>2, Budgets DEF TaskExit, RecordsInv, TypeOK
  <2>. QED
    BY <2>2, <2>3 DEF RecordsInv, BusyHasCopy, CopiesLegit, Legit, StopAsked
<1>5. ASSUME NEW n \in Names, BackoffElapses(n) \/ AliveCheckExpires(n)
      PROVE  RecordsInv'
  <2>1. RStateChange(n)
    BY <1>5, Zenon DEF BackoffElapses, AliveCheckExpires, RStateChange
  <2>2. rstate' \in [Names -> RState]
    BY <2>1, RStateTyped DEF RecordsInv
  <2>3. /\ UNCHANGED <<db, subq, subscribed, ctrd, work, pc, op, name, cp, hist>>
        /\ NoFault
    BY <1>5 DEF BackoffElapses, AliveCheckExpires
  <2>4. TypeOK'
    BY <1>0, <2>2, <2>3, Budgets DEF RecordsInv, TypeOK
  <2>. QED
    BY <2>3, <2>4 DEF RecordsInv, BusyHasCopy, CopiesLegit, Legit, StopAsked
<1>6. CASE Crash
  <2>1. rstate' \in [Names -> RState]
    <3>1. 0 \in Gens
      BY ContainersAssumption DEF Gens
    <3>2. NewRState \in RState
      BY <3>1 DEF NewRState, RState
    <3>. QED BY <1>6, <3>2 DEF Crash
  <2>2. subscribed' \in BOOLEAN
    BY <1>6, Zenon DEF Crash
  <2>3. subq' \in Seq(Event) /\ Len(subq') <= SubCap
    BY <1>6, ContainersAssumption DEF Crash
  <2>4. /\ pc' \in [Actors -> PCs]
        /\ \A a \in Actors : pc'[a] \in {"idle", "boot"}
    BY <1>6 DEF Crash, PCs
  <2>5. /\ work' = [n \in Names |-> Absent] /\ Fault
        /\ UNCHANGED <<db, ctrd, op, name, cp, hist>>
    BY <1>6 DEF Crash
  <2>6. TypeOK'
    BY <1>0, <2>1, <2>2, <2>3, <2>4, <2>5, Budgets DEF RecordsInv, TypeOK
  <2>7. CopiesLegit'
    BY <2>5 DEF RecordsInv, CopiesLegit, Legit
  <2>8. BusyHasCopy' /\ StopAsked'
    BY <2>4 DEF BusyHasCopy, StopAsked, Actors
  <2>. QED BY <2>6, <2>7, <2>8 DEF RecordsInv
<1>7. CASE UNCHANGED vars
  BY <1>0, <1>7 DEF vars, sysVars, RecordsInv, TypeOK, BusyHasCopy, CopiesLegit, Legit, StopAsked
<1>. QED
  BY <1>1, <1>2, <1>3, <1>4, <1>5, <1>6, <1>7 DEF Next, Step

\* The records, the copies in flight, the channel and containerd keep their
\* types in every behaviour of handlers, reconciler, faults and crashes.
THEOREM TypeCorrect == Spec => []TypeOK
<1>1. RecordsInv => TypeOK
  BY DEF RecordsInv
<1>. QED
  BY <1>1, InitRecords, StepRecords, PTL DEF Spec

\* reconcile.go:185-192: no interleaving of stale write-backs lets the
\* reconciler retire a container whose policy says restart; what is Stopped was
\* stopped by a request, or stored as Stopped by a PUT.
THEOREM StopHasAReasonHolds == Spec => []StopHasAReason
<1>1. RecordsInv => StopHasAReason
  BY DEF RecordsInv, StopHasAReason, CopiesLegit, Legit
<1>. QED
  BY <1>1, InitRecords, StepRecords, PTL DEF Spec

-----------------------------------------------------------------------------

\* The only step that gives containerd an image is `ctr run`, and it runs a
\* legitimate copy under the id of the key the copy is of.
LEMMA StepProvenance == RecordsInv /\ Provenance /\ [Next]_vars => Provenance'
<1> SUFFICES ASSUME RecordsInv, Provenance, [Next]_vars PROVE Provenance'
  OBVIOUS
<1>0. TaskID' = TaskID
  BY DEF Next, vars
<1>1. \A m \in Names : TaskID[m] \in Ids
  BY DEF RecordsInv, TypeOK
<1>2. hist \in [Names -> History] /\ ctrd \in [Ids -> CtrContainer \cup {Absent}]
  BY DEF RecordsInv, TypeOK
<1>3. ASSUME hist' = hist,
             \A i \in Ids : \/ ctrd'[i] = ctrd[i] \/ ctrd'[i] = Absent
                            \/ /\ ctrd[i] # Absent
                               /\ ctrd'[i].image = ctrd[i].image
      PROVE  Provenance'
  BY <1>0, <1>3 DEF Provenance
<1>4. ASSUME ctrd' = ctrd,
             \A m \in Names : hist[m].images \subseteq hist'[m].images
      PROVE  Provenance'
  BY <1>0, <1>4 DEF Provenance
<1>5. ASSUME NEW a \in Actors, StartRun(a) PROVE Provenance'
  <2>1. cp[a] # Absent /\ cp[a].image \in hist[name[a]].images /\ name[a] \in Names
    BY <1>5 DEF StartRun, RecordsInv, BusyHasCopy, CopiesLegit, Legit, TypeOK
  <2>2. hist' = hist
    BY <1>5 DEF StartRun
  <2>3. CASE ctrd' = ctrd
    BY <1>3, <2>2, <2>3
  <2>4. CASE ctrd' = [ctrd EXCEPT ![TaskID[name[a]]] =
                        [image |-> cp[a].image, task |-> "running"]]
    <3> SUFFICES ASSUME NEW i \in Ids, ctrd'[i] # Absent
                 PROVE  \E m \in Names : TaskID[m] = i /\ ctrd'[i].image \in hist[m].images
      BY <1>0, <2>2 DEF Provenance
    <3>1. CASE i = TaskID[name[a]]
      BY <1>1, <1>2, <2>1, <2>4, <3>1
    <3>2. CASE i # TaskID[name[a]]
      BY <1>1, <1>2, <2>4, <3>2 DEF Provenance
    <3>. QED BY <3>1, <3>2
  <2>. QED BY <1>5, <2>3, <2>4 DEF StartRun
<1>6. CASE UserStep
  <2>1. ctrd' = ctrd
    BY <1>6 DEF UserStep, HandlePut, HandleGet
  <2>2. \A m \in Names : hist[m].images \subseteq hist'[m].images
    <3>1. ASSUME NEW n \in Names, NEW c \in Bodies, HandlePut(n, c)
          PROVE  \A m \in Names : hist[m].images \subseteq hist'[m].images
      BY <1>2, <3>1 DEF HandlePut, History
    <3>2. ASSUME NEW h \in Handlers, NEW o \in {"start", "stop", "restart", "delete"},
                 NEW n \in Names, HandleGet(h, o, n)
          PROVE  \A m \in Names : hist[m].images \subseteq hist'[m].images
      BY <1>2, <3>2 DEF HandleGet, History
    <3>. QED BY <1>6, <3>1, <3>2 DEF UserStep
  <2>. QED BY <1>4, <2>1, <2>2
<1>7. ASSUME NEW h \in Handlers, HandlerStep(h) PROVE Provenance'
  <2>1. CASE HandlePutStopped(h) \/ HandleDbDel(h)
    <3>1. ctrd' = ctrd
      BY <2>1 DEF HandlePutStopped, HandleDbDel
    <3>2. \A m \in Names : hist[m].images \subseteq hist'[m].images
      BY <1>2, <2>1 DEF HandlePutStopped, HandleDbDel, History
    <3>. QED BY <1>4, <3>1, <3>2
  <2>2. CASE StartRun(h)
    BY <1>5, <2>2 DEF Actors
  <2>3. CASE \/ StartList(h) \/ StartPull(h) \/ HandleStarted(h) \/ HandleReget(h)
    BY <1>3, <2>3 DEF StartList, StartPull, HandleStarted, HandleReget
  <2>4. CASE HandleKill(h) \/ HandleRmTask(h) \/ HandleRmCtr(h)
    <3>1. hist' = hist
      BY <2>4 DEF HandleKill, HandleRmTask, HandleRmCtr
    <3>2. \A i \in Ids : \/ ctrd'[i] = ctrd[i] \/ ctrd'[i] = Absent
                         \/ /\ ctrd[i] # Absent
                            /\ ctrd'[i].image = ctrd[i].image
      BY <1>1, <1>2, <2>4 DEF HandleKill, HandleRmTask, HandleRmCtr, Alive, Exists,
                              CtrContainer
    <3>. QED BY <1>3, <3>1, <3>2
  <2>. QED
    BY <1>7, <2>1, <2>2, <2>3, <2>4 DEF HandlerStep
<1>8. CASE RecStep
  <2>1. CASE StartRun(Rec)
    BY <1>5, <2>1 DEF Actors
  <2>2. CASE ~StartRun(Rec)
    <3>1. hist' = hist /\ ctrd' = ctrd
      BY <1>8, <2>2
         DEF RecStep, Bootstrap, NextWork, Subscribe, RecvEvent, DecideSkip,
             DecideExited, DecideStart, StartList, StartPull, RecStarted, RecFailed
    <3>. QED BY <1>3, <3>1
  <2>. QED BY <2>1, <2>2
<1>9. ASSUME NEW n \in Names,
             TaskExit(n) \/ BackoffElapses(n) \/ AliveCheckExpires(n)
      PROVE  Provenance'
  <2>1. hist' = hist
    BY <1>9 DEF TaskExit, BackoffElapses, AliveCheckExpires
  <2>2. \A i \in Ids : \/ ctrd'[i] = ctrd[i]
                       \/ ctrd[i] # Absent /\ ctrd'[i].image = ctrd[i].image
    BY <1>1, <1>2, <1>9 DEF TaskExit, BackoffElapses, AliveCheckExpires, Alive,
                            Exists, CtrContainer
  <2>. QED BY <1>3, <2>1, <2>2
<1>10. CASE Crash \/ UNCHANGED vars
  BY <1>3, <1>10 DEF Crash, vars, sysVars
<1>. QED
  BY <1>6, <1>7, <1>8, <1>9, <1>10 DEF Next, Step

\* ctr.go, reconcile.go: whatever the actors interleave and whichever keys
\* share an id, containerd runs under an id only an image put under a key with
\* that id.
THEOREM ProvenanceHolds == Spec => []Provenance
<1>1. Init => Provenance
  BY DEF Init, Provenance
<1>2. RecordsInv /\ Provenance /\ [Next]_vars => Provenance'
  BY StepProvenance
<1>. QED
  BY <1>1, <1>2, InitRecords, StepRecords, PTL DEF Spec
=============================================================================
