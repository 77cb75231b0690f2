---------------------------- MODULE ServingProofs ----------------------------
(***************************************************************************)
(* The permits of the warm pool are conserved, and the pool with the wasm  *)
(* runtime implements FunctionService, for any number of calls,            *)
(* deployments and permits.                                                *)
(***************************************************************************)
EXTENDS Serving, FiniteSetTheorems, TLAPS

USE WarmPoolAssumption, ServingAssumption

Ats == {"idle", "invoke", "waiting", "inner", "bound", "running", "done"}

\* A deployment that has not installed its module or its channel yet owns
\* ones that nobody has seen.
FreshInv ==
    \A d \in Deploys :
       /\ dep[d] \in {"none", "compile"} => d # funcs /\ d \notin gone
       /\ dep[d] \in {"none", "compile", "swap"} => d # hot /\ d \notin closed

\* A call waits in front of a channel, and one bound to a module has one.
CallInv ==
    \A c \in Calls :
       /\ call[c].at = "waiting" => call[c].ch # 0
       /\ call[c].at \in {"bound", "running"} => call[c].mod # 0
       /\ call[c].at = "done" => call[c].res # "none"

IInv == TypeOK /\ FreshInv /\ CallInv

LEMMA InitIInv == Init => IInv
BY DEF Init, PoolInit, IInv, TypeOK, PoolTypeOK, FreshInv, CallInv, NoCall, Empty, Deploys, Kinds

\* What a call record looks like after each kind of update.
LEMMA OverType ==
    ASSUME TypeOK, NEW c \in Calls, NEW r \in {"ok", "failed"}
    PROVE  /\ Over(c, r).at = "done" /\ Over(c, r).res = r /\ Over(c, r).ch = 0
           /\ Over(c, r).mod = IF r = "ok" THEN call[c].mod ELSE 0
           /\ Over(c, r) \in [at : Ats, kind : Kinds, ch : Deploys \cup {0},
                              mod : Deploys \cup {0}, res : {"none", "ok", "failed"}]
BY DEF Over, NoCall, TypeOK, PoolTypeOK, Ats, Kinds

LEMMA LeaveCalls ==
    ASSUME IInv, NEW c \in Calls, NEW r \in {"ok", "failed"}, Leave(c, r)
    PROVE  /\ permits' \in [Deploys -> 0 .. Concurrency]
           /\ UNCHANGED <<funcs, gone, hot, closed, deploying>>
           /\ call' = [call EXCEPT ![c] = Over(c, r)]
BY SMTT(30) DEF Leave, IInv, TypeOK, PoolTypeOK, Deploys

\* The calls are typed when one of them is replaced by a record that is.
LEMMA CallReplaced ==
    ASSUME IInv, NEW c \in Calls, NEW v,
           v \in [at : Ats, kind : Kinds, ch : Deploys \cup {0},
                  mod : Deploys \cup {0}, res : {"none", "ok", "failed"}],
           v.at = "waiting" => v.ch # 0,
           v.at \in {"bound", "running"} => v.mod # 0,
           v.at = "done" => v.res # "none",
           call' = [call EXCEPT ![c] = v],
           permits' \in [Deploys -> 0 .. Concurrency],
           UNCHANGED <<funcs, gone, hot, closed>>,
           dep' = dep, removing' = removing
    PROVE  PoolTypeOK' /\ FreshInv' /\ CallInv'
<1>1. PoolTypeOK'
  BY DEF IInv, TypeOK, PoolTypeOK, Ats
<1>2. FreshInv'
  BY DEF IInv, FreshInv
<1>3. CallInv'
  <2> SUFFICES ASSUME NEW k \in Calls
               PROVE  /\ call'[k].at = "waiting" => call'[k].ch # 0
                      /\ call'[k].at \in {"bound", "running"} => call'[k].mod # 0
                      /\ call'[k].at = "done" => call'[k].res # "none"
    BY DEF CallInv
  <2>1. call'[k] = IF k = c THEN v ELSE call[k]
    BY DEF IInv, TypeOK, PoolTypeOK
  <2> QED
    BY <2>1 DEF IInv, CallInv
<1> QED
  BY <1>1, <1>2, <1>3

LEMMA Leaves ==
    ASSUME IInv, NEW c \in Calls, NEW r \in {"ok", "failed"}, Leave(c, r)
    PROVE  PoolTypeOK' /\ FreshInv' /\ CallInv'
<1>1. call' = [call EXCEPT ![c] = Over(c, r)]
  BY LeaveCalls
<1>2. /\ permits' \in [Deploys -> 0 .. Concurrency]
      /\ UNCHANGED <<funcs, gone, hot, closed>> /\ dep' = dep /\ removing' = removing
  BY LeaveCalls DEF deploying
<1>3. Over(c, r).at = "done" /\ Over(c, r).res # "none"
  BY OverType DEF IInv
<1> QED
  BY <1>1, <1>2, <1>3, CallReplaced, OverType DEF IInv

LEMMA GoesOn ==
    ASSUME IInv, NEW c \in Calls, NEW s \in {"bound", "running"},
           NEW m \in Deploys, Goes(c, s, m)
    PROVE  PoolTypeOK' /\ FreshInv' /\ CallInv'
<1> DEFINE v == [call[c] EXCEPT !.at = s, !.mod = m]
<1>1. call' = [call EXCEPT ![c] = v]
  BY DEF Goes, IInv, TypeOK, PoolTypeOK
<1>2. /\ v \in [at : Ats, kind : Kinds, ch : Deploys \cup {0},
                 mod : Deploys \cup {0}, res : {"none", "ok", "failed"}]
      /\ v.at = s /\ v.mod = m /\ m # 0
  <2>1. call[c] \in [at : Ats, kind : Kinds, ch : Deploys \cup {0},
                     mod : Deploys \cup {0}, res : {"none", "ok", "failed"}]
    BY DEF IInv, TypeOK, PoolTypeOK, Ats
  <2>2. m # 0
    BY DEF Deploys
  <2> QED
    BY <2>1, <2>2 DEF Ats
<1>3. /\ permits' \in [Deploys -> 0 .. Concurrency]
      /\ UNCHANGED <<funcs, gone, hot, closed>> /\ dep' = dep /\ removing' = removing
  BY DEF Goes, runtime, deploying, IInv, TypeOK, PoolTypeOK
<1> HIDE DEF v
<1> QED
  BY <1>1, <1>2, <1>3, CallReplaced

LEMMA CallStepIInv ==
    ASSUME IInv, NEW c \in Calls,
           \/ PoolLookup(c) \/ Acquire(c) \/ PanicRecovered(c) \/ Cancelled(c)
           \/ WazeroLookup(c) \/ Instantiate(c) \/ Finish(c)
           \/ \E k \in Kinds : InvokeBegin(c, k) /\ UNCHANGED <<runtime, deploying>>
    PROVE  PoolTypeOK' /\ FreshInv' /\ CallInv'
<1> DEFINE Rec == [at : Ats, kind : Kinds, ch : Deploys \cup {0},
                   mod : Deploys \cup {0}, res : {"none", "ok", "failed"}]
<1>0. /\ call \in [Calls -> Rec] /\ permits \in [Deploys -> 0 .. Concurrency]
      /\ hot \in Deploys \cup {0} /\ call[c] \in Rec /\ funcs \in Deploys \cup {0}
  BY DEF IInv, TypeOK, PoolTypeOK, Ats
<1>1. CASE PoolLookup(c)
  <2> DEFINE v == [call[c] EXCEPT !.at = IF hot = 0 THEN "inner" ELSE "waiting", !.ch = hot]
  <2>1. call' = [call EXCEPT ![c] = v]
    BY <1>0, <1>1 DEF PoolLookup
  <2>2. v \in Rec /\ v.at \in {"inner", "waiting"} /\ (v.at = "waiting" => v.ch # 0)
    BY <1>0 DEF Ats
  <2>3. permits' = permits /\ UNCHANGED <<funcs, gone, hot, closed>> /\ dep' = dep /\ removing' = removing
    BY <1>1 DEF PoolLookup, runtime, deploying
  <2> HIDE DEF v
  <2> QED
    BY <2>1, <2>2, <2>3, <1>0, CallReplaced
<1>2. CASE Acquire(c)
  <2> DEFINE v == [call[c] EXCEPT !.at = "inner"]
  <2>1. call' = [call EXCEPT ![c] = v]
    BY <1>0, <1>2 DEF Acquire, At
  <2>2. v \in Rec /\ v.at = "inner"
    BY <1>0 DEF Ats
  <2>3. UNCHANGED <<funcs, gone, hot, closed>> /\ dep' = dep /\ removing' = removing
    BY <1>2 DEF Acquire, deploying
  <2>4. call[c].ch \in Deploys
    BY <1>0, <1>2 DEF Acquire, IInv, CallInv
  <2>5. permits' \in [Deploys -> 0 .. Concurrency]
    BY <1>0, <1>2, <2>4 DEF Acquire
  <2> HIDE DEF v
  <2> QED
    BY <2>1, <2>2, <2>3, <2>5, CallReplaced
<1>3. CASE PanicRecovered(c) \/ Cancelled(c)
  <2>1. /\ call' = [call EXCEPT ![c] = Over(c, "failed")] /\ permits' = permits
        /\ UNCHANGED <<funcs, gone, hot, closed>> /\ dep' = dep /\ removing' = removing
    BY <1>3 DEF PanicRecovered, Cancelled, runtime, deploying
  <2>2. Over(c, "failed") \in Rec /\ Over(c, "failed").at = "done" /\ Over(c, "failed").res # "none"
    BY OverType DEF IInv
  <2> QED
    BY <2>1, <2>2, <1>0, CallReplaced
<1>4. CASE WazeroLookup(c)
  BY <1>0, <1>4, Leaves, GoesOn DEF WazeroLookup
<1>5. CASE Instantiate(c)
  <2>1. call[c].mod \in Deploys
    BY <1>0, <1>5 DEF Instantiate, IInv, CallInv
  <2> QED
    BY <1>5, <2>1, Leaves, GoesOn DEF Instantiate
<1>6. CASE Finish(c)
  BY <1>6, Leaves DEF Finish
<1>7. ASSUME NEW k \in Kinds, InvokeBegin(c, k), UNCHANGED <<runtime, deploying>>
      PROVE  PoolTypeOK' /\ FreshInv' /\ CallInv'
  <2> DEFINE v == [NoCall EXCEPT !.at = "invoke", !.kind = k]
  <2>1. call' = [call EXCEPT ![c] = v]
    BY <1>7 DEF InvokeBegin
  <2>2. v \in Rec /\ v.at = "invoke"
    BY DEF NoCall, Ats, Kinds
  <2>3. permits' = permits /\ UNCHANGED <<funcs, gone, hot, closed>> /\ dep' = dep /\ removing' = removing
    BY <1>7 DEF runtime, deploying
  <2> HIDE DEF v
  <2> QED
    BY <2>1, <2>2, <2>3, <1>0, CallReplaced
<1> QED
  BY <1>1, <1>2, <1>3, <1>4, <1>5, <1>6, <1>7

LEMMA DeployStepIInv ==
    ASSUME IInv, UNCHANGED call,
           \/ \E d \in Deploys :
                 \/ DeployBegin(d) /\ UNCHANGED runtime
                 \/ DeployRefused(d) \/ DeployCompiled(d) \/ DeploySwap(d)
                 \/ /\ dep[d] = "save" /\ dep' = [dep EXCEPT ![d] = "done"]
                    /\ UNCHANGED <<runtime, removing>>
           \/ RemoveHot \/ RemoveInner
           \/ /\ removing' \in {"idle", "hot"} /\ UNCHANGED <<runtime, dep>>
    PROVE  PoolTypeOK' /\ FreshInv' /\ CallInv'
<1>1. CallInv'
  BY DEF IInv, CallInv
<1>2. PoolTypeOK' /\ FreshInv'
  <2> USE DEF IInv, TypeOK, PoolTypeOK, FreshInv, runtime
  <2>1. ASSUME NEW d \in Deploys, DeployBegin(d), UNCHANGED runtime
        PROVE  PoolTypeOK' /\ FreshInv'
    BY <2>1 DEF DeployBegin
  <2>2. ASSUME NEW d \in Deploys, DeployRefused(d) PROVE PoolTypeOK' /\ FreshInv'
    BY <2>2 DEF DeployRefused
  <2>3. ASSUME NEW d \in Deploys, DeployCompiled(d) PROVE PoolTypeOK' /\ FreshInv'
    BY <2>3 DEF DeployCompiled
  <2>4. ASSUME NEW d \in Deploys, DeploySwap(d) PROVE PoolTypeOK' /\ FreshInv'
    BY <2>4 DEF DeploySwap
  <2>5. ASSUME NEW d \in Deploys, dep[d] = "save", dep' = [dep EXCEPT ![d] = "done"],
               UNCHANGED <<runtime, removing>>
        PROVE  PoolTypeOK' /\ FreshInv'
    BY <2>5
  <2>6. CASE RemoveHot
    BY <2>6 DEF RemoveHot, Deploys
  <2>7. CASE RemoveInner
    BY <2>7 DEF RemoveInner, Deploys
  <2>8. CASE removing' \in {"idle", "hot"} /\ UNCHANGED <<runtime, dep>>
    BY <2>8
  <2> QED
    BY <2>1, <2>2, <2>3, <2>4, <2>5, <2>6, <2>7, <2>8
<1> QED
  BY <1>1, <1>2

LEMMA CrashIInv == ASSUME IInv, PoolCrash PROVE PoolTypeOK' /\ FreshInv' /\ CallInv'
<1>1. \A c \in Calls : call'[c] = IF call[c].at \in Ended THEN call[c] ELSE Over(c, "failed")
  BY DEF PoolCrash
<1>2. \A c \in Calls :
         /\ call'[c] \in [at : Ats, kind : Kinds, ch : Deploys \cup {0},
                         mod : Deploys \cup {0}, res : {"none", "ok", "failed"}]
         /\ call'[c].at \in Ended /\ (call'[c].at = "done" => call'[c].res # "none")
  BY <1>1, OverType DEF IInv, CallInv, TypeOK, PoolTypeOK, Ats, Ended
<1>3. /\ funcs' = 0 /\ gone' = {} /\ hot' = 0 /\ closed' = {} /\ permits' = Empty
      /\ removing' = "idle"
  BY DEF PoolCrash
<1>4. dep' \in [Deploys -> {"none", "compile", "swap", "save", "done", "failed"}]
  BY DEF PoolCrash, IInv, TypeOK, PoolTypeOK
<1>5. call' \in [Calls -> [at : Ats, kind : Kinds, ch : Deploys \cup {0},
                          mod : Deploys \cup {0}, res : {"none", "ok", "failed"}]]
  BY <1>2 DEF PoolCrash
<1>6. PoolTypeOK'
  BY <1>3, <1>4, <1>5 DEF PoolTypeOK, Empty, Ats, Deploys
<1>7. FreshInv'
  BY <1>3 DEF FreshInv, Deploys
<1>8. CallInv'
  BY <1>2 DEF CallInv, Ended
<1> QED
  BY <1>6, <1>7, <1>8

\* The record and the bookkeeping of the server around the pool.
LEMMA RestTyped ==
    ASSUME IInv, [Next]_vars
    PROVE  /\ fn' \in {"absent", "empty", "ref"}
           /\ saves' \subseteq Deploys /\ boot' \in {"list", "done"}
           /\ edits' \in 0 .. MaxEdits /\ faults' \in 0 .. MaxFaults
<1> USE DEF IInv, TypeOK, Edit, Fault, Fine, servingVars
<1>1. CASE Requests
  BY <1>1 DEF Requests, PutRecord, Upload, DeleteBegin, HttpRequest, RuleInvokes, CronFires
<1>2. CASE Running
  BY <1>2 DEF Running, CallStep, CallGivenUp, DeployStep, UploadSave, RehydrateDone,
              RemoveStep, DeleteSave, Rehydrate
<1>3. CASE Crash
  BY <1>3 DEF Crash, Die
<1>4. CASE UNCHANGED vars
  BY <1>4 DEF vars
<1> QED
  BY <1>1, <1>2, <1>3, <1>4 DEF Next

\* Every step is, for the pool, one of these.
PoolStep ==
    \/ \E c \in Calls :
          \/ PoolLookup(c) \/ Acquire(c) \/ PanicRecovered(c) \/ Cancelled(c)
          \/ WazeroLookup(c) \/ Instantiate(c) \/ Finish(c)
          \/ \E k \in Kinds : InvokeBegin(c, k) /\ UNCHANGED <<runtime, deploying>>
    \/ /\ UNCHANGED call
       /\ \/ \E d \in Deploys :
               \/ DeployBegin(d) /\ UNCHANGED runtime
               \/ DeployRefused(d) \/ DeployCompiled(d) \/ DeploySwap(d)
               \/ /\ dep[d] = "save" /\ dep' = [dep EXCEPT ![d] = "done"]
                  /\ UNCHANGED <<runtime, removing>>
          \/ RemoveHot \/ RemoveInner
          \/ removing' \in {"idle", "hot"} /\ UNCHANGED <<runtime, dep>>
    \/ PoolCrash
    \/ UNCHANGED poolVars

LEMMA PoolSteps == [Next]_vars => PoolStep
<1> SUFFICES ASSUME [Next]_vars PROVE PoolStep
  OBVIOUS
<1> USE DEF poolVars
<1>1. CASE PutRecord \/ UNCHANGED vars
  BY <1>1 DEF PutRecord, vars, PoolStep
<1>2. ASSUME NEW d \in Deploys, Upload(d) PROVE PoolStep
  BY <1>2 DEF Upload, PoolStep
<1>3. CASE DeleteBegin \/ DeleteSave
  BY <1>3 DEF DeleteBegin, DeleteSave, PoolStep
<1>4. ASSUME NEW c \in Calls, HttpRequest(c) \/ RuleInvokes(c) \/ CronFires(c) PROVE PoolStep
  BY <1>4 DEF HttpRequest, RuleInvokes, CronFires, PoolStep, Kinds
<1>5. ASSUME NEW c \in Calls, CallStep(c) \/ CallGivenUp(c) PROVE PoolStep
  BY <1>5 DEF CallStep, CallGivenUp, PoolStep
<1>6. ASSUME NEW d \in Deploys, DeployStep(d) \/ UploadSave(d) \/ RehydrateDone(d) PROVE PoolStep
  BY <1>6 DEF DeployStep, UploadSave, RehydrateDone, PoolStep, DeployRefused, DeployCompiled, DeploySwap
<1>7. CASE RemoveStep
  BY <1>7 DEF RemoveStep, PoolStep, RemoveHot, RemoveInner
<1>8. CASE Rehydrate
  BY <1>8 DEF Rehydrate, PoolStep, deploying
<1>9. CASE Crash
  BY <1>9 DEF Crash, Die, PoolStep
<1> QED
  BY <1>1, <1>2, <1>3, <1>4, <1>5, <1>6, <1>7, <1>8, <1>9 DEF Next, Requests, Running

LEMMA NextIInv == IInv /\ [Next]_vars => IInv'
<1> SUFFICES ASSUME IInv, [Next]_vars PROVE IInv'
  OBVIOUS
<1>1. PoolTypeOK' /\ FreshInv' /\ CallInv'
  <2>1. PoolStep
    BY PoolSteps
  <2>2. CASE UNCHANGED poolVars
    BY <2>2 DEF IInv, TypeOK, PoolTypeOK, FreshInv, CallInv, poolVars, runtime, deploying
  <2> QED
    BY <2>1, <2>2, CallStepIInv, DeployStepIInv, CrashIInv DEF PoolStep
<1> QED
  BY <1>1, RestTyped DEF IInv, TypeOK

\* Type correctness, with the facts it is inductive with.
THEOREM ServingTyped == Spec => []IInv
<1> QED
  BY InitIInv, NextIInv, PTL DEF Spec

----------------------------------------------------------------------------
(* The permits. *)

Inside == {"inner", "bound", "running"}

\* Without the finiteness of each set of holders, which nothing about Calls
\* gives, its cardinality would mean nothing.
PermitInv ==
    \A d \in Deploys :
       IsFiniteSet(Holding(d)) /\ permits[d] = Cardinality(Holding(d))

LEMMA InitPermitInv == Init => PermitInv
<1> SUFFICES ASSUME Init, NEW d \in Deploys
             PROVE  IsFiniteSet(Holding(d)) /\ permits[d] = Cardinality(Holding(d))
  BY DEF PermitInv
<1>1. Holding(d) = {}
  BY DEF Init, PoolInit, NoCall, Holding
<1> QED
  BY <1>1, FS_EmptySet DEF Init, PoolInit, Empty

\* A step that moves one call changes only its own place among the holders.
LEMMA HoldersOfMove ==
    ASSUME IInv, NEW c \in Calls, NEW v, call' = [call EXCEPT ![c] = v]
    PROVE  \A d \in Deploys :
              Holding(d)' = IF v.ch = d /\ v.at \in Inside
                            THEN Holding(d) \cup {c} ELSE Holding(d) \ {c}
<1> SUFFICES ASSUME NEW d \in Deploys
             PROVE  Holding(d)' = IF v.ch = d /\ v.at \in Inside
                                  THEN Holding(d) \cup {c} ELSE Holding(d) \ {c}
  OBVIOUS
<1>1. \A k \in Calls : call'[k] = IF k = c THEN v ELSE call[k]
  BY DEF IInv, TypeOK, PoolTypeOK
<1>2. \A k : k \in Holding(d)' <=> k \in Calls /\ call'[k].ch = d /\ call'[k].at \in Inside
  BY DEF Holding, Inside
<1>3. \A k : k \in Holding(d) <=> k \in Calls /\ call[k].ch = d /\ call[k].at \in Inside
  BY DEF Holding, Inside
<1> QED
  BY <1>1, <1>2, <1>3

\* A call that keeps its place, or moves within the pool, changes no count.
LEMMA SamePermits ==
    ASSUME IInv, PermitInv, NEW c \in Calls, NEW v, call' = [call EXCEPT ![c] = v],
           permits' = permits,
           \A d \in Deploys : (v.ch = d /\ v.at \in Inside) <=> c \in Holding(d)
    PROVE  PermitInv'
<1>1. \A d \in Deploys : Holding(d)' = Holding(d)
  <2>1. \A d \in Deploys :
           Holding(d)' = IF v.ch = d /\ v.at \in Inside
                         THEN Holding(d) \cup {c} ELSE Holding(d) \ {c}
    BY HoldersOfMove
  <2> SUFFICES ASSUME NEW d \in Deploys PROVE Holding(d)' = Holding(d)
    OBVIOUS
  <2> QED
    BY <2>1
<1> QED
  BY <1>1 DEF PermitInv

LEMMA LeavePermits ==
    ASSUME IInv, PermitInv, NEW c \in Calls, NEW r \in {"ok", "failed"},
           call[c].at \in Inside, Leave(c, r)
    PROVE  PermitInv'
<1>1. Over(c, r).ch = 0 /\ call' = [call EXCEPT ![c] = Over(c, r)]
  BY OverType, LeaveCalls DEF IInv
<1>2. \A d \in Deploys : Holding(d)' = Holding(d) \ {c}
  <2>1. \A d \in Deploys :
           Holding(d)' = IF Over(c, r).ch = d /\ Over(c, r).at \in Inside
                         THEN Holding(d) \cup {c} ELSE Holding(d) \ {c}
    BY <1>1, HoldersOfMove
  <2>2. \A d \in Deploys : Over(c, r).ch # d
    BY <1>1 DEF Deploys
  <2> QED
    BY <2>1, <2>2
<1>3. \A d \in Deploys : c \in Holding(d) <=> call[c].ch = d
  BY DEF Holding, Inside
<1>4. permits \in [Deploys -> 0 .. Concurrency] /\ call[c].ch \in Deploys \cup {0}
  BY DEF IInv, TypeOK, PoolTypeOK
<1>5. CASE call[c].ch = 0
  <2>1. \A d \in Deploys : Holding(d)' = Holding(d) /\ permits'[d] = permits[d]
    BY <1>2, <1>3, <1>5 DEF Leave, Deploys
  <2> QED
    BY <2>1 DEF PermitInv
<1>6. CASE call[c].ch # 0
  <2>1. PICK h \in Deploys : h = call[c].ch /\ c \in Holding(h)
    BY <1>3, <1>4, <1>6
  <2>2. IsFiniteSet(Holding(h)) /\ permits[h] = Cardinality(Holding(h))
    BY <2>1 DEF PermitInv
  <2>3. /\ IsFiniteSet(Holding(h) \ {c})
        /\ Cardinality(Holding(h) \ {c}) = Cardinality(Holding(h)) - 1
    BY <2>1, <2>2, FS_RemoveElement
  <2>4. Cardinality(Holding(h) \ {c}) \in Nat
    BY <2>3, FS_CardinalityType
  <2>5. permits[h] # 0
    BY <2>2, <2>3, <2>4
  <2>6. permits' = [permits EXCEPT ![h] = @ - 1]
    BY <2>1, <2>5, <1>6 DEF Leave
  <2>7. IsFiniteSet(Holding(h)') /\ permits'[h] = Cardinality(Holding(h)')
    BY <1>2, <1>4, <2>1, <2>2, <2>3, <2>6
  <2>8. ASSUME NEW d \in Deploys, d # h
        PROVE  IsFiniteSet(Holding(d)') /\ permits'[d] = Cardinality(Holding(d)')
    <3>1. c \notin Holding(d)
      BY <1>3, <2>1, <2>8
    <3>2. Holding(d)' = Holding(d)
      BY <1>2, <3>1
    <3>3. permits'[d] = permits[d]
      BY <1>4, <2>6, <2>8
    <3>4. IsFiniteSet(Holding(d)) /\ permits[d] = Cardinality(Holding(d))
      BY DEF PermitInv
    <3> QED BY <3>2, <3>3, <3>4
  <2>9. \A d \in Deploys : IsFiniteSet(Holding(d)') /\ permits'[d] = Cardinality(Holding(d)')
    BY <2>7, <2>8
  <2> QED
    BY <2>9 DEF PermitInv
<1> QED
  BY <1>5, <1>6

LEMMA GoesPermits ==
    ASSUME IInv, PermitInv, NEW c \in Calls, NEW s \in {"bound", "running"}, NEW m,
           call[c].at \in Inside, Goes(c, s, m)
    PROVE  PermitInv'
<1> DEFINE v == [call[c] EXCEPT !.at = s, !.mod = m]
<1>1. call' = [call EXCEPT ![c] = v] /\ permits' = permits
  BY DEF Goes, runtime, IInv, TypeOK, PoolTypeOK
<1>2. v.ch = call[c].ch /\ v.at = s
  BY DEF IInv, TypeOK, PoolTypeOK
<1>3. \A d \in Deploys : c \in Holding(d) <=> call[c].ch = d
  BY DEF Holding, Inside
<1> HIDE DEF v
<1> QED
  BY <1>1, <1>2, <1>3, SamePermits DEF Inside

LEMMA AcquirePermits ==
    ASSUME IInv, PermitInv, NEW c \in Calls, Acquire(c)
    PROVE  PermitInv'
<1> DEFINE v == [call[c] EXCEPT !.at = "inner"]
<1>1. PICK h \in Deploys : h = call[c].ch
  BY DEF Acquire, IInv, CallInv, TypeOK, PoolTypeOK
<1>2. call' = [call EXCEPT ![c] = v] /\ v.ch = h /\ v.at = "inner"
  BY <1>1 DEF Acquire, At, IInv, TypeOK, PoolTypeOK
<1>3. \A d \in Deploys : c \notin Holding(d)
  BY DEF Acquire, Holding
<1>4. \A d \in Deploys :
         Holding(d)' = IF v.ch = d /\ v.at \in Inside
                       THEN Holding(d) \cup {c} ELSE Holding(d) \ {c}
  BY <1>2, HoldersOfMove
<1> HIDE DEF v
<1>5. Holding(h)' = Holding(h) \cup {c}
  BY <1>2, <1>1, <1>4 DEF Inside
<1>6. \A d \in Deploys : d # h => Holding(d)' = Holding(d)
  <2> SUFFICES ASSUME NEW d \in Deploys, d # h PROVE Holding(d)' = Holding(d)
    OBVIOUS
  <2> QED
    BY <1>2, <1>3, <1>4
<1>7. permits' = [permits EXCEPT ![h] = @ + 1] /\ permits \in [Deploys -> 0 .. Concurrency]
  BY <1>1 DEF Acquire, IInv, TypeOK, PoolTypeOK
<1>8. IsFiniteSet(Holding(h)) /\ permits[h] = Cardinality(Holding(h))
  BY <1>1 DEF PermitInv
<1>9. /\ IsFiniteSet(Holding(h) \cup {c})
      /\ Cardinality(Holding(h) \cup {c}) = Cardinality(Holding(h)) + 1
  BY <1>1, <1>3, <1>8, FS_AddElement
<1>10. IsFiniteSet(Holding(h)') /\ permits'[h] = Cardinality(Holding(h)')
  BY <1>1, <1>5, <1>7, <1>8, <1>9
<1>11. \A d \in Deploys : d # h => IsFiniteSet(Holding(d)') /\ permits'[d] = Cardinality(Holding(d)')
  BY <1>6, <1>7 DEF PermitInv
<1> QED
  BY <1>10, <1>11 DEF PermitInv

LEMMA NextPermitInv == IInv /\ PermitInv /\ [Next]_vars => PermitInv'
<1> SUFFICES ASSUME IInv, PermitInv, [Next]_vars PROVE PermitInv'
  OBVIOUS
<1>0. PoolStep
  BY PoolSteps
<1>1. ASSUME NEW c \in Calls, PoolLookup(c) PROVE PermitInv'
  <2> DEFINE v == [call[c] EXCEPT !.at = IF hot = 0 THEN "inner" ELSE "waiting", !.ch = hot]
  <2>1. call' = [call EXCEPT ![c] = v] /\ permits' = permits
    BY <1>1 DEF PoolLookup, runtime, IInv, TypeOK, PoolTypeOK
  <2>2. v.ch = hot /\ (v.at = "inner" => hot = 0) /\ v.at \in {"inner", "waiting"}
    BY DEF IInv, TypeOK, PoolTypeOK
  <2>3. \A d \in Deploys : c \notin Holding(d) /\ ~(v.ch = d /\ v.at \in Inside)
    BY <1>1, <2>2 DEF PoolLookup, Holding, Deploys, Inside
  <2> HIDE DEF v
  <2> QED
    BY <2>1, <2>3, SamePermits
<1>2. ASSUME NEW c \in Calls, PanicRecovered(c) \/ Cancelled(c) PROVE PermitInv'
  <2>1. /\ call' = [call EXCEPT ![c] = Over(c, "failed")] /\ permits' = permits
        /\ call[c].at = "waiting" /\ Over(c, "failed").at = "done"
    BY <1>2, OverType DEF PanicRecovered, Cancelled, runtime, IInv
  <2>2. \A d \in Deploys : c \notin Holding(d)
    BY <2>1 DEF Holding
  <2> QED
    BY <2>1, <2>2, SamePermits DEF Inside
<1>3. ASSUME NEW c \in Calls, WazeroLookup(c) \/ Instantiate(c) \/ Finish(c) PROVE PermitInv'
  BY <1>3, LeavePermits, GoesPermits DEF WazeroLookup, Instantiate, Finish, Inside
<1>4. ASSUME NEW c \in Calls, NEW k \in Kinds, InvokeBegin(c, k), UNCHANGED <<runtime, deploying>>
      PROVE  PermitInv'
  <2> DEFINE v == [NoCall EXCEPT !.at = "invoke", !.kind = k]
  <2>1. call' = [call EXCEPT ![c] = v] /\ permits' = permits /\ v.at = "invoke" /\ call[c].at = "idle"
    BY <1>4 DEF InvokeBegin, runtime, NoCall
  <2>2. \A d \in Deploys : c \notin Holding(d)
    BY <2>1 DEF Holding
  <2> HIDE DEF v
  <2> QED
    BY <2>1, <2>2, SamePermits DEF Inside
<1>5. CASE call' = call /\ permits' = permits
  BY <1>5 DEF PermitInv, Holding
<1>6. CASE PoolCrash
  <2> SUFFICES ASSUME NEW d \in Deploys
               PROVE  IsFiniteSet(Holding(d)') /\ permits'[d] = Cardinality(Holding(d)')
    BY DEF PermitInv
  <2>1. \A c \in Calls : call'[c].at \in Ended
    BY <1>6, OverType DEF PoolCrash, Ended, IInv
  <2>2. Holding(d)' = {}
    BY <2>1 DEF Holding, Ended
  <2> QED
    BY <1>6, <2>2, FS_EmptySet DEF PoolCrash, Empty
<1>7. CASE /\ UNCHANGED call
           /\ \/ \E d \in Deploys :
                   \/ DeployBegin(d) /\ UNCHANGED runtime
                   \/ DeployRefused(d) \/ DeployCompiled(d) \/ DeploySwap(d)
                   \/ /\ dep[d] = "save" /\ dep' = [dep EXCEPT ![d] = "done"]
                      /\ UNCHANGED <<runtime, removing>>
              \/ RemoveHot \/ RemoveInner
              \/ removing' \in {"idle", "hot"} /\ UNCHANGED <<runtime, dep>>
  <2>1. permits' = permits
    BY <1>7 DEF DeployRefused, DeployCompiled, DeploySwap, RemoveHot, RemoveInner, runtime
  <2> QED
    BY <1>5, <1>7, <2>1
<1>8. CASE UNCHANGED poolVars
  BY <1>5, <1>8 DEF poolVars, runtime
<1> QED
  BY <1>0, <1>1, <1>2, <1>3, <1>4, <1>6, <1>7, <1>8, AcquirePermits DEF PoolStep

\* Each permit channel holds one token per call inside and never more than its
\* capacity, across redeployments, removals and crashes (pool.go:67-81,
\* 117-132).
THEOREM PermitsConservedHolds == Spec => []PermitsConserved
<1>1. IInv /\ PermitInv => PermitsConserved
  BY DEF IInv, TypeOK, PoolTypeOK, PermitInv, PermitsConserved
<1> QED
  BY <1>1, InitIInv, NextIInv, InitPermitInv, NextPermitInv, PTL DEF Spec

----------------------------------------------------------------------------
(* The refinement. *)

\* What FunctionService sees of a record, case by case.
LEMMA AbstractCases ==
    ASSUME NEW r
    PROVE  /\ r.at = "idle" => Abstract(r) = [stage |-> "idle", version |-> 0]
           /\ r.at \in {"invoke", "waiting", "inner"}
                => Abstract(r) = [stage |-> "pending", version |-> 0]
           /\ r.at \in {"bound", "running"}
                => Abstract(r) = [stage |-> "bound", version |-> r.mod]
           /\ r.at = "done" /\ r.res = "ok"
                => Abstract(r) = [stage |-> "answered", version |-> r.mod]
           /\ r.at = "done" /\ r.res # "ok"
                => Abstract(r) = [stage |-> "failed", version |-> 0]
<1>1. r.at = "idle" => Stage(r) = "idle"
  BY DEF Stage
<1>2. r.at \in {"invoke", "waiting", "inner"} => Stage(r) = "pending"
  BY DEF Stage
<1>3. r.at \in {"bound", "running"} => Stage(r) = "bound"
  BY DEF Stage
<1>4. r.at = "done" /\ r.res = "ok" => Stage(r) = "answered"
  BY DEF Stage
<1>5. r.at = "done" /\ r.res # "ok" => Stage(r) = "failed"
  BY DEF Stage
<1> QED
  BY <1>1, <1>2, <1>3, <1>4, <1>5 DEF Abstract

\* The calls as FunctionService sees them, and how they change with one call.
Seen == [c \in Calls |-> Abstract(call[c])]

LEMMA SeenMove ==
    ASSUME IInv, NEW c \in Calls, NEW v, call' = [call EXCEPT ![c] = v]
    PROVE  Seen' = [Seen EXCEPT ![c] = Abstract(v)]
<1>1. \A k \in Calls : call'[k] = IF k = c THEN v ELSE call[k]
  BY DEF IInv, TypeOK, PoolTypeOK
<1>2. DOMAIN Seen = Calls /\ Seen' = [k \in Calls |-> Abstract(call'[k])]
  BY DEF Seen
<1>3. \A k \in Calls : Abstract(call'[k]) = IF k = c THEN Abstract(v) ELSE Seen[k]
  BY <1>1 DEF Seen
<1>4. [Seen EXCEPT ![c] = Abstract(v)] = [k \in Calls |-> IF k = c THEN Abstract(v) ELSE Seen[k]]
  BY <1>2
<1> QED
  BY <1>2, <1>3, <1>4

LEMMA ServiceInit == Init => Service!Init
<1> SUFFICES ASSUME Init PROVE Service!Init
  OBVIOUS
<1>1. funcs = 0
  BY DEF Init, PoolInit
<1>2. \A c \in Calls : Abstract(call[c]) = [stage |-> "idle", version |-> 0]
  BY AbstractCases DEF Init, PoolInit, NoCall
<1> QED
  BY <1>1, <1>2 DEF Service!Init, Service!Unbound

\* The steps of FunctionService, on the calls as it sees them.
LEMMA ServiceSteps ==
    ASSUME NEW c \in Calls, UNCHANGED funcs,
           \/ /\ Seen[c].stage = "idle"
              /\ Seen' = [Seen EXCEPT ![c] = [stage |-> "pending", version |-> 0]]
           \/ /\ Seen[c].stage = "pending" /\ funcs # 0
              /\ Seen' = [Seen EXCEPT ![c] = [stage |-> "bound", version |-> funcs]]
           \/ /\ Seen[c].stage = "bound"
              /\ Seen' = [Seen EXCEPT ![c] = [stage |-> "answered", version |-> Seen[c].version]]
           \/ /\ Seen[c].stage \in {"pending", "bound"}
              /\ Seen' = [Seen EXCEPT ![c] = [stage |-> "failed", version |-> 0]]
    PROVE  Service!Next
<1>1. ASSUME Seen[c].stage = "idle", Seen' = [Seen EXCEPT ![c] = [stage |-> "pending", version |-> 0]]
      PROVE  Service!Request(c)
  BY <1>1 DEF Service!Request, Service!Unbound, Seen
<1>2. ASSUME Seen[c].stage = "pending", funcs # 0,
             Seen' = [Seen EXCEPT ![c] = [stage |-> "bound", version |-> funcs]]
      PROVE  Service!Bind(c)
  BY <1>2 DEF Service!Bind, Seen
<1>3. ASSUME Seen[c].stage = "bound",
             Seen' = [Seen EXCEPT ![c] = [stage |-> "answered", version |-> Seen[c].version]]
      PROVE  Service!Answer(c)
  <2>1. Seen[c] = [stage |-> Stage(call[c]), version |-> Seen[c].version]
    BY DEF Seen, Abstract
  <2>2. [Seen[c] EXCEPT !.stage = "answered"] = [stage |-> "answered", version |-> Seen[c].version]
    BY <2>1
  <2>3. Seen' = [Seen EXCEPT ![c].stage = "answered"]
    BY <1>3, <2>2
  <2> QED
    BY <1>3, <2>3 DEF Service!Answer, Seen
<1>4. ASSUME Seen[c].stage \in {"pending", "bound"},
             Seen' = [Seen EXCEPT ![c] = [stage |-> "failed", version |-> 0]]
      PROVE  Service!Refuse(c)
  BY <1>4 DEF Service!Refuse, Service!Unbound, Seen
<1>5. Service!Request(c) \/ Service!Bind(c) \/ Service!Answer(c) \/ Service!Refuse(c) => Service!Next
  BY DEF Service!Next
<1> QED
  BY <1>1, <1>2, <1>3, <1>4, <1>5

LEMMA CallStepService ==
    ASSUME IInv, NEW c \in Calls,
           \/ PoolLookup(c) \/ Acquire(c) \/ PanicRecovered(c) \/ Cancelled(c)
           \/ WazeroLookup(c) \/ Instantiate(c) \/ Finish(c)
           \/ \E k \in Kinds : InvokeBegin(c, k) /\ UNCHANGED <<runtime, deploying>>
    PROVE  Service!Next \/ UNCHANGED <<funcs, Seen>>
<1>0. /\ Seen[c] = Abstract(call[c]) /\ Seen \in [Calls -> {Abstract(call[k]) : k \in Calls}]
      /\ call \in [Calls -> [at : Ats, kind : Kinds, ch : Deploys \cup {0},
                             mod : Deploys \cup {0}, res : {"none", "ok", "failed"}]]
  BY DEF Seen, IInv, TypeOK, PoolTypeOK, Ats
\* A step that leaves the abstract record alone.
<1>1. ASSUME NEW v, call' = [call EXCEPT ![c] = v], UNCHANGED funcs, Abstract(v) = Abstract(call[c])
      PROVE  UNCHANGED <<funcs, Seen>>
  <2>1. Seen' = [Seen EXCEPT ![c] = Seen[c]]
    BY <1>0, <1>1, SeenMove
  <2> QED
    BY <1>0, <1>1, <2>1
\* A call that is over without a result.
<1>2. ASSUME Seen[c].stage \in {"pending", "bound"}, UNCHANGED funcs,
             call' = [call EXCEPT ![c] = Over(c, "failed")]
      PROVE  Service!Next
  <2>1. Abstract(Over(c, "failed")) = [stage |-> "failed", version |-> 0]
    BY OverType, AbstractCases DEF IInv
  <2>2. Seen' = [Seen EXCEPT ![c] = [stage |-> "failed", version |-> 0]]
    BY <1>2, <2>1, SeenMove
  <2> QED
    BY <1>2, <2>2, ServiceSteps
<1>3. ASSUME Leave(c, "failed"), Seen[c].stage \in {"pending", "bound"} PROVE Service!Next
  BY <1>2, <1>3 DEF Leave
<1>4. CASE PoolLookup(c)
  <2> DEFINE v == [call[c] EXCEPT !.at = IF hot = 0 THEN "inner" ELSE "waiting", !.ch = hot]
  <2>1. call' = [call EXCEPT ![c] = v] /\ funcs' = funcs
    BY <1>0, <1>4 DEF PoolLookup, runtime
  <2>2. v.at \in {"inner", "waiting"} /\ call[c].at = "invoke"
    BY <1>0, <1>4 DEF PoolLookup
  <2> HIDE DEF v
  <2>3. Abstract(v) = Abstract(call[c])
    BY <2>2, AbstractCases
  <2> QED
    BY <1>1, <2>1, <2>3
<1>5. CASE Acquire(c)
  <2> DEFINE v == [call[c] EXCEPT !.at = "inner"]
  <2>1. call' = [call EXCEPT ![c] = v] /\ funcs' = funcs
    BY <1>0, <1>5 DEF Acquire, At
  <2>2. v.at = "inner" /\ call[c].at = "waiting"
    BY <1>0, <1>5 DEF Acquire
  <2> HIDE DEF v
  <2>3. Abstract(v) = Abstract(call[c])
    BY <2>2, AbstractCases
  <2> QED
    BY <1>1, <2>1, <2>3
<1>6. CASE PanicRecovered(c) \/ Cancelled(c)
  <2>1. Seen[c].stage = "pending"
    BY <1>0, <1>6, AbstractCases DEF PanicRecovered, Cancelled
  <2> QED
    BY <1>2, <1>6, <2>1 DEF PanicRecovered, Cancelled, runtime
<1>7. CASE WazeroLookup(c)
  <2>1. Seen[c].stage = "pending"
    BY <1>0, <1>7, AbstractCases DEF WazeroLookup
  <2>2. CASE funcs = 0
    BY <1>3, <1>7, <2>1, <2>2 DEF WazeroLookup
  <2>3. CASE funcs # 0
    <3> DEFINE v == [call[c] EXCEPT !.at = "bound", !.mod = funcs]
    <3>1. call' = [call EXCEPT ![c] = v] /\ funcs' = funcs
      BY <1>0, <1>7, <2>3 DEF WazeroLookup, Goes, runtime
    <3>2. v.at = "bound" /\ v.mod = funcs
      BY <1>0
    <3> HIDE DEF v
    <3>3. Abstract(v) = [stage |-> "bound", version |-> funcs]
      BY <3>2, AbstractCases
    <3>4. Seen' = [Seen EXCEPT ![c] = [stage |-> "bound", version |-> funcs]]
      BY <3>1, <3>3, SeenMove
    <3> QED
      BY <2>1, <2>3, <3>1, <3>4, ServiceSteps
  <2> QED
    BY <2>2, <2>3
<1>8. CASE Instantiate(c)
  <2>1. Seen[c].stage = "bound"
    BY <1>0, <1>8, AbstractCases DEF Instantiate
  <2>2. CASE Goes(c, "running", call[c].mod)
    <3> DEFINE v == [call[c] EXCEPT !.at = "running", !.mod = call[c].mod]
    <3>1. call' = [call EXCEPT ![c] = v] /\ funcs' = funcs
      BY <1>0, <2>2 DEF Goes, runtime
    <3>2. v.at = "running" /\ v.mod = call[c].mod /\ call[c].at = "bound"
      BY <1>0, <1>8 DEF Instantiate
    <3> HIDE DEF v
    <3>3. Abstract(v) = Abstract(call[c])
      BY <3>2, AbstractCases
    <3> QED
      BY <1>1, <3>1, <3>3
  <2> QED
    BY <1>3, <1>8, <2>1, <2>2 DEF Instantiate
<1>9. CASE Finish(c)
  <2>1. Seen[c] = [stage |-> "bound", version |-> call[c].mod]
    BY <1>0, <1>9, AbstractCases DEF Finish
  <2>2. CASE Leave(c, "ok")
    <3>1. Abstract(Over(c, "ok")) = [stage |-> "answered", version |-> Seen[c].version]
      BY <2>1, OverType, AbstractCases DEF IInv
    <3>2. Seen' = [Seen EXCEPT ![c] = [stage |-> "answered", version |-> Seen[c].version]]
      BY <2>2, <3>1, SeenMove DEF Leave
    <3> QED
      <4>1. Seen[c].stage = "bound" /\ funcs' = funcs
        BY <2>1, <2>2 DEF Leave
      <4> QED
        BY <3>2, <4>1, ServiceSteps
  <2> QED
    BY <1>3, <1>9, <2>1, <2>2 DEF Finish
<1>10. ASSUME NEW k \in Kinds, InvokeBegin(c, k), UNCHANGED <<runtime, deploying>>
       PROVE  Service!Next
  <2> DEFINE v == [NoCall EXCEPT !.at = "invoke", !.kind = k]
  <2>1. call' = [call EXCEPT ![c] = v] /\ funcs' = funcs /\ v.at = "invoke"
    BY <1>10 DEF InvokeBegin, runtime, NoCall
  <2>2. Seen[c].stage = "idle"
    <3>1. call[c].at = "idle"
      BY <1>10 DEF InvokeBegin
    <3>2. Abstract(call[c]) = [stage |-> "idle", version |-> 0]
      BY <3>1, AbstractCases
    <3> QED
      BY <1>0, <3>2
  <2> HIDE DEF v
  <2>3. Abstract(v) = [stage |-> "pending", version |-> 0]
    BY <2>1, AbstractCases
  <2>4. Seen' = [Seen EXCEPT ![c] = [stage |-> "pending", version |-> 0]]
    BY <2>1, <2>3, SeenMove
  <2> QED
    BY <2>1, <2>2, <2>4, ServiceSteps
<1> QED
  BY <1>4, <1>5, <1>6, <1>7, <1>8, <1>9, <1>10

LEMMA NextService == IInv /\ [Next]_vars => Service!Next \/ UNCHANGED <<funcs, Seen>>
<1> SUFFICES ASSUME IInv, [Next]_vars PROVE Service!Next \/ UNCHANGED <<funcs, Seen>>
  OBVIOUS
<1>0. PoolStep
  BY PoolSteps
<1>1. CASE UNCHANGED <<funcs, call>>
  BY <1>1 DEF Seen
<1>2. ASSUME NEW d \in Deploys, DeployCompiled(d) PROVE Service!Next
  <2>1. funcs' = d /\ Seen' = Seen
    BY <1>2 DEF DeployCompiled, Seen
  <2> QED
    BY <2>1 DEF Service!Next, Service!Install, Seen
<1>3. CASE RemoveInner
  <2>1. funcs' = 0 /\ Seen' = Seen
    BY <1>3 DEF RemoveInner, Seen
  <2> QED
    BY <2>1 DEF Service!Next, Service!Withdraw, Seen
<1>4. CASE PoolCrash
  <2>1. \A c \in Calls :
           Abstract(call'[c]) = IF Seen[c].stage \in {"pending", "bound"}
                                THEN [stage |-> "failed", version |-> 0] ELSE Seen[c]
    <3> SUFFICES ASSUME NEW c \in Calls
                 PROVE  Abstract(call'[c]) = IF Seen[c].stage \in {"pending", "bound"}
                                             THEN [stage |-> "failed", version |-> 0]
                                             ELSE Seen[c]
      OBVIOUS
    <3>1. call'[c] = IF call[c].at \in Ended THEN call[c] ELSE Over(c, "failed")
      BY <1>4 DEF PoolCrash
    <3>2. Abstract(Over(c, "failed")) = [stage |-> "failed", version |-> 0]
      BY OverType, AbstractCases DEF IInv
    <3>3. Seen[c] = Abstract(call[c]) /\ call[c].at \in Ats /\ call[c].res \in {"none", "ok", "failed"}
      BY DEF Seen, IInv, TypeOK, PoolTypeOK, Ats
    <3>4. CASE call[c].at \in Ended
      <4>1. Seen[c].stage \notin {"pending", "bound"}
        BY <3>3, <3>4, AbstractCases DEF Ended
      <4> QED
        BY <3>1, <3>3, <3>4, <4>1
    <3>5. CASE call[c].at \notin Ended
      <4>1. Seen[c].stage \in {"pending", "bound"}
        BY <3>3, <3>5, AbstractCases DEF Ended, Ats
      <4> QED
        BY <3>1, <3>2, <3>5, <4>1
    <3> QED
      BY <3>4, <3>5
  <2>2. funcs' = 0 /\ Seen' = [c \in Calls |-> Abstract(call'[c])]
    BY <1>4 DEF PoolCrash, Seen
  <2>3. Seen' = [c \in Calls |-> IF Seen[c].stage \in {"pending", "bound"}
                                 THEN [stage |-> "failed", version |-> 0] ELSE Seen[c]]
    BY <2>1, <2>2
  <2>4. Service!Restart
    BY <2>2, <2>3 DEF Service!Restart, Service!Unbound, Seen
  <2> QED
    BY <2>4 DEF Service!Next
<1>5. CASE /\ UNCHANGED call
           /\ \/ \E d \in Deploys :
                   \/ DeployBegin(d) /\ UNCHANGED runtime
                   \/ DeployRefused(d) \/ DeploySwap(d)
                   \/ /\ dep[d] = "save" /\ dep' = [dep EXCEPT ![d] = "done"]
                      /\ UNCHANGED <<runtime, removing>>
              \/ RemoveHot
              \/ removing' \in {"idle", "hot"} /\ UNCHANGED <<runtime, dep>>
  <2>1. funcs' = funcs
    BY <1>5 DEF DeployRefused, DeploySwap, RemoveHot, runtime
  <2> QED
    BY <1>1, <1>5, <2>1
<1>6. CASE UNCHANGED poolVars
  BY <1>1, <1>6 DEF poolVars, runtime
<1> QED
  BY <1>0, <1>2, <1>3, <1>4, <1>5, <1>6, CallStepService DEF PoolStep

\* The warm pool and the wasm runtime implement FunctionService: whatever is
\* redeployed, removed or crashes, an answered call was answered by a module
\* that was the installed one during the call (wazero.go:79-241).
THEOREM ImplementsServiceHolds == Spec => ImplementsService
<1>1. IInv /\ [Next]_vars => [Service!Next]_<<funcs, Seen>>
  BY NextService
<1>2. [Service!Next]_<<funcs, Seen>> => [Service!Next]_<<funcs, [c \in Calls |-> Abstract(call[c])]>>
  BY DEF Seen
<1> QED
  BY <1>1, <1>2, ServiceInit, InitIInv, NextIInv, PTL
     DEF Spec, ImplementsService, Service!Spec
=============================================================================
