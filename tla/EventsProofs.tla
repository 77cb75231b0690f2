---------------------------- MODULE EventsProofs ----------------------------
(***************************************************************************)
(* Safety of the event bus, the rule dispatcher, the webhook deliveries,   *)
(* and the live tail, for any number of events, rules, projects and        *)
(* attempts and any capacity.                                              *)
(***************************************************************************)
EXTENDS Events, FiniteSetTheorems, SequenceTheorems, TLAPS

USE EventsAssumption

----------------------------------------------------------------------------
(* Finite sets of events and their order. *)

LEMMA FiniteEvents ==
    ASSUME NEW S \in SUBSET Events
    PROVE  IsFiniteSet(S) /\ Cardinality(S) \in Nat /\ S \subseteq Nat
<1>1. IsFiniteSet(Events)
  BY FS_Interval DEF Events
<1>2. IsFiniteSet(S)
  BY <1>1, FS_Subset
<1> QED
  BY <1>2, FS_CardinalityType DEF Events

Below(S, e) == {f \in S : f < e}

\* The rank of an event is less than the size of its set, and grows.
LEMMA Ranks ==
    ASSUME NEW S \in SUBSET Events, NEW e \in S
    PROVE  /\ Cardinality(Below(S, e)) \in 0 .. (Cardinality(S) - 1)
           /\ \A f \in S : f < e => Cardinality(Below(S, f)) < Cardinality(Below(S, e))
<1> USE DEF Below
<1>1. /\ Below(S, e) \in SUBSET S /\ IsFiniteSet(S) /\ Cardinality(S) \in Nat
      /\ IsFiniteSet(Below(S, e)) /\ Cardinality(Below(S, e)) \in Nat
  BY FiniteEvents
<1>2. e \in S /\ e \notin Below(S, e)
  BY FiniteEvents
<1> HIDE DEF Below
<1>3. /\ Cardinality(Below(S, e)) <= Cardinality(S)
      /\ Cardinality(S) = Cardinality(Below(S, e)) => S = Below(S, e)
  BY <1>1, FS_Subset
<1>4. ASSUME NEW f \in S, f < e
      PROVE  Cardinality(Below(S, f)) < Cardinality(Below(S, e))
  <2>1. Below(S, f) \in SUBSET Below(S, e) /\ f \in Below(S, e) /\ f \notin Below(S, f)
    BY <1>4, FiniteEvents DEF Below
  <2>2. /\ Cardinality(Below(S, f)) <= Cardinality(Below(S, e))
        /\ Cardinality(Below(S, e)) = Cardinality(Below(S, f)) => Below(S, e) = Below(S, f)
    BY <1>1, <2>1, FS_Subset
  <2>3. Cardinality(Below(S, f)) \in Nat
    BY FiniteEvents DEF Below
  <2> QED
    BY <1>1, <2>1, <2>2, <2>3
<1> QED
  BY <1>1, <1>2, <1>3, <1>4

\* Every rank occurs: ranks are an injection of a set into one of its size.
LEMMA EveryRank ==
    ASSUME NEW S \in SUBSET Events, NEW n \in 0 .. (Cardinality(S) - 1)
    PROVE  \E e \in S : Cardinality(Below(S, e)) = n
<1> DEFINE T == 0 .. (Cardinality(S) - 1)
           rank == [e \in S |-> Cardinality(Below(S, e))]
<1>1. Cardinality(S) \in Nat /\ IsFiniteSet(S)
  BY FiniteEvents
<1>2. IsFiniteSet(T) /\ Cardinality(T) = Cardinality(S)
  BY <1>1, FS_Interval
<1>3. rank \in [S -> T]
  BY Ranks
<1>4. ASSUME NEW e \in S, NEW f \in S, rank[e] = rank[f] PROVE e = f
  <2>1. e \in Nat /\ f \in Nat
    BY FiniteEvents
  <2>2. /\ f < e => Cardinality(Below(S, f)) < Cardinality(Below(S, e))
        /\ e < f => Cardinality(Below(S, e)) < Cardinality(Below(S, f))
    BY Ranks
  <2>3. Cardinality(Below(S, e)) \in Nat /\ Cardinality(Below(S, e)) = Cardinality(Below(S, f))
    BY <1>4, FiniteEvents DEF Below
  <2> QED
    BY <2>1, <2>2, <2>3
<1> HIDE DEF rank
<1>5. rank \in Injection(S, T)
  BY <1>3, <1>4 DEF Injection, IsInjective
<1>6. rank \in Surjection(S, T)
  BY <1>2, <1>5, FS_Injection
<1>7. \E e \in S : rank[e] = n
  BY <1>6 DEF Surjection
<1> QED
  BY <1>7 DEF rank

LEMMA RangeOfEvents ==
    ASSUME NEW s \in Seq(Events)
    PROVE  \A e : e \in Range(s) <=> \E i \in 1 .. Len(s) : s[i] = e
BY DEF Range

\* The sorted sequence of a set of events holds events of that set.
LEMMA AscendingIn ==
    ASSUME NEW S \in SUBSET Events
    PROVE  Ascending(S) \in Seq(S) /\ Range(Ascending(S)) \subseteq S
<1>1. Cardinality(S) \in Nat
  BY FiniteEvents
<1>2. ASSUME NEW i \in 1 .. Cardinality(S)
      PROVE  (CHOOSE e \in S : Cardinality({f \in S : f < e}) = i - 1) \in S
  <2>1. i - 1 \in 0 .. (Cardinality(S) - 1)
    BY <1>1
  <2>2. \E e \in S : Cardinality({f \in S : f < e}) = i - 1
    BY <2>1, EveryRank DEF Below
  <2> QED
    BY <2>2
<1>3. Ascending(S) \in [1 .. Cardinality(S) -> S]
  BY <1>2 DEF Ascending
<1> QED
  BY <1>1, <1>3 DEF Range

----------------------------------------------------------------------------
(* Types. *)

LEMMA InitTypeOK == Init => TypeOK
<1> SUFFICES ASSUME Init PROVE TypeOK
  OBVIOUS
<1>1. Idle \in [todo : SUBSET Projects, p : Projects \cup {None}, n : Nat]
  BY DEF Idle
<1>2. Closed \in [at : {"closed", "listed", "live"}, p : Projects]
  BY DEF Closed
<1>3. pos \in [Events -> 0 .. HandleDone] /\ try \in [Pairs -> 0 .. DeliveryDone]
  BY DEF Init, HandleDone, DeliveryDone
<1>4. queue \in Seq(Events) /\ ch \in Seq(Events) /\ seen \in Seq(Events)
      /\ Len(queue) = 0 /\ Len(ch) = 0
  BY DEF Init
<1>5. /\ dlv \in [Pairs -> [1 .. Attempts -> {None, "ok", "failed", "exhausted"}]]
      /\ copy \in [Events -> [Rules -> Rule \cup {None}]]
  BY DEF Init
<1>6. sink \in BOOLEAN
  BY DEF Init
<1> QED
  BY <1>1, <1>2, <1>3, <1>4, <1>5, <1>6 DEF Init, TypeOK

\* What the bounds of a step are typed by.
LEMMA BoundsTyped ==
    ASSUME TypeOK, Op \/ Fault \/ Fine
    PROVE  ops' \in 0 .. MaxOps /\ faults' \in 0 .. MaxFaults
BY DEF TypeOK, Op, Fault, Fine, bounds

\* A stamped event is one that was not there.
LEMMA Stamps ==
    ASSUME TypeOK, NEW i \in Info, Stamp(i)
    PROVE  \E e \in Events :
              /\ info[e] = None /\ info' = [info EXCEPT ![e] = i]
              /\ info' \in [Events -> Info \cup {None}]
              /\ stamped' = stamped \cup {e} /\ stamped' \subseteq Events
<1>1. PICK e \in Events :
         info[e] = None /\ info' = [info EXCEPT ![e] = i] /\ stamped' = stamped \cup {e}
  BY DEF Stamp
<1>2. info' \in [Events -> Info \cup {None}]
  BY <1>1 DEF TypeOK
<1>3. stamped' \subseteq Events
  BY <1>1 DEF TypeOK
<1> QED
  BY <1>1, <1>2, <1>3

\* A record is written for one attempt of one delivery, or could not be.
LEMMA Recorded ==
    ASSUME TypeOK, NEW x \in Pairs, NEW k \in 1 .. Attempts,
           NEW v \in {"ok", "failed", "exhausted"}, recordDelivery(x, k, v)
    PROVE  /\ dlv' \in [Pairs -> [1 .. Attempts -> {None, "ok", "failed", "exhausted"}]]
           /\ unsaved' \subseteq Pairs /\ (Fine \/ Fault)
           /\ \A y \in Pairs : y # x => dlv'[y] = dlv[y]
           /\ \/ /\ unsaved' = unsaved
                 /\ \A j \in 1 .. Attempts : dlv'[x][j] = IF j = k THEN v ELSE dlv[x][j]
              \/ unsaved' = unsaved \cup {x} /\ dlv' = dlv
<1> DEFINE V == {None, "ok", "failed", "exhausted"}
<1>1. dlv \in [Pairs -> [1 .. Attempts -> V]] /\ unsaved \subseteq Pairs
  BY DEF TypeOK
<1>2. CASE Fine /\ dlv' = [dlv EXCEPT ![x][k] = v] /\ UNCHANGED unsaved
  <2> DEFINE row == [dlv[x] EXCEPT ![k] = v]
  <2>1. row \in [1 .. Attempts -> V] /\ \A j \in 1 .. Attempts : row[j] = IF j = k THEN v ELSE dlv[x][j]
    BY <1>1
  <2>2. dlv' = [dlv EXCEPT ![x] = row]
    BY <1>2
  <2> HIDE DEF row
  <2>3. dlv' \in [Pairs -> [1 .. Attempts -> V]]
    BY <1>1, <2>1, <2>2
  <2>4. dlv'[x] = row /\ \A y \in Pairs : y # x => dlv'[y] = dlv[y]
    BY <1>1, <2>2
  <2> QED
    BY <1>1, <1>2, <2>1, <2>3, <2>4
<1>3. CASE Fault /\ unsaved' = unsaved \cup {x} /\ UNCHANGED dlv
  BY <1>1, <1>3
<1> QED
  BY <1>2, <1>3 DEF recordDelivery

LEMMA NextTypeOK == TypeOK /\ [Next]_vars => TypeOK'
<1> SUFFICES ASSUME TypeOK, [Next]_vars PROVE TypeOK'
  OBVIOUS
<1>d. 0 \notin Events /\ Events \subseteq Nat
  BY DEF Events
<1> USE DEF bus, trimming, dispatch, actions, live
<1>1. CASE Emit
  <2>1. info' \in [Events -> Info \cup {None}] /\ stamped' \subseteq Events
    BY <1>1, Stamps DEF Emit
  <2> QED
    BY <1>1, <2>1, BoundsTyped DEF Emit, TypeOK
<1>2. ASSUME NEW e \in Events, Enqueue(e) PROVE TypeOK'
  <2>1. queue' \in Seq(Events) /\ Len(queue') <= QueueCap
    BY <1>2 DEF Enqueue, TypeOK
  <2> QED
    BY <1>2, <2>1, BoundsTyped DEF Enqueue, TypeOK
<1>3. CASE Take
  <2>1. cur' \in Events /\ queue' \in Seq(Events) /\ Len(queue') <= QueueCap
    BY <1>3 DEF Take, TypeOK
  <2> QED
    BY <1>3, <2>1, BoundsTyped DEF Take, TypeOK
<1>4. CASE FanOut
  <2>1. ch' \in Seq(Events) /\ Len(ch') <= ChanCap
    BY <1>4 DEF FanOut, TypeOK
  <2>2. pos' \in [Events -> 0 .. HandleDone]
    BY <1>4 DEF FanOut, TypeOK, HandleDone
  <2> QED
    BY <1>4, <2>1, <2>2, BoundsTyped DEF FanOut, TypeOK
<1>5. CASE AddSink
  BY <1>5, BoundsTyped DEF AddSink, TypeOK
<1>6. CASE TrimTick
  BY <1>6, BoundsTyped DEF TrimTick, Idle, TypeOK
<1>7. ASSUME NEW p \in Projects, TrimCount(p) PROVE TypeOK'
  <2>1. Cardinality(log \cap In(p)) \in Nat
    BY FiniteEvents DEF In
  <2>2. trim' \in [todo : SUBSET Projects, p : Projects \cup {None}, n : Nat]
    BY <1>7, <2>1 DEF TrimCount, TypeOK
  <2> QED
    BY <1>7, <2>2, BoundsTyped DEF TrimCount, TypeOK
<1>8. CASE TrimDelete
  BY <1>8, BoundsTyped DEF TrimDelete, TypeOK
<1>9. ASSUME NEW p \in Projects, DeleteProject(p) PROVE TypeOK'
  BY <1>9, BoundsTyped DEF DeleteProject, TypeOK
<1>10. ASSUME NEW r \in Rules, NEW b \in Bodies, PutRule(r, b) PROVE TypeOK'
  BY <1>10, BoundsTyped DEF PutRule, TypeOK, Rule
<1>11. ASSUME NEW r \in Rules, GetRule(r) \/ ToggleRule(r) PROVE TypeOK'
  <2>0. rules \in [Rules -> Rule \cup {None}] /\ form \in [Rules -> Rule \cup {None}]
    BY DEF TypeOK
  <2>1. CASE GetRule(r)
    <3>1. form' \in [Rules -> Rule \cup {None}]
      BY <2>0, <2>1 DEF GetRule
    <3> QED
      BY <2>1, <3>1, BoundsTyped DEF GetRule, TypeOK
  <2>2. CASE ToggleRule(r)
    <3>1. form[r] \in Rule
      BY <2>0, <2>2 DEF ToggleRule
    <3>2. [form[r] EXCEPT !.enabled = ~@] \in Rule
      BY <3>1 DEF Rule
    <3>3. rules' \in [Rules -> Rule \cup {None}] /\ form' \in [Rules -> Rule \cup {None}]
      BY <2>0, <2>2, <3>2 DEF ToggleRule
    <3> QED
      BY <2>2, <3>3, BoundsTyped DEF ToggleRule, TypeOK
  <2> QED
    BY <1>11, <2>1, <2>2
<1>12. ASSUME NEW r \in Rules, DeleteRule(r) PROVE TypeOK'
  BY <1>12, BoundsTyped DEF DeleteRule, TypeOK
<1>13. ASSUME NEW e \in Events, ListRules(e) PROVE TypeOK'
  <2>a. 2 \in 0 .. HandleDone /\ HandleDone \in 0 .. HandleDone
    BY DEF HandleDone
  <2>1. pos' \in [Events -> 0 .. HandleDone]
    BY <1>13, <2>a DEF ListRules, TypeOK
  <2>2. copy' \in [Events -> [Rules -> Rule \cup {None}]]
    BY <1>13 DEF ListRules, TypeOK
  <2> QED
    BY <1>13, <2>1, <2>2, BoundsTyped DEF ListRules, TypeOK
<1>14. ASSUME NEW e \in Events, HandleRule(e) PROVE TypeOK'
  <2>1. PICK r \in Rules :
           /\ pos[e] = r + 1 /\ pos' = [pos EXCEPT ![e] = @ + 1]
           /\ \/ Selects(copy[e][r], info[e]) /\ Fire(e, r)
              \/ /\ ~Selects(copy[e][r], info[e]) /\ Fine
                 /\ UNCHANGED <<rules, fires, try, invoking>>
           /\ UNCHANGED <<bus, trimming, form, copy, dlv, unsaved, live, lost>>
    BY <1>14 DEF HandleRule
  <2>2. pos' \in [Events -> 0 .. HandleDone]
    BY <2>1 DEF TypeOK, HandleDone, Rules
  <2>3. CASE ~Selects(copy[e][r], info[e]) /\ Fine /\ UNCHANGED <<rules, fires, try, invoking>>
    BY <2>1, <2>2, <2>3, BoundsTyped DEF TypeOK
  <2>4. CASE Selects(copy[e][r], info[e]) /\ Fire(e, r)
    <3>1. copy[e][r] \in Rule
      BY <2>4 DEF Selects, TypeOK
    <3>2. rules' \in [Rules -> Rule \cup {None}]
      <4>1. [copy[e][r] EXCEPT !.fired = @ + 1] \in Rule
        BY <3>1 DEF Rule
      <4>2. rules \in [Rules -> Rule \cup {None}]
        BY DEF TypeOK
      <4> QED
        BY <2>4, <4>1, <4>2 DEF Fire
    <3>3. fires' \in [Rules -> Nat]
      <4>1. fires' = [fires EXCEPT ![r] = @ + 1] /\ fires \in [Rules -> Nat]
        BY <2>4 DEF Fire, TypeOK
      <4> QED
        BY <4>1
    <3>4. try' \in [Pairs -> 0 .. DeliveryDone]
      <4>1. /\ try' = [try EXCEPT ![<<r, e>>] = 1] \/ try' = try
            /\ try \in [Pairs -> 0 .. DeliveryDone]
        BY <2>4 DEF Fire, TypeOK
      <4>2. 1 \in 0 .. DeliveryDone /\ <<r, e>> \in Pairs
        BY DEF DeliveryDone, Pairs
      <4> QED
        BY <4>1, <4>2
    <3>5. invoking' \subseteq Pairs
      <4>1. invoking' = invoking \cup {<<r, e>>} \/ invoking' = invoking
        BY <2>4 DEF Fire
      <4>2. invoking \subseteq Pairs /\ <<r, e>> \in Pairs
        BY DEF TypeOK, Pairs
      <4> QED
        BY <4>1, <4>2
    <3>6. Fine \/ Fault
      BY <2>4 DEF Fire
    <3> QED
      BY <2>1, <2>2, <3>2, <3>3, <3>4, <3>5, <3>6, BoundsTyped DEF TypeOK
  <2> QED
    BY <2>1, <2>3, <2>4
<1>15. ASSUME NEW x \in Pairs, Deliver(x) \/ Exhausted(x) PROVE TypeOK'
  <2>1. try' \in [Pairs -> 0 .. DeliveryDone]
    <3>1. try \in [Pairs -> 0 .. DeliveryDone]
      BY DEF TypeOK
    <3>2. try[x] \in 1 .. Attempts => try[x] + 1 \in 0 .. DeliveryDone
      BY <3>1 DEF DeliveryDone
    <3>3. DeliveryDone \in 0 .. DeliveryDone /\ Attempts + 1 \in 0 .. DeliveryDone
      BY DEF DeliveryDone
    <3> QED
      BY <1>15, <3>1, <3>2, <3>3 DEF Deliver, Exhausted
  <2>2. /\ dlv' \in [Pairs -> [1 .. Attempts -> {None, "ok", "failed", "exhausted"}]]
        /\ unsaved' \subseteq Pairs /\ (Fine \/ Fault)
    <3>1. Attempts \in 1 .. Attempts
      OBVIOUS
    <3>2. CASE Deliver(x)
      BY <3>2, Recorded DEF Deliver, TypeOK
    <3>3. CASE Exhausted(x)
      BY <3>1, <3>3, Recorded DEF Exhausted
    <3> QED
      BY <1>15, <3>2, <3>3
  <2> QED
    BY <1>15, <2>1, <2>2, BoundsTyped DEF Deliver, Exhausted, TypeOK
<1>16. ASSUME NEW x \in Pairs, Invoke(x) PROVE TypeOK'
  <2>1. info' \in [Events -> Info \cup {None}] /\ stamped' \subseteq Events
    <3>1. [project |-> Home, kind |-> Invoked] \in Info
      BY DEF Info
    <3>2. CASE UNCHANGED <<info, stamped>>
      BY <3>2 DEF TypeOK
    <3> QED
      BY <1>16, <3>1, <3>2, Stamps DEF Invoke
  <2> QED
    BY <1>16, <2>1, BoundsTyped DEF Invoke, TypeOK
<1>17. ASSUME NEW p \in Projects, TailOpen(p) PROVE TypeOK'
  <2>1. seen' \in Seq(Events)
    <3> DEFINE S == Latest(log \cap In(p), Backlog)
    <3>1. S \in SUBSET Events
      BY DEF Latest, In
    <3>2. Ascending(S) \in Seq(Events)
      BY <3>1, AscendingIn, SeqMonotonic
    <3> QED
      BY <1>17, <3>2 DEF TailOpen
  <2> QED
    BY <1>17, <2>1, BoundsTyped DEF TailOpen, TypeOK
<1>18. CASE TailSubscribe
  BY <1>18, BoundsTyped DEF TailSubscribe, TypeOK
<1>19. CASE TailSend
  <2>1. ch' \in Seq(Events) /\ Len(ch') <= ChanCap /\ seen' \in Seq(Events)
    BY <1>19 DEF TailSend, TypeOK
  <2> QED
    BY <1>19, <2>1, BoundsTyped DEF TailSend, TypeOK
<1>20. CASE TailClose
  BY <1>20, BoundsTyped, SMTT(30) DEF TailClose, Closed, TypeOK
<1>21. CASE Crash
  <2>1. lost' \subseteq Events
    BY <1>21 DEF Crash, InMemory, TypeOK, Range
  <2>2. pos' \in [Events -> 0 .. HandleDone] /\ try' \in [Pairs -> 0 .. DeliveryDone]
    BY <1>21 DEF Crash, HandleDone, DeliveryDone
  <2>3. /\ trim' \in [todo : SUBSET Projects, p : Projects \cup {None}, n : Nat]
        /\ tail' \in [at : {"closed", "listed", "live"}, p : Projects]
    BY <1>21 DEF Crash, Idle, Closed
  <2> QED
    <3>1. /\ queue' \in Seq(Events) /\ ch' \in Seq(Events) /\ seen' \in Seq(Events)
          /\ Len(queue') <= QueueCap /\ Len(ch') <= ChanCap /\ stamped' \subseteq Events
          /\ cur' \in Events \cup {0} /\ invoking' \subseteq Pairs
      BY <1>21 DEF Crash
    <3>2. sink' \in BOOLEAN
      BY <1>21 DEF Crash
    <3>3. Fault
      BY <1>21 DEF Crash
    <3>4. UNCHANGED <<info, log, logged, unlogged, projects, rules, form, copy, fires,
                      dlv, unsaved>>
      BY <1>21 DEF Crash
    <3> QED
      BY <2>1, <2>2, <2>3, <3>1, <3>2, <3>3, <3>4, BoundsTyped DEF TypeOK
<1>22. CASE UNCHANGED vars
  BY <1>22 DEF vars, bounds, TypeOK
<1> QED
  BY <1>1, <1>2, <1>3, <1>4, <1>5, <1>6, <1>7, <1>8, <1>9, <1>10, <1>11, <1>12, <1>13,
     <1>14, <1>15, <1>16, <1>17, <1>18, <1>19, <1>20, <1>21, <1>22 DEF Next, Running, Calls

\* Every variable keeps its type; among it that the log holds only what was
\* logged, that the queue and the tail's channel stay within their
\* capacities, and that a backlog is a sequence of events.
THEOREM EventsTyped == Spec => []TypeOK
<1> QED
  BY InitTypeOK, NextTypeOK, PTL DEF Spec

----------------------------------------------------------------------------
(* The counters of the rules. *)

\* A copy a dispatcher goroutine works on or a client holds counts no more
\* than has fired either.
CopyInv ==
    /\ \A e \in Events, r \in Rules : copy[e][r] # None => copy[e][r].fired <= fires[r]
    /\ \A r \in Rules : form[r] # None => form[r].fired <= fires[r]

\* Which steps touch the rules, their copies and the counts.
LEMMA RuleFrame ==
    ASSUME [Next]_vars
    PROVE  \/ \E r \in Rules :
                 GetRule(r) \/ ToggleRule(r) \/ DeleteRule(r) \/ \E b \in Bodies : PutRule(r, b)
           \/ \E e \in Events : ListRules(e) \/ HandleRule(e)
           \/ UNCHANGED <<rules, form, copy, fires>>
<1> USE DEF dispatch
<1>1. CASE Running
  BY <1>1 DEF Running, Enqueue, Deliver, Exhausted, Invoke, Take, FanOut, AddSink, TrimTick,
              TrimDelete, TrimCount, TailSubscribe, TailSend
<1>2. CASE Calls
  BY <1>2 DEF Calls, Emit, TailClose, DeleteProject, TailOpen
<1>3. CASE Crash
  BY <1>3 DEF Crash
<1>4. CASE UNCHANGED vars
  BY <1>4 DEF vars
<1> QED
  BY <1>1, <1>2, <1>3, <1>4 DEF Next

LEMMA NextFireCount ==
    TypeOK /\ FireCountSound /\ CopyInv /\ [Next]_vars => FireCountSound' /\ CopyInv'
<1> SUFFICES ASSUME TypeOK, FireCountSound, CopyInv, [Next]_vars
             PROVE  FireCountSound' /\ CopyInv'
  OBVIOUS
<1>0. /\ rules \in [Rules -> Rule \cup {None}] /\ fires \in [Rules -> Nat]
      /\ copy \in [Events -> [Rules -> Rule \cup {None}]]
      /\ form \in [Rules -> Rule \cup {None}]
  BY DEF TypeOK
<1>1. ASSUME NEW r \in Rules, NEW b \in Bodies, PutRule(r, b) PROVE FireCountSound' /\ CopyInv'
  BY <1>0, <1>1 DEF PutRule, FireCountSound, CopyInv
<1>2. ASSUME NEW r \in Rules, ToggleRule(r) PROVE FireCountSound' /\ CopyInv'
  <2>1. form[r] \in Rule /\ form[r].fired <= fires[r]
    BY <1>0, <1>2 DEF ToggleRule, CopyInv
  <2>2. rules'[r].fired = form[r].fired
    BY <1>0, <1>2, <2>1 DEF ToggleRule, Rule
  <2>3. \A q \in Rules : q # r => rules'[q] = rules[q] /\ form'[q] = form[q]
    BY <1>0, <1>2 DEF ToggleRule
  <2>4. form'[r] = None /\ UNCHANGED <<copy, fires>>
    BY <1>0, <1>2 DEF ToggleRule
  <2> QED
    BY <2>1, <2>2, <2>3, <2>4 DEF FireCountSound, CopyInv
<1>7. ASSUME NEW r \in Rules, GetRule(r) PROVE FireCountSound' /\ CopyInv'
  BY <1>0, <1>7 DEF GetRule, FireCountSound, CopyInv
<1>3. ASSUME NEW r \in Rules, DeleteRule(r) PROVE FireCountSound' /\ CopyInv'
  BY <1>0, <1>3 DEF DeleteRule, FireCountSound, CopyInv
<1>4. ASSUME NEW e \in Events, ListRules(e) PROVE FireCountSound' /\ CopyInv'
  <2>1. rules' = rules /\ fires' = fires /\ form' = form
    BY <1>4 DEF ListRules
  <2>2. \A f \in Events : copy'[f] \in {copy[f], rules}
    BY <1>0, <1>4 DEF ListRules
  <2> QED
    BY <2>1, <2>2 DEF FireCountSound, CopyInv
<1>5. ASSUME NEW e \in Events, HandleRule(e) PROVE FireCountSound' /\ CopyInv'
  <2>1. PICK r \in Rules :
           /\ copy' = copy /\ form' = form
           /\ \/ Selects(copy[e][r], info[e]) /\ Fire(e, r)
              \/ UNCHANGED <<rules, fires>>
    BY <1>5 DEF HandleRule
  <2>2. CASE UNCHANGED <<rules, fires>>
    BY <2>1, <2>2 DEF FireCountSound, CopyInv
  <2>3. CASE Selects(copy[e][r], info[e]) /\ Fire(e, r)
    <3>1. copy[e][r] \in Rule /\ copy[e][r].fired <= fires[r] /\ copy[e][r].fired \in Nat
      BY <1>0, <2>3 DEF Selects, CopyInv, Rule
    <3>2. fires' = [fires EXCEPT ![r] = @ + 1]
      BY <2>3 DEF Fire
    <3>3. \A q \in Rules : fires[q] \in Nat /\ fires'[q] \in Nat /\ fires[q] <= fires'[q]
      BY <1>0, <3>2
    <3>4. fires'[r] = fires[r] + 1
      BY <1>0, <3>2
    <3>5. ASSUME NEW c \in Rule, NEW q \in Rules, c.fired <= fires[q] PROVE c.fired <= fires'[q]
      <4>1. c.fired \in Nat
        BY DEF Rule
      <4> QED
        BY <3>3, <3>5, <4>1
    <3>6. CopyInv'
      <4>1. ASSUME NEW f \in Events, NEW q \in Rules, copy'[f][q] # None
            PROVE  copy'[f][q].fired <= fires'[q]
        <5>1. copy[f][q] \in Rule /\ copy[f][q].fired <= fires[q]
          BY <1>0, <2>1, <4>1 DEF CopyInv
        <5> QED
          BY <2>1, <3>5, <5>1
      <4>2. ASSUME NEW q \in Rules, form'[q] # None PROVE form'[q].fired <= fires'[q]
        <5>1. form[q] \in Rule /\ form[q].fired <= fires[q]
          BY <1>0, <2>1, <4>2 DEF CopyInv
        <5> QED
          BY <2>1, <3>5, <5>1
      <4> QED
        BY <4>1, <4>2 DEF CopyInv
    <3>7. ASSUME NEW q \in Rules, rules'[q] = rules[q], rules[q] # None
          PROVE  rules'[q].fired <= fires'[q]
      <4>1. rules[q] \in Rule /\ rules[q].fired <= fires[q]
        BY <1>0, <3>7 DEF FireCountSound
      <4> QED
        BY <3>5, <3>7, <4>1
    <3>8. CASE rules' = rules
      BY <3>6, <3>8, <3>7 DEF FireCountSound
    <3>9. CASE rules' = [rules EXCEPT ![r] = [copy[e][r] EXCEPT !.fired = @ + 1]]
      <4>1. rules'[r].fired = copy[e][r].fired + 1
        BY <1>0, <3>1, <3>9 DEF Rule
      <4>2. \A q \in Rules : q # r => rules'[q] = rules[q]
        BY <1>0, <3>9
      <4>3. rules'[r].fired <= fires'[r]
        BY <3>1, <3>3, <3>4, <4>1
      <4> QED
        BY <3>6, <3>7, <4>2, <4>3 DEF FireCountSound
    <3> QED
      BY <2>3, <3>8, <3>9 DEF Fire
  <2> QED
    BY <2>1, <2>2, <2>3
<1>6. CASE UNCHANGED <<rules, form, copy, fires>>
  BY <1>6 DEF FireCountSound, CopyInv
<1> QED
  BY <1>1, <1>2, <1>3, <1>4, <1>5, <1>6, <1>7, RuleFrame

\* A rule's counter never exceeds the times it fired, whatever stale copies
\* the dispatcher's goroutines and the clients write back (dispatcher.go:81-86,
\* events.go:35-60).
THEOREM FireCountSoundHolds == Spec => []FireCountSound
<1>1. Init => FireCountSound /\ CopyInv
  BY DEF Init, FireCountSound, CopyInv
<1> QED
  BY <1>1, NextFireCount, InitTypeOK, NextTypeOK, PTL DEF Spec

----------------------------------------------------------------------------
(* Persist first. *)

CurInv == cur # 0 => cur \in logged \cup unlogged

LEMMA NextPersist ==
    TypeOK /\ PersistFirst /\ CurInv /\ [Next]_vars => PersistFirst' /\ CurInv'
<1> SUFFICES ASSUME TypeOK, PersistFirst, CurInv, [Next]_vars
             PROVE  PersistFirst' /\ CurInv'
  OBVIOUS
<1> DEFINE offered == logged \cup unlogged
<1>0. /\ pos \in [Events -> 0 .. HandleDone] /\ queue \in Seq(Events)
      /\ ch \in Seq(Events) /\ seen \in Seq(Events) /\ log \subseteq logged
  BY DEF TypeOK
\* A step that takes nothing back and shows nothing new.
<1>1. ASSUME logged \subseteq logged', unlogged \subseteq unlogged',
             cur' \in {0, cur},
             \A e \in Events : pos'[e] # 0 => pos[e] # 0 \/ e = cur,
             Range(ch') \subseteq Range(ch) \cup ({cur} \ {0}),
             Range(seen') \subseteq Range(seen) \cup Range(ch) \cup logged
      PROVE  PersistFirst' /\ CurInv'
  <2>1. \A e \in Events : pos[e] # 0 \/ e \in Range(ch) \/ e \in Range(seen) => e \in offered
    BY DEF PersistFirst
  <2>2. cur # 0 => cur \in offered
    BY DEF CurInv
  <2>3. offered \subseteq logged' \cup unlogged'
    BY <1>1
  <2>4. 0 \notin Events
    BY DEF Events
  <2>5. ASSUME NEW e \in Events, pos'[e] # 0 \/ e \in Range(ch') \/ e \in Range(seen')
        PROVE  e \in logged' \cup unlogged'
    BY <1>1, <2>1, <2>2, <2>3, <2>4, <2>5
  <2>6. CurInv'
    BY <1>1, <2>2, <2>3 DEF CurInv
  <2> QED
    BY <2>5, <2>6 DEF PersistFirst
<1> USE DEF bus, trimming, dispatch, actions, live
<1>2. CASE Take
  <2>1. cur' \in logged' \cup unlogged' /\ logged \subseteq logged' /\ unlogged \subseteq unlogged'
    BY <1>2 DEF Take
  <2>2. pos' = pos /\ ch' = ch /\ seen' = seen
    BY <1>2 DEF Take
  <2> QED
    BY <2>1, <2>2 DEF PersistFirst, CurInv
<1>3. CASE FanOut
  <2>1. logged' = logged /\ unlogged' = unlogged /\ cur' = 0 /\ seen' = seen
    BY <1>3 DEF FanOut
  <2>2. \A e \in Events : pos'[e] # 0 => pos[e] # 0 \/ e = cur
    BY <1>0, <1>3 DEF FanOut
  <2>3. Range(ch') \subseteq Range(ch) \cup ({cur} \ {0})
    BY <1>0, <1>3 DEF FanOut, Range
  <2> QED
    BY <1>1, <2>1, <2>2, <2>3
<1>4. ASSUME NEW p \in Projects, TailOpen(p) PROVE PersistFirst' /\ CurInv'
  <2> DEFINE S == Latest(log \cap In(p), Backlog)
  <2>1. S \in SUBSET Events /\ S \subseteq logged
    BY <1>0 DEF Latest, In
  <2>2. Range(seen') \subseteq logged
    BY <1>4, <2>1, AscendingIn DEF TailOpen
  <2>3. logged' = logged /\ unlogged' = unlogged /\ cur' = cur /\ pos' = pos /\ ch' = ch
    BY <1>4 DEF TailOpen
  <2> QED
    BY <1>1, <2>2, <2>3
<1>5. CASE TailSend
  <2>1. Range(ch') \subseteq Range(ch) /\ Range(seen') \subseteq Range(seen) \cup Range(ch)
    <3>1. ch # <<>> /\ ch' = Tail(ch) /\ seen' = Append(seen, Head(ch))
      BY <1>5 DEF TailSend
    <3>2. /\ Len(ch) \in Nat \ {0} /\ Len(ch') = Len(ch) - 1 /\ ch' \in Seq(Events)
          /\ \A i \in 1 .. Len(ch') : i + 1 \in 1 .. Len(ch) /\ ch'[i] = ch[i + 1]
      BY <1>0, <3>1
    <3>3. Range(ch') \subseteq Range(ch)
      <4> SUFFICES ASSUME NEW i \in 1 .. Len(ch') PROVE ch'[i] \in Range(ch)
        BY <3>2, RangeOfEvents
      <4> QED
        BY <1>0, <3>2, RangeOfEvents
    <3>4. /\ Len(seen') = Len(seen) + 1 /\ seen' \in Seq(Events) /\ Len(seen) \in Nat
          /\ \A i \in 1 .. Len(seen) : seen'[i] = seen[i]
          /\ seen'[Len(seen) + 1] = ch[1]
      BY <1>0, <3>1, <3>2
    <3>5. ASSUME NEW i \in 1 .. Len(seen') PROVE seen'[i] \in Range(seen) \cup Range(ch)
      <4>1. CASE i \in 1 .. Len(seen)
        <5>1. seen'[i] = seen[i]
          BY <3>4, <4>1
        <5> QED
          BY <1>0, <4>1, <5>1, RangeOfEvents
      <4>2. CASE i = Len(seen) + 1
        <5>1. seen'[i] = ch[1] /\ 1 \in 1 .. Len(ch)
          BY <3>2, <3>4, <4>2
        <5> QED
          BY <1>0, <5>1, RangeOfEvents
      <4> QED
        BY <3>4, <4>1, <4>2
    <3>6. Range(seen') \subseteq Range(seen) \cup Range(ch)
      BY <3>4, <3>5, RangeOfEvents
    <3> QED
      BY <3>3, <3>6
  <2>2. logged' = logged /\ unlogged' = unlogged /\ cur' = cur /\ pos' = pos
    BY <1>5 DEF TailSend
  <2> QED
    BY <1>1, <2>1, <2>2
<1>6. CASE TailClose \/ Crash
  <2>1. Range(ch') = {} /\ Range(seen') = {}
    BY <1>6 DEF TailClose, Crash, Range
  <2>2. logged' = logged /\ unlogged' = unlogged /\ cur' \in {0, cur}
    BY <1>6 DEF TailClose, Crash
  <2>3. \A e \in Events : pos'[e] # 0 => pos[e] # 0
    BY <1>0, <1>6 DEF TailClose, Crash, HandleDone
  <2> QED
    BY <1>1, <2>1, <2>2, <2>3
<1>7. ASSUME NEW e \in Events, ListRules(e) \/ HandleRule(e) PROVE PersistFirst' /\ CurInv'
  <2>1. /\ logged' = logged /\ unlogged' = unlogged /\ cur' = cur /\ ch' = ch /\ seen' = seen
        /\ pos[e] # 0
    BY <1>7 DEF ListRules, HandleRule, Rules
  <2>2. \A f \in Events : f # e => pos'[f] = pos[f]
    BY <1>0, <1>7 DEF ListRules, HandleRule
  <2> QED
    BY <1>1, <2>1, <2>2
<1>8. CASE UNCHANGED <<logged, unlogged, cur, pos, ch, seen>>
  BY <1>1, <1>8
<1>9. CASE Running
  BY <1>2, <1>3, <1>5, <1>7, <1>8, <1>9
     DEF Running, Enqueue, Deliver, Exhausted, Invoke, AddSink, TrimTick, TrimDelete,
         TrimCount, TailSubscribe
<1>10. CASE Calls
  BY <1>4, <1>6, <1>8, <1>10
     DEF Calls, Emit, DeleteProject, GetRule, ToggleRule, DeleteRule, PutRule
<1>11. CASE UNCHANGED vars
  BY <1>8, <1>11 DEF vars
<1> QED
  BY <1>6, <1>9, <1>10, <1>11 DEF Next

\* The dispatcher and the live tail see no event before the bus has offered
\* it to the log (bus.go:127-128).
THEOREM PersistFirstHolds == Spec => []PersistFirst
<1>1. Init => PersistFirst /\ CurInv
  BY DEF Init, PersistFirst, CurInv, Range
<1> QED
  BY <1>1, NextPersist, InitTypeOK, NextTypeOK, PTL DEF Spec

----------------------------------------------------------------------------
(* Every event goes through the bus once. *)

InQueue(e) == \E i \in 1 .. Len(queue) : queue[i] = e
InPipe(e) == e \in stamped \/ InQueue(e) \/ cur = e

\* An event on its way to the dispatcher is in one place and has not been
\* there before.
PipeInv ==
    /\ \A e \in Events : InPipe(e) => info[e] # None /\ pos[e] = 0
    /\ \A e \in Events : pos[e] # 0 \/ e \in logged => info[e] # None
    /\ \A e \in stamped : cur # e /\ ~InQueue(e)
    /\ ~InQueue(cur)
    /\ \A i, j \in 1 .. Len(queue) : queue[i] = queue[j] => i = j

LEMMA InitPipeInv == Init => PipeInv
<1> SUFFICES ASSUME Init PROVE PipeInv
  OBVIOUS
<1>1. stamped = {} /\ Len(queue) = 0 /\ cur = 0
  BY DEF Init
<1>2. \A e \in Events : ~InPipe(e) /\ pos[e] = 0 /\ e \notin logged
  BY <1>1 DEF InPipe, InQueue, Init, Events
<1> QED
  BY <1>1, <1>2 DEF PipeInv, InQueue

\* Which steps touch what these invariants are about.
LEMMA PipeFrame ==
    ASSUME [Next]_vars
    PROVE  \/ /\ \E i \in Info : Stamp(i)
              /\ UNCHANGED <<queue, cur, pos, log, logged, try, dlv, unsaved, trim>>
           \/ \E e \in Events : Enqueue(e) \/ ListRules(e) \/ HandleRule(e)
           \/ \E x \in Pairs : Deliver(x) \/ Exhausted(x)
           \/ Take \/ FanOut \/ Crash \/ TrimTick \/ TrimDelete
           \/ \E p \in Projects : TrimCount(p)
           \/ UNCHANGED <<info, stamped, queue, cur, pos, log, logged, try, dlv, unsaved, trim>>
<1> USE DEF bus, dispatch, actions, trimming
<1>1. CASE Running
  <2>1. [project |-> Home, kind |-> Invoked] \in Info
    BY DEF Info
  <2>2. ASSUME NEW x \in Pairs, Invoke(x)
        PROVE  \/ /\ \E i \in Info : Stamp(i)
                  /\ UNCHANGED <<queue, cur, pos, log, logged, try, dlv, unsaved, trim>>
               \/ UNCHANGED <<info, stamped, queue, cur, pos, log, logged, try, dlv, unsaved, trim>>
    BY <2>1, <2>2 DEF Invoke
  <2> QED
    BY <1>1, <2>2 DEF Running, AddSink, TailSubscribe, TailSend
<1>2. CASE Calls
  BY <1>2 DEF Calls, Emit, TailClose, DeleteProject, TailOpen, GetRule, ToggleRule, DeleteRule,
              PutRule
<1>3. CASE UNCHANGED vars
  BY <1>3 DEF vars
<1> QED
  BY <1>1, <1>2, <1>3 DEF Next

LEMMA NextPipeInv == TypeOK /\ PipeInv /\ [Next]_vars => PipeInv'
<1> SUFFICES ASSUME TypeOK, PipeInv, [Next]_vars PROVE PipeInv'
  OBVIOUS
<1>0. /\ info \in [Events -> Info \cup {None}] /\ stamped \subseteq Events
      /\ queue \in Seq(Events) /\ cur \in Events \cup {0}
      /\ pos \in [Events -> 0 .. HandleDone] /\ logged \subseteq Events
      /\ Len(queue) \in Nat /\ \A i \in 1 .. Len(queue) : queue[i] \in Events
  BY DEF TypeOK
<1>z. 0 \notin Events
  BY DEF Events
<1>1. ASSUME NEW i \in Info, Stamp(i), UNCHANGED <<queue, cur, pos, logged>> PROVE PipeInv'
  <2>1. PICK e \in Events : info[e] = None /\ info' = [info EXCEPT ![e] = i] /\ stamped' = stamped \cup {e}
    BY <1>1, Stamps
  <2>2. i # None /\ ~InPipe(e) /\ pos[e] = 0 /\ e \notin logged
    BY <2>1 DEF PipeInv
  <2>3. \A f \in Events : info'[f] = IF f = e THEN i ELSE info[f]
    BY <1>0, <2>1
  <2>4. \A f : InQueue(f)' <=> InQueue(f)
    BY <1>1 DEF InQueue
  <2>5. \A f \in Events : InPipe(f)' => InPipe(f) \/ f = e
    BY <1>1, <2>1, <2>4 DEF InPipe
  <2>6. \A f \in Events : InPipe(f)' => info'[f] # None /\ pos'[f] = 0
    BY <1>1, <2>2, <2>3, <2>5 DEF PipeInv
  <2>7. \A f \in Events : pos'[f] # 0 \/ f \in logged' => info'[f] # None
    BY <1>1, <2>2, <2>3 DEF PipeInv
  <2>8. \A f \in stamped' : cur' # f /\ ~InQueue(f)'
    BY <1>1, <2>1, <2>2, <2>4 DEF PipeInv, InPipe
  <2>9. ~InQueue(cur)' /\ \A k, j \in 1 .. Len(queue') : queue'[k] = queue'[j] => k = j
    BY <1>1 DEF PipeInv, InQueue
  <2> QED
    BY <2>6, <2>7, <2>8, <2>9 DEF PipeInv
<1>2. ASSUME NEW e \in Events, Enqueue(e) PROVE PipeInv'
  <2>1. /\ e \in stamped /\ stamped' = stamped \ {e}
        /\ UNCHANGED <<info, cur, pos, logged>>
    BY <1>2 DEF Enqueue, dispatch
  <2>2. ~InQueue(e) /\ cur # e
    BY <2>1 DEF PipeInv
  <2>3. queue' = queue \/ queue' = Append(queue, e)
    BY <1>2 DEF Enqueue
  <2>4. CASE queue' = queue
    <3>1. \A f : InQueue(f)' <=> InQueue(f)
      BY <2>4 DEF InQueue
    <3>2. \A f : InPipe(f)' => InPipe(f)
      BY <2>1, <3>1 DEF InPipe
    <3> QED
      BY <2>1, <2>4, <3>1, <3>2 DEF PipeInv, InQueue
  <2>5. CASE queue' = Append(queue, e)
    <3>1. /\ Len(queue') = Len(queue) + 1 /\ queue'[Len(queue) + 1] = e
          /\ \A j \in 1 .. Len(queue) : queue'[j] = queue[j]
      BY <1>0, <2>5
    <3>2. \A f : InQueue(f)' => InQueue(f) \/ f = e
      <4> SUFFICES ASSUME NEW f, NEW j \in 1 .. Len(queue'), queue'[j] = f, f # e
                   PROVE  InQueue(f)
        BY DEF InQueue
      <4>1. j \in 1 .. Len(queue) /\ queue[j] = f
        BY <1>0, <3>1
      <4> QED
        BY <4>1 DEF InQueue
    <3>3. \A f : InPipe(f)' => InPipe(f)
      BY <2>1, <3>2 DEF InPipe
    <3>4. \A f \in stamped' : cur' # f /\ ~InQueue(f)'
      BY <2>1, <3>2 DEF PipeInv
    <3>5. ~InQueue(cur)'
      <4>1. ASSUME NEW j \in 1 .. Len(queue'), queue'[j] = cur PROVE FALSE
        <5>1. j \in 1 .. Len(queue) \/ j = Len(queue) + 1
          BY <1>0, <3>1
        <5>2. ~InQueue(cur)
          BY DEF PipeInv
        <5> QED
          BY <2>2, <3>1, <4>1, <5>1, <5>2 DEF InQueue
      <4> QED
        BY <2>1, <4>1 DEF InQueue
    <3>6. \A k, j \in 1 .. Len(queue') : queue'[k] = queue'[j] => k = j
      <4> SUFFICES ASSUME NEW k \in 1 .. Len(queue'), NEW j \in 1 .. Len(queue'),
                          queue'[k] = queue'[j]
                   PROVE  k = j
        OBVIOUS
      <4>1. /\ k \in 1 .. Len(queue) \/ k = Len(queue) + 1
            /\ j \in 1 .. Len(queue) \/ j = Len(queue) + 1
        BY <1>0, <3>1
      <4>2. \A i \in 1 .. Len(queue) : queue'[i] # e
        BY <2>2, <3>1 DEF InQueue
      <4>3. \A i, l \in 1 .. Len(queue) : queue[i] = queue[l] => i = l
        BY DEF PipeInv
      <4> QED
        BY <3>1, <4>1, <4>2, <4>3
    <3> QED
      BY <2>1, <3>3, <3>4, <3>5, <3>6 DEF PipeInv
  <2> QED
    BY <2>3, <2>4, <2>5
<1>3. CASE Take
  <2>1. /\ cur = 0 /\ queue # <<>> /\ cur' = queue[1] /\ queue' = Tail(queue)
        /\ UNCHANGED <<info, stamped, pos>> /\ logged' \subseteq logged \cup {cur'}
    BY <1>0, <1>3 DEF Take, dispatch
  <2>2. /\ Len(queue) > 0 /\ Len(queue') = Len(queue) - 1
        /\ \A j \in 1 .. Len(queue') : queue'[j] = queue[j + 1]
    BY <1>0, <2>1
  <2>3. InQueue(queue[1]) /\ queue[1] \in Events
    BY <1>0, <2>2 DEF InQueue
  <2>4. \A f : InQueue(f)' => InQueue(f) /\ f # queue[1]
    BY <1>0, <2>2, SMTT(30) DEF PipeInv, InQueue
  <2>5. \A f \in Events : InPipe(f)' => InPipe(f)
    BY <2>1, <2>3, <2>4 DEF InPipe
  <2>6. InPipe(queue[1])
    BY <2>3 DEF InPipe
  <2>7. \A f \in Events : pos'[f] # 0 \/ f \in logged' => info'[f] # None
    BY <2>1, <2>3, <2>6 DEF PipeInv
  <2>8. \A f \in stamped' : cur' # f /\ ~InQueue(f)'
    BY <2>1, <2>3, <2>4 DEF PipeInv
  <2>9. ~InQueue(cur)'
    BY <1>0, <2>1, <2>2 DEF PipeInv, InQueue
  <2>10. \A k, j \in 1 .. Len(queue') : queue'[k] = queue'[j] => k = j
    <3> SUFFICES ASSUME NEW k \in 1 .. Len(queue'), NEW j \in 1 .. Len(queue'),
                        queue'[k] = queue'[j]
                 PROVE  k = j
      OBVIOUS
    <3>1. k + 1 \in 1 .. Len(queue) /\ j + 1 \in 1 .. Len(queue) /\ queue[k + 1] = queue[j + 1]
      BY <1>0, <2>2, SMTT(30)
    <3>2. k + 1 = j + 1
      BY <3>1 DEF PipeInv
    <3> QED
      BY <3>2
  <2> QED
    BY <2>1, <2>5, <2>7, <2>8, <2>9, <2>10 DEF PipeInv
<1>4. CASE FanOut
  <2>1. /\ cur \in Events /\ cur' = 0 /\ UNCHANGED <<info, stamped, queue, logged>>
    BY <1>0, <1>4 DEF FanOut
  <2>2. \A f \in Events : pos'[f] # 0 => pos[f] # 0 \/ f = cur
    BY <1>0, <1>4 DEF FanOut
  <2>3. \A f \in Events : f # cur => pos'[f] = pos[f]
    BY <1>0, <1>4 DEF FanOut
  <2>4. \A f : InQueue(f)' <=> InQueue(f)
    BY <2>1 DEF InQueue
  <2>5. InPipe(cur)
    BY DEF InPipe
  <2>6. \A f \in Events : InPipe(f)' => InPipe(f) /\ f # cur
    BY <1>z, <2>1, <2>4 DEF InPipe, PipeInv
  <2>7. \A f \in Events : InPipe(f)' => info'[f] # None /\ pos'[f] = 0
    BY <2>1, <2>3, <2>6 DEF PipeInv
  <2>8. \A f \in Events : pos'[f] # 0 \/ f \in logged' => info'[f] # None
    BY <2>1, <2>2, <2>5 DEF PipeInv
  <2>9. \A f \in stamped' : cur' # f /\ ~InQueue(f)'
    BY <1>0, <1>z, <2>1, <2>4 DEF PipeInv
  <2>10. ~InQueue(cur)'
    BY <1>0, <1>z, <2>1 DEF InQueue
  <2> QED
    BY <2>1, <2>7, <2>8, <2>9, <2>10 DEF PipeInv
<1>5. ASSUME NEW e \in Events, ListRules(e) \/ HandleRule(e) PROVE PipeInv'
  <2>1. UNCHANGED <<info, stamped, queue, cur, logged>> /\ pos[e] # 0
    BY <1>5 DEF ListRules, HandleRule, Rules, bus
  <2>2. \A f \in Events : f # e => pos'[f] = pos[f]
    BY <1>0, <1>5 DEF ListRules, HandleRule
  <2>3. \A f : (InQueue(f)' <=> InQueue(f)) /\ (InPipe(f)' <=> InPipe(f))
    BY <2>1 DEF InQueue, InPipe
  <2>4. ~InQueue(cur)'
    BY <2>1 DEF PipeInv, InQueue
  <2> QED
    BY <2>1, <2>2, <2>3, <2>4 DEF PipeInv
<1>6. CASE Crash
  <2>1. stamped' = {} /\ Len(queue') = 0 /\ cur' = 0 /\ UNCHANGED <<info, logged>>
    BY <1>6 DEF Crash
  <2>2. \A f : f \in Events => ~InPipe(f)'
    BY <1>z, <2>1 DEF InPipe, InQueue
  <2>3. \A f \in Events : pos'[f] # 0 => pos[f] # 0
    BY <1>0, <1>6 DEF Crash, HandleDone
  <2>4. ~InQueue(cur)'
    BY <2>1 DEF InQueue
  <2> QED
    BY <2>1, <2>2, <2>3, <2>4 DEF PipeInv
<1>7. CASE UNCHANGED <<info, stamped, queue, cur, pos, logged>>
  <2>1. \A f : (InQueue(f)' <=> InQueue(f)) /\ (InPipe(f)' <=> InPipe(f))
    BY <1>7 DEF InQueue, InPipe
  <2>2. ~InQueue(cur)'
    BY <1>7 DEF PipeInv, InQueue
  <2> QED
    BY <1>7, <2>1, <2>2 DEF PipeInv
<1> QED
  BY <1>1, <1>2, <1>3, <1>4, <1>5, <1>6, <1>7, PipeFrame
     DEF Deliver, Exhausted, TrimTick, TrimDelete, TrimCount, bus, dispatch

----------------------------------------------------------------------------
(* Deliveries. *)

Begun(r, e) == try[<<r, e>>] # 0 \/ \E k \in 1 .. Attempts : dlv[<<r, e>>][k] # None

\* A rule starts a delivery of an event when Handle passes it, and no Handle
\* comes that way again: not of this run, and after a crash no other.
OnceInv ==
    \A r \in Rules, e \in Events :
       Begun(r, e) => info[e] # None /\ ~InPipe(e) /\ (pos[e] = 0 \/ pos[e] > r + 1)

SettledInv == \A x \in Pairs : Settled(x) => try[x] = DeliveryDone

LEMMA NextOnceInv == TypeOK /\ PipeInv /\ OnceInv /\ [Next]_vars => OnceInv'
<1> SUFFICES ASSUME TypeOK, PipeInv, OnceInv, [Next]_vars PROVE OnceInv'
  OBVIOUS
<1>0. /\ info \in [Events -> Info \cup {None}] /\ queue \in Seq(Events)
      /\ pos \in [Events -> 0 .. HandleDone] /\ try \in [Pairs -> 0 .. DeliveryDone]
      /\ Len(queue) \in Nat /\ Rules \subseteq Nat /\ Events \subseteq Nat /\ 0 \notin Events
      /\ \A i \in 1 .. Len(queue) : queue[i] \in Events
      /\ dlv \in [Pairs -> [1 .. Attempts -> {None, "ok", "failed", "exhausted"}]]
  <2>1. Rules \subseteq Nat /\ Events \subseteq Nat /\ 0 \notin Events
    BY DEF Rules, Events
  <2> QED
    BY <2>1 DEF TypeOK
\* A step that starts no delivery and brings no event back.
<1>1. ASSUME \A r \in Rules, e \in Events : Begun(r, e)' => Begun(r, e),
             \A e \in Events : info[e] # None => info'[e] # None,
             \A e \in Events : info[e] # None /\ InPipe(e)' => InPipe(e),
             \A e \in Events : \/ pos'[e] \in {0, pos[e], HandleDone}
                               \/ pos'[e] > pos[e] /\ pos[e] # 0
                               \/ InPipe(e),
             pos' \in [Events -> 0 .. HandleDone],
             \A e \in Events, r \in Rules : pos[e] = 0 /\ ~InPipe(e) => pos'[e] \in {0, HandleDone}
      PROVE  OnceInv'
  <2> SUFFICES ASSUME NEW r \in Rules, NEW e \in Events, Begun(r, e)'
               PROVE  info'[e] # None /\ ~InPipe(e)' /\ (pos'[e] = 0 \/ pos'[e] > r + 1)
    BY DEF OnceInv
  <2>1. info[e] # None /\ ~InPipe(e) /\ (pos[e] = 0 \/ pos[e] > r + 1)
    BY <1>1 DEF OnceInv
  <2>2. HandleDone > r + 1 /\ HandleDone \in Nat
    BY DEF HandleDone, Rules
  <2>3. pos[e] \in Nat /\ pos'[e] \in Nat /\ r \in Nat
    BY <1>0, <1>1 DEF HandleDone
  <2>4. info'[e] # None /\ ~InPipe(e)'
    BY <1>1, <2>1
  <2>5. pos'[e] \in {0, pos[e], HandleDone} \/ (pos'[e] > pos[e] /\ pos[e] # 0)
    BY <1>1, <2>1
  <2>6. pos'[e] = 0 \/ pos'[e] > r + 1
    BY <2>1, <2>2, <2>3, <2>5
  <2> QED
    BY <2>4, <2>6
<1>2. ASSUME UNCHANGED <<try, dlv>> PROVE \A r \in Rules, e \in Events : Begun(r, e)' => Begun(r, e)
  BY <1>2 DEF Begun
<1>3. ASSUME UNCHANGED <<stamped, queue, cur>> PROVE \A e \in Events : InPipe(e)' => InPipe(e)
  BY <1>3 DEF InPipe, InQueue
<1>4. ASSUME NEW i \in Info, Stamp(i), UNCHANGED <<queue, cur, pos, try, dlv>> PROVE OnceInv'
  <2>1. PICK e \in Events : info[e] = None /\ info' = [info EXCEPT ![e] = i] /\ stamped' = stamped \cup {e}
    BY <1>4, Stamps
  <2>2. \A f \in Events : info[f] # None => info'[f] # None
    BY <1>0, <2>1
  <2>3. \A f \in Events : info[f] # None /\ InPipe(f)' => InPipe(f)
    BY <1>4, <2>1 DEF InPipe, InQueue
  <2> QED
    BY <1>0, <1>1, <1>2, <1>4, <2>2, <2>3
<1>5. ASSUME NEW e \in Events, Enqueue(e) PROVE OnceInv'
  <2>1. /\ e \in stamped /\ stamped' = stamped \ {e}
        /\ UNCHANGED <<info, cur, pos, try, dlv>>
        /\ queue' = queue \/ queue' = Append(queue, e)
    BY <1>5 DEF Enqueue, dispatch, actions
  <2>2. \A f \in Events : InQueue(f)' => InQueue(f) \/ f = e
    <3> SUFFICES ASSUME NEW f \in Events, NEW j \in 1 .. Len(queue'), queue'[j] = f, f # e
                 PROVE  InQueue(f)
      BY DEF InQueue
    <3>1. CASE queue' = queue
      BY <3>1 DEF InQueue
    <3>2. CASE queue' = Append(queue, e)
      <4>1. /\ Len(queue') = Len(queue) + 1 /\ queue'[Len(queue) + 1] = e
            /\ \A i \in 1 .. Len(queue) : queue'[i] = queue[i]
        BY <1>0, <3>2
      <4>2. j \in 1 .. Len(queue)
        BY <1>0, <4>1
      <4> QED
        BY <4>1, <4>2 DEF InQueue
    <3> QED
      BY <2>1, <3>1, <3>2
  <2>3. \A f \in Events : InPipe(f)' => InPipe(f)
    BY <2>1, <2>2 DEF InPipe
  <2> QED
    BY <1>0, <1>1, <1>2, <2>1, <2>3
<1>6. CASE Take
  <2>1. /\ queue # <<>> /\ cur' = queue[1] /\ queue' = Tail(queue)
        /\ UNCHANGED <<info, stamped, pos, try, dlv>>
    BY <1>0, <1>6 DEF Take, dispatch, actions
  <2>2. /\ Len(queue) > 0 /\ Len(queue') = Len(queue) - 1
        /\ \A j \in 1 .. Len(queue') : queue'[j] = queue[j + 1]
    BY <1>0, <2>1
  <2>3. \A f \in Events : InQueue(f)' \/ cur' = f => InQueue(f)
    BY <1>0, <2>1, <2>2 DEF InQueue
  <2>4. \A f \in Events : InPipe(f)' => InPipe(f)
    BY <2>1, <2>3 DEF InPipe
  <2> QED
    BY <1>0, <1>1, <1>2, <2>1, <2>4
<1>7. CASE FanOut
  <2>1. cur' = 0 /\ UNCHANGED <<info, stamped, queue, try, dlv>>
    BY <1>7 DEF FanOut, actions
  <2>2. \A f \in Events : InPipe(f)' => InPipe(f)
    BY <1>0, <2>1 DEF InPipe, InQueue
  <2>3. \A f \in Events : pos'[f] = pos[f] \/ InPipe(f)
    BY <1>0, <1>7 DEF FanOut, InPipe
  <2>4. pos' \in [Events -> 0 .. HandleDone]
    BY NextTypeOK DEF TypeOK
  <2> QED
    BY <1>1, <1>2, <2>1, <2>2, <2>3, <2>4
<1>8. ASSUME NEW e \in Events, ListRules(e) PROVE OnceInv'
  <2>1. UNCHANGED <<info, stamped, queue, cur, try, dlv>> /\ pos[e] = 1
    BY <1>8 DEF ListRules, bus, actions
  <2>2. pos'[e] \in {2, HandleDone} /\ \A f \in Events : f # e => pos'[f] = pos[f]
    BY <1>0, <1>8 DEF ListRules
  <2>3. pos' \in [Events -> 0 .. HandleDone]
    BY NextTypeOK DEF TypeOK
  <2> QED
    BY <1>0, <1>1, <1>2, <1>3, <2>1, <2>2, <2>3
<1>9. ASSUME NEW x \in Pairs, Deliver(x) \/ Exhausted(x) PROVE OnceInv'
  <2>1. UNCHANGED <<info, stamped, queue, cur, pos>> /\ try[x] # 0
    BY <1>9 DEF Deliver, Exhausted, bus, dispatch
  <2>2. \A y \in Pairs : y # x => try'[y] = try[y]
    BY <1>0, <1>9 DEF Deliver, Exhausted
  <2>3. \A y \in Pairs : y # x => dlv'[y] = dlv[y]
    BY <1>0, <1>9 DEF Deliver, Exhausted, recordDelivery
  <2>4. \A r \in Rules, e \in Events : Begun(r, e)' => Begun(r, e)
    BY <2>1, <2>2, <2>3 DEF Begun, Pairs
  <2> QED
    BY <1>0, <1>1, <1>3, <2>1, <2>4
<1>10. CASE Crash
  <2>1. stamped' = {} /\ Len(queue') = 0 /\ cur' = 0 /\ UNCHANGED <<info, dlv>>
    BY <1>10 DEF Crash
  <2>2. \A f \in Events : ~InPipe(f)'
    BY <1>0, <2>1 DEF InPipe, InQueue
  <2>3. \A f \in Events : pos'[f] \in {0, HandleDone}
    BY <1>0, <1>10 DEF Crash
  <2>4. pos' \in [Events -> 0 .. HandleDone]
    BY NextTypeOK DEF TypeOK
  <2>5. \A y \in Pairs : try'[y] # 0 => try[y] # 0
    BY <1>0, <1>10 DEF Crash, DeliveryDone
  <2>6. \A r \in Rules, e \in Events : Begun(r, e)' => Begun(r, e)
    BY <2>1, <2>5 DEF Begun, Pairs
  <2> QED
    BY <1>1, <2>1, <2>2, <2>3, <2>4, <2>6
<1>11. ASSUME NEW e \in Events, HandleRule(e) PROVE OnceInv'
  <2>1. PICK q \in Rules :
           /\ pos[e] = q + 1 /\ pos' = [pos EXCEPT ![e] = @ + 1]
           /\ \/ Selects(copy[e][q], info[e]) /\ Fire(e, q)
              \/ UNCHANGED try
           /\ UNCHANGED <<info, stamped, queue, cur, dlv>>
    BY <1>11 DEF HandleRule, bus
  <2>2. info[e] # None /\ ~InPipe(e) /\ q \in Nat /\ q # 0
    BY <1>0, <2>1 DEF PipeInv, Rules
  <2>3. \A y \in Pairs : y # <<q, e>> => try'[y] = try[y]
    BY <1>0, <2>1 DEF Fire
  <2>4. \A f \in Events : pos'[f] = IF f = e THEN q + 2 ELSE pos[f]
    BY <1>0, <2>1, <2>2
  <2> SUFFICES ASSUME NEW r \in Rules, NEW f \in Events, Begun(r, f)'
               PROVE  info'[f] # None /\ ~InPipe(f)' /\ (pos'[f] = 0 \/ pos'[f] > r + 1)
    BY DEF OnceInv
  <2>5. CASE r = q /\ f = e
    <3>1. ~InPipe(f)'
      BY <1>3, <2>1, <2>2, <2>5
    <3>2. pos'[f] > r + 1
      BY <2>2, <2>4, <2>5
    <3> QED
      BY <2>1, <2>2, <2>5, <3>1, <3>2
  <2>6. CASE ~(r = q /\ f = e)
    <3>1. <<r, f>> \in Pairs /\ <<r, f>> # <<q, e>>
      BY <2>6 DEF Pairs
    <3>2. Begun(r, f)
      BY <2>1, <2>3, <3>1 DEF Begun
    <3>3. info[f] # None /\ ~InPipe(f) /\ (pos[f] = 0 \/ pos[f] > r + 1)
      BY <3>2 DEF OnceInv
    <3>4. ~InPipe(f)'
      BY <1>3, <2>1, <3>3
    <3>5. pos'[f] = 0 \/ pos'[f] > r + 1
      <4>1. r \in Nat /\ q \in Nat /\ pos[f] \in Nat
        BY <1>0 DEF HandleDone
      <4>2. CASE f = e
        BY <2>1, <2>4, <3>3, <4>1, <4>2
      <4> QED
        BY <2>4, <3>3, <4>2
    <3> QED
      BY <2>1, <3>3, <3>4, <3>5
  <2> QED
    BY <2>5, <2>6
<1>12. CASE UNCHANGED <<info, stamped, queue, cur, pos, try, dlv>>
  BY <1>0, <1>1, <1>2, <1>3, <1>12
<1> QED
  BY <1>4, <1>5, <1>6, <1>7, <1>8, <1>9, <1>10, <1>11, <1>12, PipeFrame
     DEF TrimTick, TrimDelete, TrimCount, bus, dispatch, actions

\* A record that says Done is written with the end of the delivery.
LEMMA NextSettledInv ==
    TypeOK /\ PipeInv /\ OnceInv /\ SettledInv /\ [Next]_vars => SettledInv'
<1> SUFFICES ASSUME TypeOK, PipeInv, OnceInv, SettledInv, [Next]_vars PROVE SettledInv'
  OBVIOUS
<1>0. /\ try \in [Pairs -> 0 .. DeliveryDone] /\ DeliveryDone \in Nat /\ Rules \subseteq Nat
      /\ dlv \in [Pairs -> [1 .. Attempts -> {None, "ok", "failed", "exhausted"}]]
  BY DEF TypeOK, DeliveryDone, Rules
<1>1. ASSUME NEW x \in Pairs, Deliver(x) \/ Exhausted(x) PROVE SettledInv'
  <2>1. try[x] # DeliveryDone /\ try[x] \in 1 .. (Attempts + 1)
    BY <1>0, <1>1 DEF Deliver, Exhausted, DeliveryDone
  <2>2. ~Settled(x)
    BY <2>1 DEF SettledInv
  <2>3. \A y \in Pairs : y # x => try'[y] = try[y] /\ dlv'[y] = dlv[y]
    BY <1>0, <1>1 DEF Deliver, Exhausted, recordDelivery
  <2>4. Settled(x)' => try'[x] = DeliveryDone
    <3>1. CASE try' = [try EXCEPT ![x] = DeliveryDone]
      BY <1>0, <3>1
    <3>2. CASE dlv' = dlv
      BY <2>2, <3>2 DEF Settled
    <3>3. CASE try[x] \in 1 .. Attempts /\ recordDelivery(x, try[x], "failed")
      <4>1. \A j \in 1 .. Attempts : dlv'[x][j] = dlv[x][j] \/ dlv'[x][j] = "failed"
        BY <3>3, Recorded
      <4> QED
        BY <2>2, <4>1 DEF Settled
    <3> QED
      BY <1>1, <3>1, <3>2, <3>3 DEF Deliver, Exhausted
  <2>5. \A y \in Pairs : y # x => (Settled(y)' <=> Settled(y))
    BY <2>3 DEF Settled
  <2> QED
    BY <2>3, <2>4, <2>5 DEF SettledInv
<1>2. ASSUME NEW e \in Events, HandleRule(e) PROVE SettledInv'
  <2>1. PICK q \in Rules :
           /\ pos[e] = q + 1 /\ dlv' = dlv
           /\ Fire(e, q) \/ UNCHANGED try
    BY <1>2 DEF HandleRule
  <2>2. \A y \in Pairs : y # <<q, e>> => try'[y] = try[y]
    BY <1>0, <2>1 DEF Fire
  <2>3. ~Begun(q, e)
    BY <1>0, <2>1 DEF OnceInv
  <2>4. ~Settled(<<q, e>>)
    <3>1. <<q, e>> \in Pairs
      BY DEF Pairs
    <3>2. try[<<q, e>>] = 0 /\ 0 # DeliveryDone
      BY <2>3 DEF Begun, DeliveryDone
    <3> QED
      BY <3>1, <3>2 DEF SettledInv
  <2>5. \A y \in Pairs : Settled(y)' <=> Settled(y)
    BY <2>1 DEF Settled
  <2> QED
    BY <2>2, <2>4, <2>5 DEF SettledInv
<1>3. CASE Crash
  <2>1. dlv' = dlv /\ \A y \in Pairs : try[y] = DeliveryDone => try'[y] = DeliveryDone
    BY <1>3 DEF Crash
  <2>2. \A y \in Pairs : Settled(y)' <=> Settled(y)
    BY <2>1 DEF Settled
  <2> QED
    BY <2>1, <2>2 DEF SettledInv
<1>4. CASE UNCHANGED <<try, dlv>>
  BY <1>4 DEF SettledInv, Settled
<1> QED
  BY <1>1, <1>2, <1>3, <1>4, PipeFrame
     DEF Enqueue, ListRules, Take, FanOut, TrimTick, TrimDelete, TrimCount, actions

\* What the deliveries rest on.
DeliveryInv == TypeOK /\ PipeInv /\ OnceInv /\ SettledInv

LEMMA InitDeliveryInv == Init => DeliveryInv
<1>1. Init => OnceInv
  BY DEF Init, OnceInv, Begun, Pairs
<1>2. Init => SettledInv
  <2> SUFFICES ASSUME Init, NEW x \in Pairs PROVE Settled(x) => try[x] = DeliveryDone
    BY DEF SettledInv
  <2>1. \A k \in 1 .. Attempts : dlv[x][k] = None
    BY DEF Init
  <2> QED
    BY <2>1, OutcomesAssumption DEF Settled
<1> QED
  BY <1>1, <1>2, InitTypeOK, InitPipeInv DEF DeliveryInv

LEMMA NextDeliveryInv == DeliveryInv /\ [Next]_vars => DeliveryInv'
BY NextTypeOK, NextPipeInv, NextOnceInv, NextSettledInv DEF DeliveryInv

LEMMA NextEnded == TypeOK /\ EndedIsSettled /\ [Next]_vars => EndedIsSettled'
<1> SUFFICES ASSUME TypeOK, EndedIsSettled, [Next]_vars PROVE EndedIsSettled'
  OBVIOUS
<1>0. /\ try \in [Pairs -> 0 .. DeliveryDone] /\ 0 # DeliveryDone /\ 1 # DeliveryDone
      /\ dlv \in [Pairs -> [1 .. Attempts -> {None, "ok", "failed", "exhausted"}]]
  BY DEF TypeOK, DeliveryDone
<1>1. ASSUME NEW x \in Pairs, Deliver(x) \/ Exhausted(x) PROVE EndedIsSettled'
  <2>1. \A y \in Pairs : y # x => try'[y] = try[y] /\ dlv'[y] = dlv[y]
    BY <1>0, <1>1 DEF Deliver, Exhausted, recordDelivery
  <2>2. unsaved \subseteq unsaved'
    BY <1>1 DEF Deliver, Exhausted, recordDelivery
  <2>3. \A y \in Pairs : y # x => (Settled(y)' <=> Settled(y))
    BY <2>1 DEF Settled
  <2>4. try'[x] = DeliveryDone => Settled(x)' \/ x \in unsaved'
    <3>1. ASSUME NEW k \in 1 .. Attempts, NEW v \in {"ok", "exhausted"}, recordDelivery(x, k, v)
          PROVE  Settled(x)' \/ x \in unsaved'
      <4>1. dlv'[x][k] = v \/ x \in unsaved'
        BY <3>1, Recorded
      <4> QED
        BY <4>1 DEF Settled
    <3>2. Attempts \in 1 .. Attempts
      OBVIOUS
    <3>3. CASE try[x] \in 1 .. Attempts /\ try'[x] \in {try[x] + 1, Attempts + 1}
      BY <3>3 DEF DeliveryDone
    <3> QED
      BY <1>0, <1>1, <3>1, <3>2, <3>3 DEF Deliver, Exhausted
  <2> QED
    BY <2>1, <2>2, <2>3, <2>4 DEF EndedIsSettled
<1>2. ASSUME NEW e \in Events, HandleRule(e) PROVE EndedIsSettled'
  <2>1. \A y \in Pairs : try'[y] \in {try[y], 1}
    BY <1>0, <1>2 DEF HandleRule, Fire
  <2>2. dlv' = dlv /\ unsaved' = unsaved
    BY <1>2 DEF HandleRule
  <2> QED
    BY <1>0, <2>1, <2>2 DEF EndedIsSettled, Settled
<1>3. CASE Crash
  <2>1. \A y \in Pairs : try'[y] \in {try[y], 0}
    BY <1>0, <1>3 DEF Crash
  <2>2. dlv' = dlv /\ unsaved' = unsaved
    BY <1>3 DEF Crash
  <2> QED
    BY <1>0, <2>1, <2>2 DEF EndedIsSettled, Settled
<1>4. CASE UNCHANGED <<try, dlv, unsaved>>
  BY <1>4 DEF EndedIsSettled, Settled
<1> QED
  BY <1>1, <1>2, <1>3, <1>4, PipeFrame
     DEF Enqueue, ListRules, Take, FanOut, TrimTick, TrimDelete, TrimCount, actions

\* A delivery that ended left a record with Done set, unless a record could
\* not be stored (dispatcher.go:186-197).
THEOREM EndedIsSettledHolds == Spec => []EndedIsSettled
<1>1. Init => EndedIsSettled
  BY DEF Init, EndedIsSettled, DeliveryDone
<1> QED
  BY <1>1, NextEnded, InitTypeOK, NextTypeOK, PTL DEF Spec

\* Once a delivery has a Done record its records never change again: no later
\* attempt, no second Handle of the event and no restart of the process
\* writes one of them (dispatcher.go:120-197).
THEOREM DoneIsFinalHolds == Spec => DoneIsFinal
<1>1. DeliveryInv /\ [Next]_vars => [\A x \in Pairs : Settled(x) => dlv'[x] = dlv[x]]_vars
  <2> SUFFICES ASSUME DeliveryInv, [Next]_vars, NEW x \in Pairs, Settled(x)
               PROVE  dlv'[x] = dlv[x]
    OBVIOUS
  <2>1. try[x] = DeliveryDone /\ DeliveryDone = Attempts + 2
    BY DEF DeliveryInv, SettledInv, DeliveryDone
  <2>2. ASSUME NEW y \in Pairs, Deliver(y) \/ Exhausted(y) PROVE dlv'[x] = dlv[x]
    <3>1. y # x
      BY <2>1, <2>2 DEF Deliver, Exhausted
    <3> QED
      BY <2>2, <3>1 DEF Deliver, Exhausted, recordDelivery, DeliveryInv, TypeOK
  <2> QED
    BY <2>2, PipeFrame
       DEF Enqueue, ListRules, HandleRule, Take, FanOut, TrimTick, TrimDelete, TrimCount,
           Crash, actions
<1> QED
  BY <1>1, InitDeliveryInv, NextDeliveryInv, PTL DEF Spec, DoneIsFinal

=============================================================================
