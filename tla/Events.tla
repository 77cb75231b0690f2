------------------------------- MODULE Events -------------------------------
(***************************************************************************)
(* The event bus and the rule dispatcher.  Emitters stamp a record and     *)
(* push it on a bounded queue; one bus goroutine logs it, hands it to the  *)
(* live subscribers and starts a dispatcher goroutine, which walks a copy  *)
(* of the rules and starts webhook deliveries and function invocations     *)
(* (which emit again).  Container actions, a third kind of sink, call into *)
(* the component of module Containers and change nothing here.  A trimmer  *)
(* bounds the log, and the API edits rules and opens live tails meanwhile. *)
(*                                                                         *)
(* Events are numbered in the order of their keys in the log, in whatever  *)
(* order they come: the key is a time as text, which need not sort like    *)
(* the time (module EventLog).                                             *)
(***************************************************************************)
EXTENDS Naturals, Sequences, FiniteSets, Functions

CONSTANTS
    Projects, Home,  \* projects there may be; the rules live in Home
    NRules,          \* rules are numbered in key order
    Kinds,           \* what ruleMatches can tell apart of an event
    Invoked,         \* kind of the event an invocation emits
    Bodies,          \* rule bodies clients send
    None,            \* no record
    QueueCap,        \* capacity of Bus.queue
    ChanCap,         \* capacity of a live tail's channel
    Keep, Backlog,   \* TrimEvents' keep and the tail's backlog
    Attempts,        \* webhook attempts
    MaxEmits, MaxOps, MaxFaults \* bounds on emits, API calls, and errors and crashes

Events == 1 .. MaxEmits
Rules == 1 .. NRules
Pairs == Rules \X Events
Sinks == {"webhook", "invoke"}
Body == [on : SUBSET Kinds, acts : SUBSET Sinks]
Rule == [body : Body, enabled : BOOLEAN, fired : Nat]
Info == [project : Projects, kind : Kinds]

ASSUME EventsAssumption ==
    /\ NRules \in Nat /\ Attempts \in Nat \ {0} /\ MaxEmits \in Nat
    /\ MaxOps \in Nat /\ MaxFaults \in Nat
    /\ QueueCap \in Nat \ {0} /\ ChanCap \in Nat \ {0}
    /\ Keep \in Nat \ {0} /\ Backlog \in Nat
    /\ Home \in Projects /\ Invoked \in Kinds /\ Bodies \subseteq Body
    /\ None \notin Rule /\ None \notin Info

\* The absence of a delivery record is none of the outcomes.
ASSUME OutcomesAssumption == None \notin {"ok", "failed", "exhausted"}

VARIABLES
    info,      \* what each emitted event is
    stamped,   \* events with a timestamp, not yet offered to the queue
    queue, cur, \* Bus.queue, and the event the bus has taken, 0 if none
    log,       \* the eventlog bucket
    logged, unlogged, \* history: events AppendEvent stored, and failed to store
    projects,  \* projects on record
    trim,      \* the trimmer: projects to do, the current one, its surplus
    sink,      \* the dispatcher is registered with the bus
    rules,     \* the eventrules bucket
    form,      \* the records clients have read to send them back edited
    pos, copy, \* per event: where its Handle is (below), and its rules
    fires,     \* history: times each rule fired
    try,       \* per rule and event: where deliverWebhook is (below)
    dlv,       \* the deliveries bucket, by attempt
    unsaved,   \* history: deliveries PutDelivery failed for
    invoking,  \* invocations under way
    tail, ch, seen, \* the live tail: phase and project, channel, events sent
    lost,      \* history: events in memory when the process died
    ops, faults

bus == <<info, stamped, queue, cur, log, logged, unlogged, sink>>
trimming == <<projects, trim>>
dispatch == <<rules, form, pos, copy, fires>>
actions == <<try, dlv, unsaved, invoking>>
live == <<tail, ch, seen>>
bounds == <<ops, faults>>
vars == <<bus, trimming, dispatch, actions, live, lost, bounds>>

\* Positions of Handle: 0 not started, 1 about to list, r + 1 at rule r.
HandleDone == NRules + 2
\* Positions of deliverWebhook: 0 not started, k in attempt k, Attempts + 1
\* past the loop.
DeliveryDone == Attempts + 2

Idle == [todo |-> {}, p |-> None, n |-> 0]
Closed == [at |-> "closed", p |-> Home]

Init ==
    /\ info = [e \in Events |-> None] /\ stamped = {} /\ queue = <<>> /\ cur = 0
    /\ log = {} /\ logged = {} /\ unlogged = {} /\ sink = FALSE
    /\ projects = Projects /\ trim = Idle
    /\ rules = [r \in Rules |-> None] /\ form = rules /\ fires = [r \in Rules |-> 0]
    /\ pos = [e \in Events |-> 0] /\ copy = [e \in Events |-> [r \in Rules |-> None]]
    /\ try = [x \in Pairs |-> 0] /\ unsaved = {}
    /\ dlv = [x \in Pairs |-> [k \in 1 .. Attempts |-> None]]
    /\ invoking = {}
    /\ tail = Closed /\ ch = <<>> /\ seen = <<>>
    /\ lost = {} /\ ops = 0 /\ faults = 0

----------------------------------------------------------------------------
Op == ops < MaxOps /\ ops' = ops + 1 /\ UNCHANGED faults
Fault == faults < MaxFaults /\ faults' = faults + 1 /\ UNCHANGED ops
Fine == UNCHANGED bounds

In(p) == {e \in Events : info[e] # None /\ info[e].project = p}
\* The n latest of a set of events.
Latest(S, n) == {e \in S : Cardinality({f \in S : f > e}) < n}
Earliest(S, n) == {e \in S : Cardinality({f \in S : f < e}) < n}
Ascending(S) == [i \in 1 .. Cardinality(S) |->
                    CHOOSE e \in S : Cardinality({f \in S : f < e}) = i - 1]

(* Bus.Emit: stamp, then offer to the queue. *)

Stamp(i) ==
    \E e \in Events :
       /\ info[e] = None
       /\ info' = [info EXCEPT ![e] = i] /\ stamped' = stamped \cup {e}

Emit ==
    /\ Op /\ \E i \in Info : Stamp(i)
    /\ UNCHANGED <<queue, cur, log, logged, unlogged, sink, trimming, dispatch, actions,
                   live, lost>>

\* A full queue drops the event.
Enqueue(e) ==
    /\ e \in stamped /\ stamped' = stamped \ {e} /\ Fine
    /\ queue' = IF Len(queue) < QueueCap THEN Append(queue, e) ELSE queue
    /\ UNCHANGED <<info, cur, log, logged, unlogged, sink, trimming, dispatch, actions,
                   live, lost>>

(* Bus.run and dispatch. *)

\* Bug: the sinks are served before the event is logged.
TakeUnlogged ==
    /\ cur = 0 /\ queue # <<>> /\ cur' = Head(queue) /\ queue' = Tail(queue) /\ Fine
    /\ UNCHANGED <<info, stamped, log, logged, unlogged, sink, trimming, dispatch, actions,
                   live, lost>>

\* Take an event and AppendEvent it; an error is logged and ignored.
Take ==
    /\ cur = 0 /\ queue # <<>> /\ cur' = Head(queue) /\ queue' = Tail(queue)
    /\ \/ /\ Fine /\ log' = log \cup {cur'} /\ logged' = logged \cup {cur'}
          /\ UNCHANGED unlogged
       \/ Fault /\ unlogged' = unlogged \cup {cur'} /\ UNCHANGED <<log, logged>>
    /\ UNCHANGED <<info, stamped, sink, trimming, dispatch, actions, live, lost>>

\* Call the subscribers inline, start a goroutine per sink.
FanOut ==
    /\ cur # 0 /\ cur' = 0 /\ Fine
    /\ ch' = IF tail.at = "live" /\ info[cur].project = tail.p /\ Len(ch) < ChanCap
             THEN Append(ch, cur) ELSE ch
    /\ pos' = IF sink THEN [pos EXCEPT ![cur] = 1] ELSE pos
    /\ UNCHANGED <<info, stamped, queue, log, logged, unlogged, sink, trimming, rules, form,
                   copy, fires, actions, tail, seen, lost>>

AddSink ==
    /\ ~sink /\ sink' = TRUE /\ Fine
    /\ UNCHANGED <<info, stamped, queue, cur, log, logged, unlogged, trimming, dispatch,
                   actions, live, lost>>

(* Bus.trimLoop and Store.TrimEvents. *)

\* Every minute: ListProjects.
TrimTick ==
    /\ trim = Idle /\ Fine
    /\ trim' = [Idle EXCEPT !.todo = projects]
    /\ UNCHANGED <<bus, projects, dispatch, actions, live, lost>>

\* List the project's events; within the limit there is nothing to do.
TrimCount(p) ==
    /\ trim.p = None /\ p \in trim.todo /\ Fine
    /\ LET n == Cardinality(log \cap In(p)) IN
       trim' = [todo |-> trim.todo \ {p}, p |-> IF n > Keep THEN p ELSE None,
                n |-> IF n > Keep THEN n - Keep ELSE 0]
    /\ UNCHANGED <<bus, projects, dispatch, actions, live, lost>>

\* Delete as many of the first keys as the listing had too many.
TrimDelete ==
    /\ trim.p # None /\ Fine
    /\ log' = log \ Earliest(log \cap In(trim.p), trim.n)
    /\ trim' = [trim EXCEPT !.p = None, !.n = 0]
    /\ UNCHANGED <<info, stamped, queue, cur, logged, unlogged, sink, projects, dispatch,
                   actions, live, lost>>

\* handleDeleteProject removes the record and nothing of the project.
DeleteProject(p) ==
    /\ p \in projects /\ Op /\ projects' = projects \ {p}
    /\ UNCHANGED <<bus, trim, dispatch, actions, live, lost>>

----------------------------------------------------------------------------
(* Rules: API and RuleDispatcher.Handle. *)

\* handlePutEventRule with a new body: generation 0 enables it.  A counter
\* made up by the client is left out.
PutRule(r, b) ==
    /\ Op /\ rules' = [rules EXCEPT ![r] = [body |-> b, enabled |-> TRUE, fired |-> 0]]
    /\ UNCHANGED <<bus, trimming, form, pos, copy, fires, actions, live, lost>>

\* A client reads a record ...
GetRule(r) ==
    /\ rules[r] # None /\ form[r] # rules[r] /\ Op /\ form' = [form EXCEPT ![r] = rules[r]]
    /\ UNCHANGED <<bus, trimming, rules, pos, copy, fires, actions, live, lost>>

\* ... and puts it back, switched on or off, whatever the record is by then.
ToggleRule(r) ==
    /\ form[r] # None /\ Op
    /\ rules' = [rules EXCEPT ![r] = [form[r] EXCEPT !.enabled = ~@]]
    /\ form' = [form EXCEPT ![r] = None]
    /\ UNCHANGED <<bus, trimming, pos, copy, fires, actions, live, lost>>

DeleteRule(r) ==
    /\ rules[r] # None /\ Op /\ rules' = [rules EXCEPT ![r] = None]
    /\ UNCHANGED <<bus, trimming, form, pos, copy, fires, actions, live, lost>>

\* ListAllEventRules, or an error, which ends the goroutine.
ListRules(e) ==
    /\ pos[e] = 1
    /\ \/ Fine /\ copy' = [copy EXCEPT ![e] = rules] /\ pos' = [pos EXCEPT ![e] = 2]
       \/ Fault /\ pos' = [pos EXCEPT ![e] = HandleDone] /\ UNCHANGED copy
    /\ UNCHANGED <<bus, trimming, rules, form, fires, actions, live, lost>>

\* What the types list and the subject accept; Match.Filter is not looked at.
ruleMatches(c, i) == i.kind \in c.body.on

Selects(c, i) == c # None /\ c.enabled /\ i.project = Home /\ ruleMatches(c, i)

\* Save the copy with its counter raised, or fail to, and start the actions.
Fire(e, r) ==
    /\ \/ Fine /\ rules' = [rules EXCEPT ![r] = [copy[e][r] EXCEPT !.fired = @ + 1]]
       \/ Fault /\ UNCHANGED rules
    /\ fires' = [fires EXCEPT ![r] = @ + 1]
    /\ LET acts == copy[e][r].body.acts IN
       /\ try' = IF "webhook" \in acts THEN [try EXCEPT ![<<r, e>>] = 1] ELSE try
       /\ invoking' = IF "invoke" \in acts THEN invoking \cup {<<r, e>>} ELSE invoking

\* Bug: the counter is raised for rules that do not match too.
HandleRuleCountsAll(e) ==
    \E r \in Rules :
       /\ pos[e] = r + 1 /\ pos' = [pos EXCEPT ![e] = @ + 1]
       /\ \/ Selects(copy[e][r], info[e]) /\ Fire(e, r)
          \/ /\ ~Selects(copy[e][r], info[e]) /\ copy[e][r] # None /\ Fine
             /\ rules' = [rules EXCEPT ![r] = [copy[e][r] EXCEPT !.fired = @ + 1]]
             /\ UNCHANGED <<fires, try, invoking>>
          \/ copy[e][r] = None /\ Fine /\ UNCHANGED <<rules, fires, try, invoking>>
       /\ UNCHANGED <<bus, trimming, form, copy, dlv, unsaved, live, lost>>

\* Bug: a rule that does not match is never passed.
HandleRuleStuck(e) ==
    \E r \in Rules :
       /\ pos[e] = r + 1 /\ Selects(copy[e][r], info[e]) /\ Fire(e, r)
       /\ pos' = [pos EXCEPT ![e] = @ + 1]
       /\ UNCHANGED <<bus, trimming, form, copy, dlv, unsaved, live, lost>>

\* One turn of Handle's loop over the copied rules.
HandleRule(e) ==
    \E r \in Rules :
       /\ pos[e] = r + 1 /\ pos' = [pos EXCEPT ![e] = @ + 1]
       /\ \/ Selects(copy[e][r], info[e]) /\ Fire(e, r)
          \/ /\ ~Selects(copy[e][r], info[e]) /\ Fine
             /\ UNCHANGED <<rules, fires, try, invoking>>
       /\ UNCHANGED <<bus, trimming, form, copy, dlv, unsaved, live, lost>>

----------------------------------------------------------------------------
(* Webhook deliveries and invocations. *)

recordDelivery(x, k, v) ==
    \/ Fine /\ dlv' = [dlv EXCEPT ![x][k] = v] /\ UNCHANGED unsaved
    \/ Fault /\ unsaved' = unsaved \cup {x} /\ UNCHANGED dlv

\* Bug: a delivery goes on after a success.
DeliverGoesOn(x) ==
    /\ try[x] \in 1 .. Attempts /\ try' = [try EXCEPT ![x] = @ + 1]
    /\ \E v \in {"ok", "failed"} : recordDelivery(x, try[x], v)
    /\ UNCHANGED <<bus, trimming, dispatch, invoking, live, lost>>

\* One attempt: answered 2xx, not answered or refused, or (first attempt) the
\* URL makes no request.
Deliver(x) ==
    /\ try[x] \in 1 .. Attempts
    /\ \/ recordDelivery(x, try[x], "ok") /\ try' = [try EXCEPT ![x] = DeliveryDone]
       \/ recordDelivery(x, try[x], "failed") /\ try' = [try EXCEPT ![x] = @ + 1]
       \/ try[x] = 1 /\ try' = [try EXCEPT ![x] = Attempts + 1] /\ Fine /\ UNCHANGED <<dlv, unsaved>>
    /\ UNCHANGED <<bus, trimming, dispatch, invoking, live, lost>>

\* Bug: a delivery that is given up leaves its last attempt as it was.
ExhaustedSilently(x) ==
    /\ try[x] = Attempts + 1 /\ try' = [try EXCEPT ![x] = DeliveryDone] /\ Fine
    /\ UNCHANGED <<bus, trimming, dispatch, dlv, unsaved, invoking, live, lost>>

\* After the loop the last attempt's record is overwritten.
Exhausted(x) ==
    /\ try[x] = Attempts + 1 /\ try' = [try EXCEPT ![x] = DeliveryDone]
    /\ recordDelivery(x, Attempts, "exhausted")
    /\ UNCHANGED <<bus, trimming, dispatch, invoking, live, lost>>

\* InvokeForEvent: no such function, or Server.invoke, which emits the outcome.
Invoke(x) ==
    /\ x \in invoking /\ invoking' = invoking \ {x} /\ Fine
    /\ \/ UNCHANGED <<info, stamped>>
       \/ Stamp([project |-> Home, kind |-> Invoked])
    /\ UNCHANGED <<queue, cur, log, logged, unlogged, sink, trimming, dispatch, try, dlv,
                   unsaved, live, lost>>

----------------------------------------------------------------------------
(* handleEventsWS. *)

\* Send the backlog ...
TailOpen(p) ==
    /\ tail.at = "closed" /\ Op
    /\ tail' = [at |-> "listed", p |-> p]
    /\ seen' = Ascending(Latest(log \cap In(p), Backlog))
    /\ UNCHANGED <<bus, trimming, dispatch, actions, ch, lost>>

\* ... then subscribe ...
TailSubscribe ==
    /\ tail.at = "listed" /\ Fine /\ tail' = [tail EXCEPT !.at = "live"]
    /\ UNCHANGED <<bus, trimming, dispatch, actions, ch, seen, lost>>

\* ... and send what arrives.
TailSend ==
    /\ tail.at = "live" /\ ch # <<>> /\ Fine
    /\ seen' = Append(seen, Head(ch)) /\ ch' = Tail(ch)
    /\ UNCHANGED <<bus, trimming, dispatch, actions, tail, lost>>

TailClose ==
    /\ tail.at # "closed" /\ Fine
    /\ tail' = Closed /\ ch' = <<>> /\ seen' = <<>>
    /\ UNCHANGED <<bus, trimming, dispatch, actions, lost>>

----------------------------------------------------------------------------
InMemory == stamped \cup Range(queue) \cup ({cur} \ {0})
            \cup {e \in Events : pos[e] \in 1 .. NRules + 1}

\* The process dies and restarts; the buckets stay.
Crash ==
    /\ Fault /\ lost' = lost \cup InMemory
    /\ stamped' = {} /\ queue' = <<>> /\ cur' = 0 /\ sink' = FALSE /\ trim' = Idle
    /\ pos' = [e \in Events |-> IF pos[e] = HandleDone THEN HandleDone ELSE 0]
    /\ try' = [x \in Pairs |-> IF try[x] = DeliveryDone THEN DeliveryDone ELSE 0]
    /\ invoking' = {} /\ tail' = Closed /\ ch' = <<>> /\ seen' = <<>>
    /\ UNCHANGED <<info, log, logged, unlogged, projects, rules, form, copy, fires,
                   dlv, unsaved>>

Running ==
    \/ \E e \in Events : Enqueue(e) \/ ListRules(e) \/ HandleRule(e)
    \/ \E x \in Pairs : Deliver(x) \/ Exhausted(x) \/ Invoke(x)
    \/ Take \/ FanOut \/ AddSink \/ TrimTick \/ TrimDelete
    \/ \E p \in Projects : TrimCount(p)
    \/ TailSubscribe \/ TailSend

Calls ==
    \/ Emit \/ TailClose
    \/ \E p \in Projects : DeleteProject(p) \/ TailOpen(p)
    \/ \E r \in Rules : GetRule(r) \/ ToggleRule(r) \/ DeleteRule(r) \/ \E b \in Bodies : PutRule(r, b)

Next == Running \/ Calls \/ Crash

Spec == Init /\ [][Next]_vars

\* Go runs every runnable goroutine; HTTP calls and sleeps are bounded.
FairSpec ==
    /\ Spec /\ WF_vars(Take) /\ WF_vars(FanOut)
    /\ \A e \in Events : WF_vars(Enqueue(e)) /\ WF_vars(ListRules(e)) /\ WF_vars(HandleRule(e))
    /\ \A x \in Pairs : WF_vars(Deliver(x)) /\ WF_vars(Exhausted(x))
    /\ WF_vars(TrimTick) /\ WF_vars(TrimDelete) /\ \A p \in Projects : WF_vars(TrimCount(p))

----------------------------------------------------------------------------
(* Properties. *)

TypeOK ==
    /\ info \in [Events -> Info \cup {None}]
    /\ stamped \subseteq Events /\ queue \in Seq(Events) /\ Len(queue) <= QueueCap
    /\ cur \in Events \cup {0} /\ sink \in BOOLEAN
    /\ log \subseteq logged /\ logged \subseteq Events /\ unlogged \subseteq Events
    /\ projects \subseteq Projects
    /\ trim \in [todo : SUBSET Projects, p : Projects \cup {None}, n : Nat]
    /\ rules \in [Rules -> Rule \cup {None}] /\ form \in [Rules -> Rule \cup {None}]
    /\ fires \in [Rules -> Nat]
    /\ pos \in [Events -> 0 .. HandleDone]
    /\ copy \in [Events -> [Rules -> Rule \cup {None}]]
    /\ try \in [Pairs -> 0 .. DeliveryDone] /\ unsaved \subseteq Pairs
    /\ dlv \in [Pairs -> [1 .. Attempts -> {None, "ok", "failed", "exhausted"}]]
    /\ invoking \subseteq Pairs
    /\ tail \in [at : {"closed", "listed", "live"}, p : Projects]
    /\ ch \in Seq(Events) /\ Len(ch) <= ChanCap /\ seen \in Seq(Events)
    /\ lost \subseteq Events
    /\ ops \in 0 .. MaxOps /\ faults \in 0 .. MaxFaults

\* No subscriber and no rule sees an event the log has not been offered
\* (bus.go:127-128 "Persist first").
PersistFirst ==
    \A e \in Events :
       pos[e] # 0 \/ e \in Range(ch) \/ e \in Range(seen) => e \in logged \cup unlogged

\* A rule's counter never exceeds the times it fired, whatever stale copies
\* are written back (dispatcher.go:81-86).
FireCountSound == \A r \in Rules : rules[r] # None => rules[r].fired <= fires[r]

Settled(x) == \E k \in 1 .. Attempts : dlv[x][k] \in {"ok", "exhausted"}

\* A delivery that ended left a record with Done set, unless a record could
\* not be stored (dispatcher.go:186-197).
EndedIsSettled == \A x \in Pairs : try[x] = DeliveryDone => Settled(x) \/ x \in unsaved

\* Once a delivery has a Done record its records never change again.
DoneIsFinal == [][\A x \in Pairs : Settled(x) => dlv'[x] = dlv[x]]_vars

\* Every event in the queue of a bus with a dispatcher is held against the
\* rules to the end, or lost with the process.
EventsHandled ==
    \A e \in Events :
       (e \in Range(queue) /\ sink) ~> (pos[e] = HandleDone \/ e \in lost)

\* Every webhook delivery ends.
DeliveriesEnd == \A x \in Pairs : []<>(try[x] \in {0, DeliveryDone})

\* The log of every project on record comes back within Keep.
TrimBounds ==
    \A p \in Projects : []<>(p \notin projects \/ Cardinality(log \cap In(p)) <= Keep)

\* What was taken on is worked off: events, deliveries and the overlong log
\* (bus.go:111-150, dispatcher.go:56-197).
WorkedOff == EventsHandled /\ DeliveriesEnd /\ TrimBounds
=============================================================================
