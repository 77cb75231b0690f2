-------------------------------- MODULE Cron --------------------------------
(***************************************************************************)
(* The record of one function and the CronScheduler that follows it.       *)
(* Every write of the record is numbered; its event is emitted after the   *)
(* write, in whatever order the writers get to it, and a full channel      *)
(* drops it.                                                               *)
(***************************************************************************)
EXTENDS Naturals, Sequences, FiniteSets

CONSTANTS
    NoFn,         \* no record
    TriggerLists, \* schedules of a function's cron triggers, in order
    Parsed,       \* the schedules cron.AddFunc accepts
    CronCap,       \* capacity of a subscription
    MaxWrites,    \* bound on writes of the record
    MaxEntries,   \* bound on robfig entries ever made
    MaxCrashes    \* bound on crashes

Writes == 1 .. MaxWrites
Ids == 1 .. MaxEntries
Event == [op : {"put", "delete"}, n : Writes]
Accepted(t) == {i \in DOMAIN t : t[i] \in Parsed}

ASSUME CronAssumption ==
    /\ CronCap \in Nat \ {0} /\ MaxWrites \in Nat /\ MaxEntries \in Nat /\ MaxCrashes \in Nat
    /\ NoFn \notin TriggerLists
    /\ \A t \in TriggerLists : t \in Seq({t[i] : i \in DOMAIN t})

VARIABLES
    fn,       \* the record: its cron triggers, or NoFn
    writes,   \* writes of the record so far
    emitting, \* events of writes, not yet emitted
    sub,      \* the scheduler: "down", "listed", or "subscribed"
    chan,     \* its subscription
    copy,     \* a record it has read and not yet synced, or NoFn
    entry,    \* CronScheduler.entries: the id, 0 if none
    live,     \* entries of the robfig scheduler: id and the triggers it was made from
    made,     \* ids given out
    heard,    \* history: number of the write it learnt of last
    crashes

record == <<fn, writes, emitting>>
scheduler == <<sub, chan, copy, entry, live, made, heard>>
cronVars == <<record, scheduler, crashes>>

CronInit ==
    /\ fn = NoFn /\ writes = 0 /\ emitting = {}
    /\ sub = "down" /\ chan = <<>> /\ copy = NoFn
    /\ entry = 0 /\ live = {} /\ made = 0 /\ heard = 0 /\ crashes = 0

----------------------------------------------------------------------------
(* Store.PutFunction, DeleteFunction and emit. *)

Write(op, f) ==
    /\ writes < MaxWrites /\ writes' = writes + 1 /\ fn' = f
    /\ emitting' = emitting \cup {[op |-> op, n |-> writes + 1]}
    /\ UNCHANGED <<scheduler, crashes>>

PutFunction(t) == Write("put", t)
DeleteFunction == fn # NoFn /\ Write("delete", NoFn)

\* The channel is shared with the events of all other records, so it may be
\* full at any time.
EmitEvent ==
    \E e \in emitting :
       /\ emitting' = emitting \ {e}
       /\ \/ /\ sub = "subscribed" /\ Len(chan) < CronCap
             /\ chan' = Append(chan, e) /\ heard' = e.n
          \/ UNCHANGED <<chan, heard>>
       /\ UNCHANGED <<fn, writes, sub, copy, entry, live, made, crashes>>

----------------------------------------------------------------------------
(* The scheduler. *)

\* Bug: an entry is added without removing the one before.
syncKeepsOld(t) ==
    LET ids == (made + 1) .. (made + Cardinality(Accepted(t))) IN
    /\ ids \subseteq Ids
    /\ made' = made + Cardinality(Accepted(t))
    /\ live' = live \cup {[id |-> i, of |-> t] : i \in ids}
    /\ entry' = IF ids = {} THEN 0 ELSE made'

\* removeKey, then one entry per trigger whose schedule parses; the map keeps
\* the id of the last.
sync(t) ==
    LET ids == (made + 1) .. (made + Cardinality(Accepted(t))) IN
    /\ ids \subseteq Ids
    /\ made' = made + Cardinality(Accepted(t))
    /\ live' = {e \in live : e.id # entry} \cup {[id |-> i, of |-> t] : i \in ids}
    /\ entry' = IF ids = {} THEN 0 ELSE made'

removeKey == live' = {e \in live : e.id # entry} /\ entry' = 0 /\ UNCHANGED made

\* Start: list the records, sync what was there (CronSync) ...
CronStart ==
    /\ sub = "down" /\ sub' = "listed" /\ heard' = writes /\ copy' = fn
    /\ UNCHANGED <<record, chan, entry, live, made, crashes>>

\* ... then a goroutine that subscribes.
CronSubscribe ==
    /\ sub = "listed" /\ copy = NoFn /\ sub' = "subscribed"
    /\ UNCHANGED <<record, chan, copy, entry, live, made, heard, crashes>>

\* Bug: a delete is read like a put, and a function that is not there is left.
CronDeleteMissed ==
    /\ sub = "subscribed" /\ copy = NoFn /\ chan # <<>>
    /\ chan' = Tail(chan) /\ copy' = fn
    /\ UNCHANGED <<record, sub, entry, live, made, heard, crashes>>

CronDelete ==
    /\ sub = "subscribed" /\ copy = NoFn /\ chan # <<>> /\ Head(chan).op = "delete"
    /\ chan' = Tail(chan) /\ removeKey
    /\ UNCHANGED <<record, sub, copy, heard, crashes>>

\* A put: GetFunction, which may find a later record or none ...
CronPut ==
    /\ sub = "subscribed" /\ copy = NoFn /\ chan # <<>> /\ Head(chan).op = "put"
    /\ chan' = Tail(chan) /\ copy' = fn
    /\ UNCHANGED <<record, sub, entry, live, made, heard, crashes>>

\* ... then sync.
CronSync ==
    /\ copy # NoFn /\ copy' = NoFn /\ sync(copy)
    /\ UNCHANGED <<record, sub, chan, heard, crashes>>

\* The process ends, with the events not yet emitted, and starts again.
CronCrash ==
    /\ crashes < MaxCrashes /\ crashes' = crashes + 1
    /\ sub' = "down" /\ chan' = <<>> /\ copy' = NoFn
    /\ entry' = 0 /\ live' = {} /\ heard' = 0 /\ emitting' = {}
    /\ UNCHANGED <<fn, writes, made>>

CronNext ==
    \/ \E t \in TriggerLists : PutFunction(t)
    \/ DeleteFunction \/ EmitEvent
    \/ CronStart \/ CronSubscribe \/ CronDelete \/ CronPut \/ CronSync
    \/ CronCrash

CronSpec == CronInit /\ [][CronNext]_cronVars

----------------------------------------------------------------------------
Triggers(f) == IF f = NoFn THEN <<>> ELSE f

CronTypeOK ==
    /\ fn \in TriggerLists \cup {NoFn} /\ copy \in TriggerLists \cup {NoFn}
    /\ writes \in 0 .. MaxWrites /\ emitting \subseteq Event
    /\ sub \in {"down", "listed", "subscribed"}
    /\ chan \in Seq(Event) /\ Len(chan) <= CronCap
    /\ entry \in Ids \cup {0} /\ live \subseteq [id : Ids, of : TriggerLists]
    /\ made \in 0 .. MaxEntries /\ heard \in 0 .. MaxWrites
    /\ crashes \in 0 .. MaxCrashes

\* However many events were dropped, overtaken or emitted before Subscribe:
\* when the last event the scheduler received is that of the last write, and
\* it has worked it off, the entries it holds are those of the record
\* (cron.go:14-16, 68-98).
CronFollows ==
    sub # "down" /\ heard = writes /\ chan = <<>> /\ copy = NoFn =>
       /\ (entry = 0) = (Accepted(Triggers(fn)) = {})
       /\ \A e \in live : e.id = entry => e.of = fn
       /\ entry # 0 => \E e \in live : e.id = entry

\* An entry the map does not know, which nothing can remove any more, comes
\* from a function with several cron triggers (cron.go:110-156).
StrayEntries == \A e \in live : e.id = entry \/ Cardinality(Accepted(e.of)) > 1
=============================================================================
