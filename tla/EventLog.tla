------------------------------ MODULE EventLog ------------------------------
(***************************************************************************)
(* The event log of one project as BoltDB keeps it: by key, which holds    *)
(* the time of the event the way time.RFC3339Nano prints it.  An event is  *)
(* its time; two events of one nanosecond, which their ids tell apart,     *)
(* are left out.                                                           *)
(***************************************************************************)
EXTENDS Naturals, Sequences, FiniteSets
Seqs == INSTANCE SequencesExt

CONSTANTS
    Secs,     \* seconds
    Digits,   \* decimal digits used in fractions of a second
    Places,   \* digits of a fraction: 9 in the code
    KeepLog,  \* what the trimmer leaves
    Limit,    \* what a listing shows
    MaxLogged \* bound on the log

Time == [sec : Secs, frac : [1 .. Places -> Digits]]

ASSUME EventLogAssumption ==
    /\ Secs \subseteq Nat /\ Digits \subseteq 0 .. 9 /\ Places \in Nat \ {0}
    /\ KeepLog \in Nat \ {0} /\ Limit \in Nat \ {0} /\ MaxLogged \in Nat

VARIABLES
    evlog, \* the events in the bucket
    found  \* what the trimmer has counted, 0 if it is not at work

eventLogVars == <<evlog, found>>

EventLogInit == evlog = {} /\ found = 0

----------------------------------------------------------------------------
(* Keys: BoltDB compares them byte by byte. *)

Dot == 46
Zero == 48
Zed == 90

BytesLess(k, l) ==
    \E i \in DOMAIN k \cap DOMAIN l :
       k[i] < l[i] /\ \A j \in 1 .. (i - 1) : k[j] = l[j]

\* RFC3339Nano leaves out the zeros at the end of a fraction ...
Printed(t) ==
    SubSeq(t.frac, 1, CHOOSE n \in 0 .. Places :
       (n > 0 => t.frac[n] # 0) /\ \A i \in (n + 1) .. Places : t.frac[i] = 0)

\* ... and, if nothing is left, the dot.  The seconds have a fixed width and
\* stand for one byte here; "Z" is the zone.
Key(t) ==
    <<t.sec>>
    \o (IF Printed(t) = <<>> THEN <<>> ELSE <<Dot>>)
    \o [i \in DOMAIN Printed(t) |-> Zero + Printed(t)[i]]
    \o <<Zed>>

KeyLess(t, u) == BytesLess(Key(t), Key(u))

----------------------------------------------------------------------------
\* Emitters take the time before they queue, so events come in any order.
AppendEvent(t) ==
    /\ t \notin evlog /\ Cardinality(evlog) < MaxLogged
    /\ evlog' = evlog \cup {t} /\ UNCHANGED found

\* The end of the bucket.
ListEvents == {t \in evlog : Cardinality({u \in evlog : KeyLess(t, u)}) < Limit}

\* TrimEvents lists the log ...
TrimEvents ==
    /\ found = 0 /\ Cardinality(evlog) > KeepLog
    /\ found' = Cardinality(evlog) /\ UNCHANGED evlog

\* Bug: the cursor starts at the end.
TrimEventsDeleteLast ==
    /\ found > 0 /\ found' = 0
    /\ evlog' = {t \in evlog : Cardinality({u \in evlog : KeyLess(t, u)}) >= found - KeepLog}

\* Bug: one too many.
TrimEventsDeleteMore ==
    /\ found > 0 /\ found' = 0
    /\ evlog' = {t \in evlog : Cardinality({u \in evlog : KeyLess(u, t)}) > found - KeepLog}

\* ... and deletes, in another transaction, as many of the first keys as were
\* too many.
TrimEventsDelete ==
    /\ found > 0 /\ found' = 0
    /\ evlog' = {t \in evlog : Cardinality({u \in evlog : KeyLess(u, t)}) >= found - KeepLog}

EventLogNext == (\E t \in Time : AppendEvent(t)) \/ TrimEvents \/ TrimEventsDelete

EventLogSpec == EventLogInit /\ [][EventLogNext]_eventLogVars

----------------------------------------------------------------------------
Before(t, u) ==
    \/ t.sec < u.sec
    \/ t.sec = u.sec /\ BytesLess(t.frac, u.frac)

\* The one case in which the order of keys is not that of the times: t is
\* printed as the beginning of u, and "Z" comes after "." and the digits.
Shadows(t, u) == t.sec = u.sec /\ Seqs!IsStrictPrefix(Printed(t), Printed(u))

\* TrimEvents removes the oldest events (store.go:834-863): no event is
\* deleted that is newer than one it leaves, except within a second when the
\* older one's fraction is printed as a prefix of the newer one's.
TrimOldest ==
    [][\A t \in evlog \ evlog' : \A u \in evlog' : Before(t, u) \/ Shadows(u, t)]_eventLogVars

\* Events that are appended between the count and the deletion, whatever times
\* they carry, cost no event its place: the last KeepLog keys of the log that
\* the deletion finds are still there after it (store.go:834-863).
TrimKeepsLatest ==
    [][\A t \in evlog : Cardinality({u \in evlog : KeyLess(t, u)}) < KeepLog
                            => t \in evlog']_eventLogVars

\* A listing shows the newest events (store.go:806-832), with the same
\* exception: an event it leaves out is older than those it shows.
ListNewest ==
    \A t \in ListEvents : \A u \in evlog \ ListEvents : Before(u, t) \/ Shadows(t, u)

\* Listing and trimming agree on what is old (store.go:788-863).
OldestFirst == []ListNewest /\ TrimOldest
=============================================================================
