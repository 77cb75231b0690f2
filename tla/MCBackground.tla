---------------------------- MODULE MCBackground ----------------------------
(***************************************************************************)
(* Components with no state in common: the cron scheduler (Cron), the log  *)
(* of a build (BuildLogs), the log scanner (LogScan), the Garage process   *)
(* (Garage), buckets and access keys (Buckets), the keys of the event log  *)
(* (EventLog), tokens and sessions (Auth).  A behaviour is one of one of   *)
(* them, so that their states add up and do not multiply.                  *)
(***************************************************************************)
EXTENDS Cron, BuildLogs, LogScan, Garage, Buckets, EventLog, Auth

VARIABLE part \* the component this behaviour is of

parts == <<cronVars, logVars, scanVars, garageVars, objVars, eventLogVars, authVars>>
vars == <<part, parts>>

Init ==
    /\ part \in {"cron", "logs", "scan", "garage", "buckets", "eventlog", "auth"}
    /\ CronInit /\ LogInit /\ ScanInit /\ GarageInit /\ ObjInit /\ EventLogInit /\ AuthInit

CronPart(A) ==
    /\ part = "cron" /\ A
    /\ UNCHANGED <<part, logVars, scanVars, garageVars, objVars, eventLogVars, authVars>>
LogPart(A) ==
    /\ part = "logs" /\ A
    /\ UNCHANGED <<part, cronVars, scanVars, garageVars, objVars, eventLogVars, authVars>>
ScanPart(A) ==
    /\ part = "scan" /\ A
    /\ UNCHANGED <<part, cronVars, logVars, garageVars, objVars, eventLogVars, authVars>>
GaragePart(A) ==
    /\ part = "garage" /\ A
    /\ UNCHANGED <<part, cronVars, logVars, scanVars, objVars, eventLogVars, authVars>>
BucketPart(A) ==
    /\ part = "buckets" /\ A
    /\ UNCHANGED <<part, cronVars, logVars, scanVars, garageVars, eventLogVars, authVars>>
EventLogPart(A) ==
    /\ part = "eventlog" /\ A
    /\ UNCHANGED <<part, cronVars, logVars, scanVars, garageVars, objVars, authVars>>
AuthPart(A) ==
    /\ part = "auth" /\ A
    /\ UNCHANGED <<part, cronVars, logVars, scanVars, garageVars, objVars, eventLogVars>>

Next ==
    \/ CronPart(CronNext) \/ LogPart(LogNext) \/ ScanPart(ScanNext)
    \/ GaragePart(GarageNext) \/ BucketPart(ObjNext)
    \/ EventLogPart(EventLogNext) \/ AuthPart(AuthNext)

\* Go runs every runnable goroutine, tickers and timers elapse, a cancelled
\* context kills its command; of the Garage process one condition for all of
\* these is enough, since each of them ends.  Nobody has to log in, leave,
\* write a line, finish a build or start Garage.
FairSpec ==
    /\ Init /\ [][Next]_vars
    /\ \A w \in Watchers : WF_vars(LogPart(WatchRuns(w))) /\ WF_vars(LogPart(Ticker(w)))
    /\ WF_vars(ScanPart(ScanRuns))
    /\ \A f \in Followers : WF_vars(ScanPart(FollowerRuns(f)))
    /\ WF_vars(GaragePart(\/ \E p \in Stoppers : StopRuns(p)
                          \/ \E c \in Children : ContextKills(c) \/ Reap(c)))

Lists == {<<>>, <<"six">>, <<"six", "five", "six">>}
=============================================================================
