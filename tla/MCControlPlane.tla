--------------------------- MODULE MCControlPlane ---------------------------
(***************************************************************************)
(* Three components with no state in common: the Raft-replicated store     *)
(* (Replication), the cluster record with its tokens and keys              *)
(* (ClusterConfig), and the code and builds of a function (FunctionBuilds).*)
(* A behaviour is one of one of them, so that their states add up and do   *)
(* not multiply.                                                           *)
(***************************************************************************)
EXTENDS Replication, ClusterConfig, FunctionBuilds

VARIABLE part \* the component this behaviour is of

vars == <<part, replVars, configVars, buildVars>>

Init ==
    /\ part \in {"store", "config", "builds"}
    /\ ReplInit /\ ConfigInit /\ BuildsInit

\* Nothing is claimed of keys written outside the log: once no other key is left
\* there is nothing more to explore.
StorePart(A) ==
    /\ part = "store" /\ dirty # Keys
    /\ A /\ UNCHANGED <<part, configVars, buildVars>>
ConfigPart(A) == part = "config" /\ A /\ UNCHANGED <<part, replVars, buildVars>>
BuildsPart(A) == part = "builds" /\ A /\ UNCHANGED <<part, replVars, configVars>>

Next == StorePart(ReplNext) \/ ConfigPart(ConfigNext) \/ BuildsPart(BuildsNext)

\* The part does not stop while Raft can replicate, apply or elect, an accepted
\* request about the record can go on, or a build can: less than the scheduler
\* gives each goroutine, and enough since every one of these ends.  Nothing is
\* assumed of writers, joins, arrivals, snapshots or restarts.
FairSpec ==
    /\ Init /\ [][Next]_vars
    /\ WF_vars(StorePart(\E n \in Nodes : Receive(n) \/ FSMApply(n) \/ Elect(n)))
    /\ WF_vars(ConfigPart(\E r \in Reqs : Continue(r)))
    /\ WF_vars(BuildsPart(\E b \in Builds : BuildStep(b)))
=============================================================================
