---------------------------- MODULE MCContainers ----------------------------
(* Instances of Containers for TLC. *)
EXTENDS Containers

CONSTANTS i1, i2, other \* two images, another node

\* Every key has a containerd id of its own.
OwnIDs == {[n \in Names |-> n]}
\* Or they all share one, as the keys a-b/c and a/b-c do.
OwnOrShared == OwnIDs \cup {[n \in Names |-> CHOOSE i \in Ids : TRUE]}

\* A spec written by hand ...
Fresh(i, p, n) == [gen |-> 0, phase |-> "", msg |-> "ok", image |-> i,
                   policy |-> p, node |-> n]
\* ... or read when the container was in some phase, edited and sent back.
Read(i, p, g, ph) == [Fresh(i, p, Self) EXCEPT !.gen = g, !.phase = ph]

AnyBody == {Fresh(i1, "OnFailure", Self), Fresh(i2, "", NoNode), Fresh(i1, "", other),
            Read(i1, "", 1, "Running"), Read(i2, "OnFailure", 2, "Stopped")}
AlwaysBody == {Fresh(i1, "Always", Self)}
=============================================================================
