--------------------------- MODULE FunctionService ---------------------------
(***************************************************************************)
(* What the wasm runtime promises its callers.  One version of a function  *)
(* is installed at a time; a call is answered by a version that was the    *)
(* installed one at some moment between the call and its answer, or it     *)
(* fails.  A restart withdraws the version and fails the calls under way.  *)
(***************************************************************************)
EXTENDS Naturals

CONSTANTS Calls, Versions

VARIABLES
    code,  \* the installed version, 0 if none
    calls  \* per call: its stage, and the version it is bound to

Unbound(s) == [stage |-> s, version |-> 0]

Init == code = 0 /\ calls = [c \in Calls |-> Unbound("idle")]

Install(v) == code' = v /\ UNCHANGED calls
Withdraw == code' = 0 /\ UNCHANGED calls

Request(c) ==
    /\ calls[c].stage = "idle"
    /\ calls' = [calls EXCEPT ![c] = Unbound("pending")] /\ UNCHANGED code

Bind(c) ==
    /\ calls[c].stage = "pending" /\ code # 0
    /\ calls' = [calls EXCEPT ![c] = [stage |-> "bound", version |-> code]]
    /\ UNCHANGED code

Answer(c) ==
    /\ calls[c].stage = "bound"
    /\ calls' = [calls EXCEPT ![c].stage = "answered"] /\ UNCHANGED code

Refuse(c) ==
    /\ calls[c].stage \in {"pending", "bound"}
    /\ calls' = [calls EXCEPT ![c] = Unbound("failed")] /\ UNCHANGED code

Restart ==
    /\ code' = 0
    /\ calls' = [c \in Calls |-> IF calls[c].stage \in {"pending", "bound"}
                                 THEN Unbound("failed") ELSE calls[c]]

Next ==
    \/ \E v \in Versions : Install(v)
    \/ Withdraw \/ Restart
    \/ \E c \in Calls : Request(c) \/ Bind(c) \/ Answer(c) \/ Refuse(c)

Spec == Init /\ [][Next]_<<code, calls>>
=============================================================================
