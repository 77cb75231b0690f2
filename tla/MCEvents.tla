------------------------------ MODULE MCEvents ------------------------------
(* The rule bodies the configuration of Events chooses from. *)
EXTENDS Events

Hook == [on |-> Kinds, acts |-> {"webhook"}]
Call == [on |-> {Invoked}, acts |-> {"invoke"}]

HookCallBodies == {Hook, Call}
=============================================================================
