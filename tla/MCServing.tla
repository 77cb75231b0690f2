----------------------------- MODULE MCServing ------------------------------
(* One call over HTTP, the others from a rule or from cron. *)
EXTENDS Serving

CONSTANT Http

MCCallers(c) == IF c = Http THEN {"http"} ELSE {"rule", "cron"}
=============================================================================
