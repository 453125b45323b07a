------------------------------ MODULE NgAnswer ------------------------------
(***************************************************************************)
(* What blocking parsing promises for each request: exactly one response   *)
(* is written, whole or, when the line or the data fail, broken off; the   *)
(* caller gets control back after it, and only then.                       *)
(***************************************************************************)
VARIABLES
  busy,   \* is a request being served?
  answer  \* "none", "whole" or "broken": what was written for it

vars == <<busy, answer>>

Init == ~ busy /\ answer = "none"

Take == ~ busy /\ busy' /\ answer' = "none"

Answer == busy /\ answer = "none" /\ answer' \in {"whole", "broken"} /\ busy' = busy

Return == busy /\ answer # "none" /\ ~ busy' /\ answer' = answer

Next == Take \/ Answer \/ Return

Spec == Init /\ [][Next]_vars /\ (busy ~> ~ busy)
=============================================================================
