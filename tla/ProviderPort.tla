---------------------------- MODULE ProviderPort ----------------------------
(***************************************************************************)
(* What ComplianceProviderPort promises a check: it is told, about the     *)
(* address and network it asked for, what the provider said to a request   *)
(* sent after it asked; it is told once, and keeps what it was told.  Until *)
(* it is told it may find at any time that the port has failed.            *)
(***************************************************************************)
CONSTANTS Callers, Questions, Results, None

VARIABLES
  stage,     \* where each caller stands
  question,  \* what it asks
  result     \* what the provider said to it

vars == <<stage, question, result>>

Goto(k, s) == stage' = [stage EXCEPT ![k] = s]

Init ==
  /\ stage = [k \in Callers |-> "idle"]
  /\ question = [k \in Callers |-> None]
  /\ result = [k \in Callers |-> None]

\* The call may fail at once.
Ask(k, q) ==
  /\ stage[k] = "idle"
  /\ question' = [question EXCEPT ![k] = q]
  /\ Goto(k, "asked") \/ Goto(k, "failed")
  /\ UNCHANGED result

Send(k) ==
  /\ stage[k] = "asked"
  /\ Goto(k, "sent")
  /\ UNCHANGED <<question, result>>

Say(k, r) ==
  /\ stage[k] = "sent"
  /\ Goto(k, "said")
  /\ result' = [result EXCEPT ![k] = r]
  /\ UNCHANGED question

Tell(k) ==
  /\ stage[k] = "said"
  /\ Goto(k, "told")
  /\ UNCHANGED <<question, result>>

\* Several callers may fail together; what was said to them is lost.
Fail(K) ==
  /\ \A k \in K : stage[k] \in {"asked", "sent", "said"}
  /\ stage' = [k \in Callers |-> IF k \in K THEN "failed" ELSE stage[k]]
  /\ result' = [k \in Callers |-> IF k \in K THEN None ELSE result[k]]
  /\ UNCHANGED question

Leave(k) ==
  /\ stage[k] \in {"told", "failed"}
  /\ Goto(k, "idle")
  /\ question' = [question EXCEPT ![k] = None]
  /\ result' = [result EXCEPT ![k] = None]

Next ==
  \/ \E k \in Callers :
       \/ \E q \in Questions : Ask(k, q)
       \/ Send(k)
       \/ \E r \in Results : Say(k, r)
       \/ Tell(k)
       \/ Leave(k)
  \/ \E K \in SUBSET Callers : Fail(K)

Spec == Init /\ [][Next]_vars
=============================================================================
