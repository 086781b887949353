--------------------------- MODULE WriteOnceRecord ---------------------------
(***************************************************************************)
(* What an idempotency key promises its clients: a key is decided at most  *)
(* once, never changes afterwards, and every positive answer given under   *)
(* it, first or replayed, is the decision.                                 *)
(***************************************************************************)
CONSTANTS Clients, Keys, Decisions, Undecided

VARIABLES
  record,  \* the decision of each key
  told     \* what each client is told: nothing, or <<key, decision>>

vars == <<record, told>>

Nothing == <<>>

Init ==
  /\ record = [k \in Keys |-> Undecided]
  /\ told = [c \in Clients |-> Nothing]

\* The decision may stay unknown to the client that caused it.
Decide(c, k, d) ==
  /\ record[k] = Undecided
  /\ record' = [record EXCEPT ![k] = d]
  /\ told' \in {told, [told EXCEPT ![c] = <<k, d>>]}

Tell(c, k) ==
  /\ record[k] # Undecided
  /\ told' = [told EXCEPT ![c] = <<k, record[k]>>]
  /\ UNCHANGED record

Leave(c) ==
  /\ told' = [told EXCEPT ![c] = Nothing]
  /\ UNCHANGED record

Next ==
  \E c \in Clients :
    \/ \E k \in Keys : Tell(c, k) \/ \E d \in Decisions : Decide(c, k, d)
    \/ Leave(c)

Spec == Init /\ [][Next]_vars

=============================================================================
