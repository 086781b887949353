------------------------ MODULE MCIdempotentMutation ------------------------
(* The values TLC gives to the constants of IdempotentMutation. *)
EXTENDS IdempotentMutation

CONSTANTS evm, a, k1

Entry == [network |-> evm, name |-> a, mixed |-> FALSE]

Asks(action, policy, confirm) ==
  [entry |-> Entry, action |-> action, policy |-> policy, confirm |-> confirm]

\* Two different requests, of which one may find nothing to change.
Removals == {Asks("remove", "whitelist", FALSE), Asks("remove", "blacklist", FALSE)}

OneLegacyRow ==
  {[key |-> k1, request |-> Asks("add", "whitelist", FALSE), hashed |-> FALSE,
    changed |-> TRUE]}

=============================================================================
