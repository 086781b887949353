-------------------------- MODULE MCPolicyMutation --------------------------
(* The values TLC gives to the constants of PolicyMutation. *)
EXTENDS PolicyMutation, TLC

Symmetry == Permutations(Calls)

\* `confirm' is read only for an addition to the blacklist.
Distinct == {r \in Requests : r.confirm => r.action = "add" /\ r.policy = "blacklist"}

\* Every request on the EVM network, the whitelist's on the others.
Mixture ==
  {r \in Distinct : r.entry.network \in EvmNetworks \/ r.policy = "whitelist"}

=============================================================================
