--------------------------- MODULE MCCheckAddress ---------------------------
(* The values TLC gives to the constants of CheckAddress. *)
EXTENDS CheckAddress

CONSTANTS evm, a

Spelled(m) == [network |-> evm, name |-> a, mixed |-> m]

OneSpelling == {Spelled(FALSE)}

Asks(action, policy, confirm) ==
  [entry |-> Spelled(TRUE), action |-> action, policy |-> policy, confirm |-> confirm]

\* A listing under the other spelling, which takes the address off the whitelist.
Blacklisting == {Asks("add", "blacklist", TRUE)}

=============================================================================
