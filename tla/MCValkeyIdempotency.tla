------------------------ MODULE MCValkeyIdempotency ------------------------
(***************************************************************************)
(* Instances of ValkeyIdempotency for TLC.                                 *)
(***************************************************************************)
EXTENDS ValkeyIdempotency

CONSTANTS a, b, this, that

TwoClients == {a, b}
TwoHashes == {this, that}
AllFaults == Faults
=============================================================================
