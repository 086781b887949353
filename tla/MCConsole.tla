----------------------------- MODULE MCConsole -----------------------------
(***************************************************************************)
(* Instances of Console for TLC.                                           *)
(***************************************************************************)
EXTENDS Console

CONSTANTS x

OneAddress == {x}
Anything == Events

\* Without reloads of the page, which may go on for ever, and a second sign-in.
InOneVisit == {"network", "expiry", "others"}
=============================================================================
