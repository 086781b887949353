-------------------------- MODULE MCConnectionPool --------------------------
(***************************************************************************)
(* Instances of ConnectionPool for TLC.                                    *)
(***************************************************************************)
EXTENDS ConnectionPool

CONSTANTS a, b, c, ka, kb

AllKeys == {ka, kb}
TwoCalls == {a, b}
ThreeCalls == {a, b, c}

\* Requests differ by their keys only, and so do keys: no need to try each with each.
BothKeys == [call \in TwoCalls |-> AllKeys]
OneTwoThree ==
  [call \in ThreeCalls |->
     CASE call = a -> {ka} [] call = b -> {ka, kb} [] call = c -> {ka, kb, NoKey}]
=============================================================================
