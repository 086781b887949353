-------------------------- MODULE MCProviderQueue --------------------------
(***************************************************************************)
(* Instances of ProviderQueue for TLC.                                     *)
(***************************************************************************)
EXTENDS ProviderQueue

CONSTANTS a, v, w, good, bad

OneCaller == {a}
TwoWorkers == {v, w}
GoodQuestion == {good}
GoodAndBad == {good, bad}

\* No scores and a signal at its threshold: with no signals and signals without stolen
\* coins, three results, one of them of high risk.
NoScore == {}
BadSignal == {25}
=============================================================================
