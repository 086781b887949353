------------------------------ MODULE MCGateway ------------------------------
(***************************************************************************)
(* Instances of Gateway for TLC.                                           *)
(***************************************************************************)
EXTENDS Gateway

CONSTANTS c1, alice, bob, one, other, evm, sol, k, long, text

OneCall == {c1}
OneUser == {alice}
TwoSecrets == {one, other}
Evm == {evm}
Long == {long}

\* The backend's clock is ahead, right, or so late that a signature comes too early.
ClocksApart == {-3, 0, 1}

Agreeing == [gateway |-> one, backend |-> one, shared |-> one, callers |-> one]
Misconfigured ==
  {Agreeing,
   [Agreeing EXCEPT !.gateway = other, !.callers = other],
   [Agreeing EXCEPT !.gateway = None, !.shared = None],
   [Agreeing EXCEPT !.backend = None]}

Bodies ==
  [object : {TRUE}, address : {[name |-> "a", upper |-> TRUE]}, network : {evm, sol},
   confirm : {"absent", "true"}]
Sound == CHOOSE body \in Bodies : body.network = evm /\ body.confirm = "true"
FaultyBodies ==
  {[Sound EXCEPT !.object = FALSE], [Sound EXCEPT !.address = None],
   [Sound EXCEPT !.network = None], [Sound EXCEPT !.confirm = "text"]}

AdminAsks(bodies, keys) ==
  [kind : {"admin"}, policy : {"blacklist", "whitelist"}, action : {"add", "remove"},
   body : bodies, key : keys]
SignedAsks ==
  [kind : {"signed"}, policy : {"blacklist"}, action : {"add", "remove"}, body : {Sound},
   key : {k}, headers : {"missing", "malformed", "sound"}, withKey : BOOLEAN, user : {None, bob}]
Faulty(body, key) ==
  [kind |-> "admin", policy |-> "blacklist", action |-> "add", body |-> body, key |-> key]
FaultyAsks == {Faulty(body, None) : body \in FaultyBodies} \cup {Faulty(Sound, long)}

\* Limits around 0, the default, the most, both ends of int32 and its first lap.
Limits == {None, NaN, -9, -8, -1, 0, 1, 3, 4, 5, 7, 8, 9, 17}
ReadAsks ==
  [kind : {"list"}, policy : {"blacklist"}]
    \cup [kind : {"history"}, limit : Limits]
    \cup [kind : {"check"}]

EveryKind == AdminAsks(Bodies, {k}) \cup SignedAsks \cup FaultyAsks \cup ReadAsks
==============================================================================
