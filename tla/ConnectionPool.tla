--------------------------- MODULE ConnectionPool ---------------------------
(***************************************************************************)
(* The connections behind a policy mutation.  executeOnce checks a         *)
(* connection out for its query runner and keeps it, with the advisory     *)
(* lock of the key, while the look-up, the statements of the mutation and  *)
(* the audit insert each ask the same pool for a connection of their own.  *)
(* The pool of pg is created with its default size and no acquisition      *)
(* timeout: who finds it empty waits in line.                              *)
(*                                                                         *)
(* A lock belongs to the session that took it.  An unlock that fails is    *)
(* swallowed and leaves it with a session of the pool, which takes it      *)
(* again when it is lent to a request under the same key; a session the    *)
(* server drops takes its locks along, and its connection is the pool's    *)
(* again while the request works on.  Which session is lent is left open.  *)
(* What the statements read and write is left to IdempotentMutation.       *)
(***************************************************************************)
EXTENDS Naturals, Sequences, FiniteSets

CONSTANTS
  Calls,     \* mutation requests
  Keys,      \* idempotency keys
  NoKey,     \* the request carries none
  KeysSent,  \* what each of the requests may carry
  NoCall,
  PoolSize,  \* connections the pool opens at most
  MaxLosses  \* bound: locks left with a session and sessions dropped

VARIABLES
  key,      \* the key of each request
  stage,    \* where each request stands
  owner,    \* the request that holds the lock of a key with its session
  leaked,   \* keys whose lock a session keeps when its request is done with it
  lent,     \* tickets that have a connection
  queue,    \* tickets that wait for one, first come first served
  expired,  \* requests whose deadline has passed
  losses    \* how many locks and sessions were lost

vars == <<key, stage, owner, leaked, lent, queue, expired, losses>>

ASSUME PoolAssumption ==
  /\ PoolSize \in Nat \ {0} /\ MaxLosses \in Nat
  /\ NoCall \notin Calls
  /\ NoKey \notin Keys
  /\ KeysSent \in [Calls -> SUBSET (Keys \cup {NoKey})]

\* What a connection is asked for: the query runner, or one statement of the work.
Statements == {"find", "target", "opposite", "remove", "add", "record"}

Tickets == [call : Calls, use : Statements \cup {"session"}]

Ticket(c, u) == [call |-> c, use |-> u]

Working == {"find", "exists", "remove", "add", "record"}

Stages == {"idle", "connecting", "locking", "sleeping", "unlocking", "replied"} \cup Working

TypeOK ==
  /\ key \in [Calls -> Keys \cup {NoKey}]
  /\ stage \in [Calls -> Stages]
  /\ owner \in [Keys -> Calls \cup {NoCall}]
  /\ leaked \in SUBSET Keys
  /\ lent \in SUBSET Tickets
  /\ queue \in Seq(Tickets)
  /\ expired \in SUBSET Calls
  /\ losses \in 0..MaxLosses
  /\ \A c \in Calls : stage[c] = "unlocking" => key[c] \in Keys

-----------------------------------------------------------------------------

\* Mutant of StatementsOf: the two writes go out together too.
WritesTogether(s) ==
  CASE s = "exists" -> <<"target", "opposite">>
    [] s = "remove" -> <<"remove", "add">>
    [] OTHER        -> <<s>>

\* The statements of a stage, in the order they are sent: the two look-ups of
\* addWithInvariant go out together, every other statement alone.
StatementsOf(s) == IF s = "exists" THEN <<"target", "opposite">> ELSE <<s>>

Uses(s) == {StatementsOf(s)[i] : i \in DOMAIN StatementsOf(s)}

\* A replay or a conflict ends the work after the look-ups; an entry that is already as
\* asked is only recorded.
Following(s) ==
  CASE s = "find"   -> {"exists", "remove", "unlocking"}
    [] s = "exists" -> {"remove", "add", "record", "unlocking"}
    [] s = "remove" -> {"add", "record"}
    [] s = "add"    -> {"record"}
    [] s = "record" -> {"unlocking"}

Keyed(c) == key[c] # NoKey

Waiting == {queue[i] : i \in DOMAIN queue}

\* Other statements of the request that have not ended.
Others(c, u) == {t \in lent \cup Waiting : t.call = c /\ t.use \notin {u, "session"}}

Init ==
  /\ key = [c \in Calls |-> NoKey]
  /\ stage = [c \in Calls |-> "idle"]
  /\ owner = [k \in Keys |-> NoCall]
  /\ leaked = {}
  /\ lent = {}
  /\ queue = <<>>
  /\ expired = {}
  /\ losses = 0

Lose == losses < MaxLosses /\ losses' = losses + 1

\* A session of the pool may be left with the lock of a key.
MayLeak(k) ==
  \/ UNCHANGED <<leaked, losses>>
  \/ Lose /\ leaked' = leaked \cup {k}

GoTo(c, s) == stage' = [stage EXCEPT ![c] = s]

\* The request enters a stage of its work and asks for what its statements need.
Enter(c, s) ==
  /\ GoTo(c, s)
  /\ LET sent == StatementsOf(s)
     IN  queue' = queue \o [i \in DOMAIN sent |-> Ticket(c, sent[i])]

\* The finally block of executeOnce; a request without a key never entered it.
Finish(c) == GoTo(c, IF Keyed(c) THEN "unlocking" ELSE "replied")

AskSession(c) ==
  /\ GoTo(c, "connecting")
  /\ queue' = Append(queue, Ticket(c, "session"))

Submit(c, k) ==
  /\ stage[c] = "idle"
  /\ key' = [key EXCEPT ![c] = k]
  /\ IF k = NoKey
       THEN \E s \in {"exists", "remove"} : Enter(c, s)
       ELSE AskSession(c)
  /\ UNCHANGED <<owner, leaked, lent, expired, losses>>

\* The pool lends a connection to the first in line.
Grant ==
  /\ queue # <<>>
  /\ Cardinality(lent) < PoolSize
  /\ LET t == Head(queue)
     IN  /\ lent' = lent \cup {t}
         /\ IF t.use = "session" THEN GoTo(t.call, "locking") ELSE UNCHANGED stage
  /\ queue' = Tail(queue)
  /\ UNCHANGED <<key, owner, leaked, expired, losses>>

\* No connection can be opened for the first in line.
GrantFails ==
  /\ queue # <<>>
  /\ Cardinality(lent) < PoolSize
  /\ LET t == Head(queue)
     IN  CASE t.use = "session"             -> GoTo(t.call, "replied")
           [] t.use \in Uses(stage[t.call]) -> Finish(t.call)
           [] OTHER                         -> UNCHANGED stage
  /\ queue' = Tail(queue)
  /\ UNCHANGED <<key, owner, leaked, lent, expired, losses>>

\* Mutant of LockFree: the result of pg_try_advisory_lock is ignored.
AnyLock(k) == TRUE

\* Nobody has the lock, or a session of the pool, perhaps the one that was lent.
LockFree(k) == owner[k] = NoCall

LockTaken(k) == owner[k] # NoCall \/ k \in leaked

\* pg_try_advisory_lock: the loser sleeps with its connection in hand.
TryLock(c) ==
  /\ stage[c] = "locking"
  /\ \/ /\ LockFree(key[c])
        /\ owner' = [owner EXCEPT ![key[c]] = c]
        /\ Enter(c, "find")
     \/ LockTaken(key[c]) /\ GoTo(c, "sleeping") /\ UNCHANGED <<owner, queue>>
  /\ UNCHANGED <<key, leaked, lent, expired, losses>>

\* The lock statement fails, perhaps after it took the lock.
LockFails(c) ==
  /\ stage[c] = "locking"
  /\ lent' = lent \ {Ticket(c, "session")}
  /\ IF LockFree(key[c]) THEN MayLeak(key[c]) ELSE UNCHANGED <<leaked, losses>>
  /\ GoTo(c, "replied")
  /\ UNCHANGED <<key, owner, queue, expired>>

\* Mutant of WakeUp: `continue' skips the release of the query runner.
WakeUpHolding(c) ==
  /\ stage[c] = "sleeping"
  /\ IF c \in expired
       THEN GoTo(c, "replied") /\ UNCHANGED queue
       ELSE AskSession(c)
  /\ UNCHANGED <<key, owner, leaked, lent, expired, losses>>

\* The query runner is released; the loop tests the deadline before it connects again.
WakeUp(c) ==
  /\ stage[c] = "sleeping"
  /\ lent' = lent \ {Ticket(c, "session")}
  /\ IF c \in expired
       THEN GoTo(c, "replied") /\ UNCHANGED queue
       ELSE AskSession(c)
  /\ UNCHANGED <<key, owner, leaked, expired, losses>>

\* A statement returns and its connection with it.  The last one of its stage takes the
\* request on; one that a failure has left behind changes nothing else.
StatementReturns(c, u) ==
  /\ Ticket(c, u) \in lent
  /\ u \in Statements
  /\ lent' = lent \ {Ticket(c, u)}
  /\ IF u \in Uses(stage[c]) /\ Others(c, u) = {}
       THEN \E s \in Following(stage[c]) :
              IF s = "unlocking" THEN Finish(c) /\ UNCHANGED queue ELSE Enter(c, s)
       ELSE UNCHANGED <<stage, queue>>
  /\ UNCHANGED <<key, owner, leaked, expired, losses>>

\* A statement fails: the work ends, without waiting for the other look-up.
StatementFails(c, u) ==
  /\ Ticket(c, u) \in lent
  /\ u \in Uses(stage[c])
  /\ lent' = lent \ {Ticket(c, u)}
  /\ Finish(c)
  /\ UNCHANGED <<key, owner, leaked, queue, expired, losses>>

\* The lock of a key is the request's no longer.
NotMine(c) == owner' = [k \in Keys |-> IF owner[k] = c THEN NoCall ELSE owner[k]]

\* Mutant of Unlock: a failed unlock is thrown, and the release is not reached.
UnlockThrows(c) ==
  /\ stage[c] = "unlocking"
  /\ NotMine(c)
  /\ \/ lent' = lent \ {Ticket(c, "session")} /\ UNCHANGED <<leaked, losses>>
     \/ owner[key[c]] = c /\ Lose /\ leaked' = leaked \cup {key[c]} /\ UNCHANGED lent
  /\ GoTo(c, "replied")
  /\ UNCHANGED <<key, queue, expired>>

\* pg_advisory_unlock, whose failure is swallowed, and the release of the query runner.
Unlock(c) ==
  /\ stage[c] = "unlocking"
  /\ NotMine(c)
  /\ IF owner[key[c]] = c THEN MayLeak(key[c]) ELSE UNCHANGED <<leaked, losses>>
  /\ lent' = lent \ {Ticket(c, "session")}
  /\ GoTo(c, "replied")
  /\ UNCHANGED <<key, queue, expired>>

\* The server drops the session of a query runner: TypeORM gives the connection back at
\* once, and the request goes on without.
SessionDrops(c) ==
  /\ Ticket(c, "session") \in lent
  /\ stage[c] \in {"sleeping", "unlocking"} \cup Working
  /\ Lose /\ NotMine(c)
  /\ leaked' = {k \in leaked : owner[k] # c}
  /\ lent' = lent \ {Ticket(c, "session")}
  /\ UNCHANGED <<key, stage, queue, expired>>

\* A session that kept a lock ends, idle or dropped.
LeakEnds(k) ==
  /\ k \in leaked /\ owner[k] = NoCall
  /\ leaked' = leaked \ {k}
  /\ UNCHANGED <<key, stage, owner, lent, queue, expired, losses>>

\* Mutant of Expire: the deadline ends the work and gives the query runner back.
Abort(c) ==
  /\ stage[c] \in Working /\ Keyed(c)
  /\ lent' = lent \ {Ticket(c, "session")}
  /\ GoTo(c, "replied")
  /\ UNCHANGED <<key, owner, leaked, queue, expired, losses>>

Expire(c) ==
  /\ stage[c] \in {"connecting", "locking", "sleeping"}
  /\ c \notin expired
  /\ expired' = expired \cup {c}
  /\ UNCHANGED <<key, stage, owner, leaked, lent, queue, losses>>

Next ==
  \/ Grant \/ GrantFails
  \/ \E k \in Keys : LeakEnds(k)
  \/ \E c \in Calls :
       \/ \E k \in KeysSent[c] : Submit(c, k)
       \/ TryLock(c) \/ LockFails(c) \/ WakeUp(c) \/ Unlock(c) \/ SessionDrops(c)
       \/ Expire(c)
       \/ \E u \in Statements : StatementReturns(c, u) \/ StatementFails(c, u)

Spec == Init /\ [][Next]_vars

\* The database answers every statement, timers fire, and the pool serves who waits.
Fairness ==
  /\ WF_vars(Grant)
  /\ \A c \in Calls :
       /\ WF_vars(TryLock(c)) /\ WF_vars(WakeUp(c))
       /\ WF_vars(Unlock(c)) /\ WF_vars(Expire(c))
       /\ \A u \in Statements : WF_vars(StatementReturns(c, u))

FairSpec == Spec /\ Fairness

-----------------------------------------------------------------------------
(* What the pool makes of the requests. *)

\* Every connection is the query runner of a request that waits for one more.
Stuck ==
  /\ Cardinality(lent) = PoolSize
  /\ \A t \in lent : t.use = "session" /\ stage[t.call] \in Working

\* A stuck pool stays stuck, whatever arrives or expires, until the server drops a session:
\* nobody's deadline is looked at while he waits for a connection.
StuckUntilDropped == [][Stuck => Stuck' \/ \E c \in Calls : SessionDrops(c)]_vars

\* It takes as many different keys in progress as the pool has connections: requests that
\* share a key, however many, leave room for the one that holds its lock.
StuckOnlyOnDistinctKeys ==
  Stuck => \A s, t \in lent : Keyed(s.call) /\ (key[s.call] = key[t.call] => s = t)

\* Every way out of executeOnce gives back the query runner, also when the unlock fails or
\* the session is gone, and what a failed request leaves running behind its answer only
\* reads: nothing is written once the client has been told.  (The lock may stay behind, with
\* a session of the pool.)
AnsweredLeaveOnlyReads ==
  \A c \in Calls : stage[c] = "replied" =>
    \A t \in lent \cup Waiting : t.call = c => t.use \in {"target", "opposite"}

\* The pool is the only thing that keeps a request from its answer, a result or `still in
\* progress, retry later', whatever fails and whoever holds the lock of its key, a session
\* of the pool included.
AnsweredUnlessStuck == \A c \in Calls : stage[c] # "idle" ~> stage[c] = "replied" \/ Stuck

\* A request is answered, with a result or with `still in progress, retry later'.
EveryRequestAnswered == \A c \in Calls : stage[c] # "idle" ~> stage[c] = "replied"
=============================================================================
