------------------------- MODULE IdempotentMutation -------------------------
(***************************************************************************)
(* A signed policy mutation as the secure and the trusted use cases run    *)
(* it: the mutation of PolicyMutation, then an audit row, the two together *)
(* executed under an idempotency key by                                    *)
(* PostgresComplianceIdempotencyAdapter.executeOnce.                       *)
(*                                                                         *)
(* executeOnce takes a Postgres advisory lock on a session of its own; the *)
(* look-up, the mutation and the audit insert use other connections of the *)
(* pool.  So the lock and the work it guards can come apart: the session   *)
(* may be dropped while the work goes on, an unlock that fails leaves the  *)
(* lock with a session that goes back to the pool, and a process may die   *)
(* between the mutation and its audit row.                                 *)
(*                                                                         *)
(* `unguarded' is a history variable: no guard reads it.                   *)
(***************************************************************************)
CONSTANTS
  Calls, Networks, EvmNetworks, Names, Offered, NoRequest,  \* of PolicyMutation
  Keys,       \* idempotency keys
  NoKey,      \* the request carries none
  KeysSent,   \* what clients put in the idempotency-key field
  Sessions,   \* connections of the pool that executeOnce checks out
  NoSession,
  LegacyRows  \* audit rows older than the request_hash column

VARIABLES
  table, step, input, sawTarget, sawOpposite, changed, before, raced,
  phase,      \* where each request stands
  key,        \* its idempotency key
  request,    \* what it asks, normalised
  session,    \* the session its query runner holds
  owner,      \* the session that holds the advisory lock of a key
  leaked,     \* keys that their owner session holds once more than it will unlock
  broken,     \* sessions the server has dropped and a call still holds
  history,    \* rows of compliance_policy_mutation_history
  answer,     \* what each request is answered
  unguarded   \* history: keys whose lock was lost while the work went on

Policy == INSTANCE PolicyMutation

policyVars == <<table, step, input, sawTarget, sawOpposite, changed, before, raced>>
guardVars == <<session, owner, leaked, broken, unguarded>>
vars == <<policyVars, phase, key, request, guardVars, history, answer>>

\* The hash of a request covers all it asks: it stands for the request itself.
HistoryRows == [key : Keys \cup {NoKey}, request : Policy!Requests, hashed : BOOLEAN,
                changed : BOOLEAN]

\* The assumptions of PolicyMutation on its constants.
ASSUME PolicyAssumption ==
  /\ EvmNetworks \subseteq Networks
  /\ Offered \subseteq Policy!Requests
  /\ NoRequest \notin Policy!Requests

\* The migration adds its unique index only when no two rows share a key.
ASSUME LegacyAssumption ==
  /\ LegacyRows \subseteq {h \in HistoryRows : h.key \in Keys /\ ~ h.hashed}
  /\ \A g, h \in LegacyRows : g.key = h.key => g = h

ASSUME KeysSentAssumption == KeysSent \subseteq Keys \cup {NoKey}

ASSUME NullAssumption ==
  /\ NoKey \notin Keys
  /\ NoSession \notin Sessions
  /\ NoRequest \notin [request : Policy!Requests, changed : BOOLEAN]

Holding == {"lookup", "acting", "unlocking"}

Answers == [verdict : {"none", "ok", "conflict", "error"}, changed : BOOLEAN,
            replayed : BOOLEAN]

Reply(verdict) == [verdict |-> verdict, changed |-> FALSE, replayed |-> FALSE]

GuardTypeOK ==
  /\ phase \in [Calls -> {"idle", "queued", "polling", "replied"} \cup Holding]
  /\ key \in [Calls -> Keys \cup {NoKey}]
  /\ request \in [Calls -> Policy!Requests \cup {NoRequest}]
  /\ \A c \in Calls : phase[c] # "idle" => request[c] \in Policy!Requests
  /\ session \in [Calls -> Sessions \cup {NoSession}]
  /\ owner \in [Keys -> Sessions \cup {NoSession}]
  /\ leaked \subseteq Keys
  /\ broken \subseteq Sessions
  /\ history \subseteq HistoryRows
  /\ answer \in [Calls -> Answers]
  /\ unguarded \subseteq Keys

TypeOK == Policy!TypeOK /\ GuardTypeOK

-----------------------------------------------------------------------------

Keyed(c) == key[c] # NoKey

RowsOf(k) == {h \in history : h.key = k}

\* findByIdempotencyKey passes over a row that has no request hash.
Found(k) == {h \in RowsOf(k) : h.hashed}

InUse(s) == \E c \in Calls : session[c] = s

Init ==
  /\ Policy!Init
  /\ phase = [c \in Calls |-> "idle"]
  /\ key = [c \in Calls |-> NoKey]
  /\ request = [c \in Calls |-> NoRequest]
  /\ session = [c \in Calls |-> NoSession]
  /\ owner = [k \in Keys |-> NoSession]
  /\ leaked = {}
  /\ broken = {}
  /\ history \in {{}, LegacyRows}
  /\ answer = [c \in Calls |-> Reply("none")]
  /\ unguarded = {}

\* A request whose signature and timestamp are accepted.
Submit(c, k, r) ==
  /\ phase[c] = "idle"
  /\ key' = [key EXCEPT ![c] = k]
  /\ request' = [request EXCEPT ![c] = Policy!Normalized(r)]
  /\ IF k = NoKey
       THEN phase' = [phase EXCEPT ![c] = "acting"] /\ Policy!Begin(c, r)
       ELSE phase' = [phase EXCEPT ![c] = "queued"] /\ UNCHANGED policyVars
  /\ UNCHANGED <<guardVars, history, answer>>

Waiting(c) == phase[c] \in {"queued", "polling"}

\* Mutant of Available: the result of pg_try_advisory_lock is ignored.
AlwaysAvailable(k, s) == TRUE

Available(k, s) == owner[k] \in {NoSession, s}

\* pg_try_advisory_lock on a session of the pool; it succeeds again for a session
\* that already holds the lock.
TryLock(c, s) ==
  /\ Waiting(c)
  /\ ~ InUse(s)
  /\ Available(key[c], s)
  /\ session' = [session EXCEPT ![c] = s]
  /\ owner' = [owner EXCEPT ![key[c]] = s]
  /\ phase' = [phase EXCEPT ![c] = "lookup"]
  /\ UNCHANGED <<policyVars, key, request, leaked, broken, history, answer, unguarded>>

\* The lock is taken: sleep, give the session back, loop.
TryFails(c, s) ==
  /\ phase[c] = "queued"
  /\ ~ InUse(s)
  /\ ~ Available(key[c], s)
  /\ phase' = [phase EXCEPT ![c] = "polling"]
  /\ UNCHANGED <<policyVars, key, request, guardVars, history, answer>>

Answer(c, reply) == answer' = [answer EXCEPT ![c] = reply]

\* Mutant of GiveUp: the loop has no deadline.
PollForever(c) == FALSE

\* The deadline passes: `still in progress, retry later'.
GiveUp(c) ==
  /\ phase[c] = "polling"
  /\ phase' = [phase EXCEPT ![c] = "replied"]
  /\ Answer(c, Reply("conflict"))
  /\ UNCHANGED <<policyVars, key, request, guardVars, history>>

\* No connection, or the lock statement fails: unapplied, or applied by a session that
\* keeps the lock in the pool.
ConnectFails(c) ==
  /\ Waiting(c)
  /\ phase' = [phase EXCEPT ![c] = "replied"]
  /\ Answer(c, Reply("error"))
  /\ \/ UNCHANGED <<owner, leaked>>
     \/ \E s \in Sessions :
          /\ ~ InUse(s)
          /\ Available(key[c], s)
          /\ owner' = [owner EXCEPT ![key[c]] = s]
          /\ leaked' = leaked \cup {key[c]}
  /\ UNCHANGED <<policyVars, key, request, session, broken, unguarded, history>>

\* Mutant of Execute: the mutation runs whatever the look-up found.
ExecuteAnyway(c) ==
  /\ phase[c] = "lookup"
  /\ Policy!Begin(c, request[c])
  /\ phase' = [phase EXCEPT ![c] = "acting"]
  /\ UNCHANGED <<key, request, guardVars, history, answer>>

Execute(c) ==
  /\ phase[c] = "lookup"
  /\ Found(key[c]) = {}
  /\ Policy!Begin(c, request[c])
  /\ phase' = [phase EXCEPT ![c] = "acting"]
  /\ UNCHANGED <<key, request, guardVars, history, answer>>

\* Mutant of Replay: the request hash is not compared.
ReplayAnything(c) ==
  /\ phase[c] = "lookup"
  /\ \E h \in Found(key[c]) :
       Answer(c, [verdict |-> "ok", changed |-> h.changed, replayed |-> TRUE])
  /\ phase' = [phase EXCEPT ![c] = "unlocking"]
  /\ UNCHANGED <<policyVars, key, request, guardVars, history>>

Replay(c) ==
  /\ phase[c] = "lookup"
  /\ \E h \in Found(key[c]) :
       Answer(c, IF h.request = request[c]
                   THEN [verdict |-> "ok", changed |-> h.changed, replayed |-> TRUE]
                   ELSE Reply("conflict"))
  /\ phase' = [phase EXCEPT ![c] = "unlocking"]
  /\ UNCHANGED <<policyVars, key, request, guardVars, history>>

LookupFails(c) ==
  /\ phase[c] = "lookup"
  /\ Answer(c, Reply("error"))
  /\ phase' = [phase EXCEPT ![c] = "unlocking"]
  /\ UNCHANGED <<policyVars, key, request, guardVars, history>>

\* A statement of the mutation itself.
Mutate(c) ==
  /\ phase[c] = "acting"
  /\ Policy!Advance(c)
  /\ UNCHANGED <<phase, key, request, guardVars, history, answer>>

\* Mutant of Leave: no `finally'.
LeaveLocked(c) ==
  /\ Policy!Return(c)
  /\ phase' = [phase EXCEPT ![c] = "replied"]

\* The action returns or throws; `finally' comes next where there is a lock.
Leave(c) ==
  /\ Policy!Return(c)
  /\ phase' = [phase EXCEPT ![c] = IF Keyed(c) THEN "unlocking" ELSE "replied"]

\* The mutation throws: nothing is appended.
MutationThrows(c) ==
  /\ phase[c] = "acting"
  /\ step[c] \in {"rejected", "failed"}
  /\ Answer(c, Reply(IF step[c] = "rejected" THEN "conflict" ELSE "error"))
  /\ Leave(c)
  /\ UNCHANGED <<key, request, guardVars, history>>

AuditRow(c) == [key |-> key[c], request |-> request[c], hashed |-> Keyed(c),
                changed |-> changed[c]]

\* Mutant of Clashes: the migration without its unique index.
NoIndex(c) == FALSE

\* The partial unique index on idempotency_key.
Clashes(c) == Keyed(c) /\ RowsOf(key[c]) # {}

Done(c) == phase[c] = "acting" /\ step[c] = "done"

\* The insert commits; its acknowledgement may be lost.
Append(c) ==
  /\ Done(c)
  /\ ~ Clashes(c)
  /\ history' = history \cup {AuditRow(c)}
  /\ \/ Answer(c, [verdict |-> "ok", changed |-> changed[c], replayed |-> FALSE])
     \/ Answer(c, Reply("error"))
  /\ Leave(c)
  /\ UNCHANGED <<key, request, guardVars>>

\* The insert fails, always so when a row with the key is there.
AppendFails(c) ==
  /\ Done(c)
  /\ Answer(c, Reply("error"))
  /\ Leave(c)
  /\ UNCHANGED <<key, request, guardVars, history>>

\* The locks a session takes with it when it ends.
Freed(s) ==
  /\ owner' = [k \in Keys |-> IF owner[k] = s THEN NoSession ELSE owner[k]]
  /\ leaked' = {k \in leaked : owner[k] # s}

\* pg_advisory_unlock, and the query runner goes back to the pool, which replaces
\* a dropped connection.  A failing unlock is swallowed.
Unlock(c) ==
  LET s == session[c]
      k == key[c] IN
  /\ phase[c] = "unlocking"
  /\ \/ s \in broken /\ UNCHANGED <<owner, leaked>>
     \/ s \notin broken /\ k \in leaked /\ UNCHANGED <<owner, leaked>>
     \/ s \notin broken /\ k \notin leaked
        /\ owner' = [owner EXCEPT ![k] = NoSession]
        /\ UNCHANGED leaked
     \/ s \notin broken /\ leaked' = leaked \cup {k} /\ UNCHANGED owner
  /\ broken' = broken \ {s}
  /\ session' = [session EXCEPT ![c] = NoSession]
  /\ phase' = [phase EXCEPT ![c] = "replied"]
  /\ UNCHANGED <<policyVars, key, request, history, answer, unguarded>>

\* What a request leaves behind in the process once it is over.
Clear(c) ==
  /\ phase' = [phase EXCEPT ![c] = "idle"]
  /\ key' = [key EXCEPT ![c] = NoKey]
  /\ request' = [request EXCEPT ![c] = NoRequest]
  /\ Answer(c, Reply("none"))

Take(c) ==
  /\ phase[c] = "replied"
  /\ Clear(c)
  /\ UNCHANGED <<policyVars, guardVars, history>>

\* The server drops a session that a call holds or that kept a lock: a failover,
\* a network cut, the pool closing an idle client.
SessionDrops(s) ==
  /\ s \notin broken
  /\ \E k \in Keys : owner[k] = s
  /\ Freed(s)
  /\ broken' = IF InUse(s) THEN broken \cup {s} ELSE broken
  /\ unguarded' = unguarded \cup
       {key[c] : c \in {d \in Calls : session[d] = s /\ phase[d] \in {"lookup", "acting"}}}
  /\ UNCHANGED <<policyVars, phase, key, request, session, history, answer>>

\* The process dies with the request, and its session with it.
Crash(c) ==
  LET s == session[c] IN
  /\ phase[c] # "idle"
  /\ Clear(c)
  /\ Policy!Forget(c)
  /\ IF s \in Sessions \ broken THEN Freed(s) ELSE UNCHANGED <<owner, leaked>>
  /\ broken' = broken \ {s}
  /\ session' = [session EXCEPT ![c] = NoSession]
  /\ UNCHANGED <<table, history, unguarded>>

Progress(c) ==
  \/ \E s \in Sessions : TryLock(c, s) \/ TryFails(c, s)
  \/ GiveUp(c)
  \/ Execute(c)
  \/ Replay(c)
  \/ Mutate(c)
  \/ MutationThrows(c)
  \/ Append(c)
  \/ AppendFails(c)
  \/ Unlock(c)

Next ==
  \/ \E c \in Calls :
       \/ \E k \in KeysSent, r \in Offered : Submit(c, k, r)
       \/ Progress(c)
       \/ ConnectFails(c)
       \/ LookupFails(c)
       \/ Take(c)
       \/ Crash(c)
  \/ \E s \in Sessions : SessionDrops(s)

Spec == Init /\ [][Next]_vars

\* Node runs the steps of a request as long as its process lives; awaits and timers end.
Fairness == \A c \in Calls : WF_vars(Progress(c))

FairSpec == Spec /\ Fairness

-----------------------------------------------------------------------------

\* Every positive answer, first or replayed, has its audit row: the row says what
\* was asked and the `changed' the client is told, and under a key it is the only
\* one, so all the positive answers of a key agree (runMutation, executeOnce).
EveryAnswerIsOnRecord ==
  \A c \in Calls : answer[c].verdict = "ok" =>
    \E h \in RowsOf(key[c]) :
      /\ h.request = request[c]
      /\ h.changed = answer[c].changed
      /\ Keyed(c) => RowsOf(key[c]) = {h}

\* Two requests are past the lock of one key only when the session of one of them
\* was dropped under its work; a leaked lock never lets a second one in.
OneOwner ==
  \A c, d \in Calls :
    c # d /\ Keyed(c) /\ key[c] = key[d]
      /\ {phase[c], phase[d]} \subseteq {"lookup", "acting"}
    => key[c] \in unguarded

\* While the lock is not lost, the mutation runs only under a key that no audit
\* row has, so its own row is sure to pass the unique index; a row older than the
\* request hash is the exception.
GuardedRunCanBeRecorded ==
  \A c \in Calls :
    phase[c] = "acting" /\ Keyed(c) /\ key[c] \notin unguarded => Found(key[c]) = {}

\* A lock is held on behalf of a request in progress, or by a failed unlock:
\* neither an error path nor a dropped session nor a crash leaves one behind.
NoForgottenLock ==
  \A k \in Keys : owner[k] # NoSession =>
    k \in leaked \/ \E c \in Calls : phase[c] \in Holding /\ key[c] = k /\ session[c] = owner[k]

\* Every request that waits for the lock is answered, whatever the others and the
\* database do, unless its process dies.
EveryRequestAnswered == \A c \in Calls : Waiting(c) ~> phase[c] \in {"replied", "idle"}

\* The promise of the keys as an abstract specification, the audit table being the
\* record: crashes, lost sessions and lost acknowledgements included.
Decision(h) == [request |-> h.request, changed |-> h.changed]

Decisions == [request : {Policy!Normalized(r) : r \in Offered}, changed : BOOLEAN]

DecisionOf(rows) ==
  IF rows = {} THEN NoRequest ELSE Decision(CHOOSE h \in rows : TRUE)

recordOf == [k \in Keys |-> DecisionOf(Found(k))]

toldTo ==
  [c \in Calls |->
    IF answer[c].verdict = "ok" /\ Keyed(c)
      THEN <<key[c], [request |-> request[c], changed |-> answer[c].changed]>>
      ELSE <<>>]

Record == INSTANCE WriteOnceRecord WITH
  Clients <- Calls, Undecided <- NoRequest, record <- recordOf, told <- toldTo

KeysAreWriteOnce == Record!Spec

-----------------------------------------------------------------------------
(* What makes the properties inductive. *)

\* A session serves one request, from the lock to the unlock; a dropped one that no
\* request holds is replaced, and holds no lock.
SessionsFit ==
  /\ \A c \in Calls :
       /\ phase[c] \in {"queued", "polling", "lookup", "unlocking"} => Keyed(c)
       /\ session[c] # NoSession <=> phase[c] \in Holding /\ Keyed(c)
       /\ \A d \in Calls : session[c] = session[d] /\ session[c] # NoSession => c = d
  /\ \A s \in broken : InUse(s)
  /\ \A k \in Keys : owner[k] \notin broken

\* A request past the lock holds it, until its session is dropped.
LocksFit ==
  \A c \in Calls : phase[c] \in Holding /\ Keyed(c) =>
    /\ session[c] \notin broken => owner[key[c]] = session[c]
    /\ session[c] \in broken /\ phase[c] # "unlocking" => key[c] \in unguarded

\* A request is in the mutation exactly while it acts, it asks what a client has
\* sent, and it is told nothing before it has acted or looked up.
PhasesFit ==
  \A c \in Calls :
    /\ phase[c] = "acting" <=> step[c] # "idle"
    /\ phase[c] # "idle" => request[c] \in {Policy!Normalized(r) : r \in Offered}
    /\ phase[c] \notin {"unlocking", "replied"} => answer[c] = Reply("none")

OneRowPerKey == \A g, h \in history : g.key = h.key /\ g.key \in Keys => g = h

IInv ==
  /\ TypeOK
  /\ SessionsFit
  /\ LocksFit
  /\ PhasesFit
  /\ OneRowPerKey
  /\ NoForgottenLock
  /\ GuardedRunCanBeRecorded
  /\ EveryAnswerIsOnRecord

=============================================================================
