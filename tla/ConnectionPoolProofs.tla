------------------------ MODULE ConnectionPoolProofs ------------------------
(***************************************************************************)
(* Proofs about ConnectionPool, for every number of requests, keys and     *)
(* connections.                                                            *)
(***************************************************************************)
EXTENDS ConnectionPool, TLAPS

-----------------------------------------------------------------------------
(* The inductive invariant. *)

\* Only a request with a key asks for a session.
KeyedWaits ==
  \A c \in Calls : stage[c] \in {"connecting", "locking", "sleeping"} => Keyed(c)

\* Who has a session is between the connection and the unlocking.
SessionsLent ==
  \A c \in Calls : Ticket(c, "session") \in lent =>
    Keyed(c) /\ stage[c] \in {"locking", "sleeping", "unlocking"} \cup Working

\* Who asks for a lock has a session to ask with.
SessionsAtLock ==
  \A c \in Calls : stage[c] = "locking" => Ticket(c, "session") \in lent

\* Who waits for a session is connecting.
SessionsWaiting ==
  \A c \in Calls : Ticket(c, "session") \in Waiting => stage[c] = "connecting"

\* The lock of a key is with the request under that key that works or unlocks and has its
\* session still.
LocksOwned ==
  \A c \in Calls, k \in Keys :
    owner[k] = c <=> /\ key[c] = k /\ stage[c] \in Working \cup {"unlocking"}
                     /\ Ticket(c, "session") \in lent

\* Nobody stands in line twice, or has a connection and stands in line.
TicketsOnce ==
  /\ \A i, j \in 1..Len(queue) : queue[i] = queue[j] => i = j
  /\ lent \cap Waiting = {}

\* A statement belongs to the stage of its request, but for the look-ups that a failure
\* has left behind.
StatementsInTime ==
  \A t \in lent \cup Waiting : t.use # "session" =>
    \/ t.use \in Uses(stage[t.call])
    \/ t.use \in {"target", "opposite"} /\ stage[t.call] \in {"unlocking", "replied"}

IInv ==
  /\ TypeOK
  /\ KeyedWaits
  /\ SessionsLent
  /\ SessionsAtLock
  /\ SessionsWaiting
  /\ LocksOwned
  /\ TicketsOnce
  /\ StatementsInTime

-----------------------------------------------------------------------------
(* Tickets and the line. *)

LEMMA TicketFields ==
  /\ \A c \in Calls, u \in Statements \cup {"session"} :
       Ticket(c, u) \in Tickets /\ Ticket(c, u).call = c /\ Ticket(c, u).use = u
  /\ \A t \in Tickets : /\ t.call \in Calls /\ t.use \in Statements \cup {"session"}
                        /\ t = Ticket(t.call, t.use)
BY DEF Tickets, Ticket

\* The statements of a stage.
LEMMA UsesOf ==
  ASSUME NEW s
  PROVE  Uses(s) = IF s = "exists" THEN {"target", "opposite"} ELSE {s}
<1>1. CASE s = "exists"
  BY <1>1 DEF Uses, StatementsOf
<1>2. CASE s # "exists"
  BY <1>2 DEF Uses, StatementsOf
<1> QED
  BY <1>1, <1>2

LEMMA UsesAreStatements == \A s \in Working : Uses(s) \subseteq Statements
BY UsesOf DEF Working, Statements

\* No statement is a session.
LEMMA NoStatementIsSession ==
  ASSUME NEW c \in Calls, NEW s \in Working, NEW d \in Calls
  PROVE  Ticket(d, "session") \notin {Ticket(c, u) : u \in Uses(s)}
<1>1. \A u \in Uses(s) : Ticket(c, u).use # "session"
  BY UsesAreStatements, TicketFields DEF Statements
<1> QED
  BY <1>1, TicketFields

LEMMA WaitingTickets ==
  ASSUME TypeOK
  PROVE  Waiting = {queue[i] : i \in 1..Len(queue)} /\ Waiting \subseteq Tickets
BY DEF TypeOK, Waiting

\* One more in line.
LEMMA Joins ==
  ASSUME TypeOK, NEW t \in Tickets, queue' = Append(queue, t)
  PROVE  /\ queue' \in Seq(Tickets)
         /\ Waiting' = Waiting \cup {t}
         /\ (t \notin Waiting /\ \A i, j \in 1..Len(queue) : queue[i] = queue[j] => i = j)
              => \A i, j \in 1..Len(queue') : queue'[i] = queue'[j] => i = j
<1>1. /\ queue' \in Seq(Tickets) /\ Len(queue') = Len(queue) + 1 /\ Len(queue) \in Nat
      /\ \A i \in 1..Len(queue) : queue'[i] = queue[i]
      /\ queue'[Len(queue) + 1] = t
  BY DEF TypeOK
<1>2. Waiting' = {queue'[i] : i \in 1..Len(queue')}
  BY <1>1 DEF Waiting
<1> QED
  BY <1>1, <1>2, WaitingTickets

\* The first in line is served.
LEMMA Served ==
  ASSUME TypeOK, queue # <<>>, queue' = Tail(queue),
         \A i, j \in 1..Len(queue) : queue[i] = queue[j] => i = j
  PROVE  /\ queue' \in Seq(Tickets)
         /\ Head(queue) \in Waiting
         /\ Waiting' = Waiting \ {Head(queue)}
         /\ \A i, j \in 1..Len(queue') : queue'[i] = queue'[j] => i = j
<1>1. /\ queue' \in Seq(Tickets) /\ Len(queue) \in Nat \ {0}
      /\ Len(queue') = Len(queue) - 1
      /\ \A i \in 1..Len(queue') : queue'[i] = queue[i + 1]
      /\ Head(queue) = queue[1]
  BY DEF TypeOK
<1>2. Waiting' = {queue'[i] : i \in 1..Len(queue')}
  <2>1. DOMAIN queue' = 1..Len(queue')
    BY <1>1 DEF TypeOK
  <2> QED
    BY <2>1, Zenon DEF Waiting
<1>3. Waiting = {queue[i] : i \in 1..Len(queue)}
  BY WaitingTickets
<1>4. \A i \in 1..Len(queue) : i = 1 \/ (i - 1 \in 1..Len(queue') /\ queue'[i - 1] = queue[i])
  BY <1>1
<1> QED
  BY <1>1, <1>2, <1>3, <1>4

\* The statements of a stage join the line.
LEMMA Enters ==
  ASSUME TypeOK, NEW c \in Calls, NEW s \in Working, Enter(c, s)
  PROVE  /\ queue' \in Seq(Tickets)
         /\ Waiting' = Waiting \cup {Ticket(c, u) : u \in Uses(s)}
         /\ (/\ \A u \in Uses(s) : Ticket(c, u) \notin Waiting
             /\ \A i, j \in 1..Len(queue) : queue[i] = queue[j] => i = j)
              => \A i, j \in 1..Len(queue') : queue'[i] = queue'[j] => i = j
<1>1. CASE s = "exists"
  <2>1. queue' = queue \o <<Ticket(c, "target"), Ticket(c, "opposite")>>
    BY <1>1 DEF Enter, StatementsOf
  <2>2. Ticket(c, "target") \in Tickets /\ Ticket(c, "opposite") \in Tickets
        /\ Ticket(c, "target") # Ticket(c, "opposite")
    BY TicketFields DEF Statements
  <2>3. /\ queue' \in Seq(Tickets) /\ Len(queue') = Len(queue) + 2 /\ Len(queue) \in Nat
        /\ \A i \in 1..Len(queue) : queue'[i] = queue[i]
        /\ queue'[Len(queue) + 1] = Ticket(c, "target")
        /\ queue'[Len(queue) + 2] = Ticket(c, "opposite")
    BY <2>1, <2>2 DEF TypeOK
  <2>4. Waiting' = {queue'[i] : i \in 1..Len(queue')}
    BY <2>3 DEF Waiting
  <2>5. Uses(s) = {"target", "opposite"}
    BY <1>1, UsesOf
  <2> QED
    BY <2>2, <2>3, <2>4, <2>5, WaitingTickets
<1>2. CASE s # "exists"
  <2>1. queue' = queue \o <<Ticket(c, s)>> /\ Uses(s) = {s}
    BY <1>2, UsesOf DEF Enter, StatementsOf
  <2>2. Ticket(c, s) \in Tickets
    BY <1>2, TicketFields DEF Working, Statements
  <2>3. queue' = Append(queue, Ticket(c, s))
    BY <2>1, <2>2 DEF TypeOK
  <2> QED
    BY <2>1, <2>2, <2>3, Joins
<1> QED
  BY <1>1, <1>2

-----------------------------------------------------------------------------
(* What each step keeps. *)

\* A step that is about statements only keeps the sessions that are lent.
SessionsKept ==
  \A c \in Calls : Ticket(c, "session") \in lent' <=> Ticket(c, "session") \in lent

LEMMA StatementGone ==
  ASSUME NEW c \in Calls, NEW u \in Statements, lent' = lent \ {Ticket(c, u)}
  PROVE  SessionsKept
BY TicketFields DEF SessionsKept, Statements

LEMMA InitHolds == Init => IInv
BY PoolAssumption, WaitingTickets
   DEF Init, IInv, TypeOK, KeyedWaits, SessionsLent, SessionsAtLock, SessionsWaiting,
       LocksOwned, TicketsOnce, StatementsInTime, Stages, Working, Waiting

\* Who is idle, or not yet at work, has no statement anywhere.
LEMMA NoStatements ==
  ASSUME IInv, NEW c \in Calls,
         stage[c] \in {"idle", "connecting", "locking", "sleeping"}, NEW u \in Statements
  PROVE  Ticket(c, u) \notin lent \cup Waiting
BY TicketFields, UsesOf DEF IInv, StatementsInTime, Statements

LEMMA SubmitHolds ==
  ASSUME IInv, NEW c \in Calls, NEW k \in KeysSent[c], Submit(c, k)
  PROVE  IInv'
<1> USE DEF IInv
<1>0. /\ stage[c] = "idle" /\ UNCHANGED <<owner, leaked, lent, expired, losses>>
      /\ key' = [key EXCEPT ![c] = k] /\ k \in Keys \cup {NoKey}
  BY PoolAssumption DEF Submit
<1>1. \A u \in Statements \cup {"session"} : Ticket(c, u) \notin lent \cup Waiting
  BY <1>0, NoStatements DEF SessionsLent, SessionsWaiting, Working
<1>2. CASE k = NoKey
  <2>1. PICK s \in {"exists", "remove"} : Enter(c, s)
    BY <1>2 DEF Submit
  <2>2. stage' = [stage EXCEPT ![c] = s] /\ s \in Working
    BY <2>1 DEF Enter, GoTo, Working
  <2>3. /\ queue' \in Seq(Tickets)
        /\ Waiting' = Waiting \cup {Ticket(c, u) : u \in Uses(s)}
        /\ \A i, j \in 1..Len(queue') : queue'[i] = queue'[j] => i = j
    BY <1>1, <2>1, <2>2, Enters, UsesAreStatements DEF TicketsOnce
  <2>4. TypeOK'
    BY <1>0, <1>2, <2>2, <2>3 DEF TypeOK, Stages, Working
  <2>5. KeyedWaits' /\ LocksOwned' /\ SessionsAtLock'
    BY <1>0, <1>1, <1>2, <2>2, PoolAssumption
       DEF KeyedWaits, LocksOwned, SessionsAtLock, Keyed, TypeOK, Working
  <2>6. SessionsLent'
    BY <1>0, <1>1, <2>2 DEF SessionsLent, Keyed, TypeOK
  <2>7. SessionsWaiting'
    <3>1. \A d \in Calls : Ticket(d, "session") \in Waiting'
                            => d # c /\ Ticket(d, "session") \in Waiting
      BY <1>1, <2>2, <2>3, NoStatementIsSession
    <3> QED
      BY <2>2, <3>1 DEF SessionsWaiting, TypeOK
  <2>8. TicketsOnce'
    BY <1>0, <1>1, <2>2, <2>3, UsesAreStatements DEF TicketsOnce
  <2>9. StatementsInTime'
    <3>1. \A t \in lent \cup Waiting : t.call # c /\ t.call \in Calls
      BY <1>1, TicketFields, WaitingTickets DEF TypeOK
    <3> QED
      BY <1>0, <2>2, <2>3, <3>1, TicketFields, UsesAreStatements
         DEF StatementsInTime, TypeOK
  <2> QED
    BY <2>4, <2>5, <2>6, <2>7, <2>8, <2>9
<1>3. CASE k # NoKey
  <2>1. /\ stage' = [stage EXCEPT ![c] = "connecting"]
        /\ queue' = Append(queue, Ticket(c, "session"))
    BY <1>3 DEF Submit, AskSession, GoTo
  <2>2. /\ queue' \in Seq(Tickets)
        /\ Waiting' = Waiting \cup {Ticket(c, "session")}
        /\ \A i, j \in 1..Len(queue') : queue'[i] = queue'[j] => i = j
    BY <1>1, <2>1, Joins, TicketFields DEF TicketsOnce
  <2>3. TypeOK'
    BY <1>0, <2>1, <2>2, PoolAssumption DEF TypeOK, Stages
  <2>4. KeyedWaits' /\ LocksOwned' /\ SessionsAtLock'
    BY <1>0, <1>1, <1>3, <2>1, PoolAssumption
       DEF KeyedWaits, LocksOwned, SessionsAtLock, Keyed, TypeOK, Working
  <2>5. SessionsLent' /\ SessionsWaiting' /\ TicketsOnce'
    BY <1>0, <1>1, <2>1, <2>2, TicketFields
       DEF SessionsLent, SessionsWaiting, TicketsOnce, Keyed, TypeOK
  <2>6. StatementsInTime'
    <3>1. \A t \in lent \cup Waiting : t.call # c /\ t.call \in Calls
      BY <1>1, TicketFields, WaitingTickets DEF TypeOK
    <3> QED
      BY <1>0, <2>1, <2>2, <3>1, TicketFields DEF StatementsInTime, TypeOK
  <2> QED
    BY <2>3, <2>4, <2>5, <2>6
<1> QED
  BY <1>2, <1>3

LEMMA GrantHolds == IInv /\ Grant => IInv'
<1> SUFFICES ASSUME IInv, Grant PROVE IInv'
  OBVIOUS
<1> USE DEF IInv
<1> DEFINE t == Head(queue)
<1>1. /\ queue' \in Seq(Tickets) /\ t \in Waiting /\ Waiting' = Waiting \ {t}
      /\ \A i, j \in 1..Len(queue') : queue'[i] = queue'[j] => i = j
  BY Served DEF Grant, TicketsOnce
<1>2. /\ t \in Tickets /\ lent' = lent \cup {t}
      /\ UNCHANGED <<key, owner, leaked, expired, losses>>
      /\ IF t.use = "session" THEN stage' = [stage EXCEPT ![t.call] = "locking"]
                              ELSE UNCHANGED stage
  BY <1>1, WaitingTickets DEF Grant, GoTo
<1>3. t.call \in Calls /\ t = Ticket(t.call, t.use)
  BY <1>2, TicketFields
<1> HIDE DEF t
<1>4. t.use = "session" => stage[t.call] = "connecting" /\ Keyed(t.call)
  BY <1>1, <1>3 DEF SessionsWaiting, KeyedWaits
<1>5. TypeOK'
  BY <1>1, <1>2, <1>3 DEF TypeOK, Stages
<1>6. KeyedWaits'
  BY <1>2, <1>3, <1>4 DEF KeyedWaits, Keyed, TypeOK
<1>10. LocksOwned'
  <2>1. CASE t.use = "session"
    <3>1. /\ stage[t.call] = "connecting" /\ stage'[t.call] = "locking"
          /\ \A d \in Calls \ {t.call} :
               /\ stage'[d] = stage[d]
               /\ Ticket(d, "session") \in lent' <=> Ticket(d, "session") \in lent
      BY <1>2, <1>3, <1>4, <2>1, TicketFields DEF TypeOK
    <3> QED
      BY <1>2, <3>1 DEF LocksOwned, Working
  <2>2. CASE t.use # "session"
    <3>1. UNCHANGED stage /\ SessionsKept
      BY <1>2, <1>3, <2>2, TicketFields DEF SessionsKept
    <3> QED
      BY <1>2, <3>1 DEF LocksOwned, SessionsKept
  <2> QED
    BY <2>1, <2>2
<1>7. SessionsLent' /\ SessionsAtLock' /\ SessionsWaiting'
  BY <1>1, <1>2, <1>3, <1>4, TicketFields
     DEF SessionsLent, SessionsAtLock, SessionsWaiting, Keyed, TypeOK, Working
<1>8. TicketsOnce'
  BY <1>1, <1>2 DEF TicketsOnce
<1>9. StatementsInTime'
  <2>1. \A d \in lent \cup Waiting : d \in Tickets
    BY WaitingTickets DEF TypeOK
  <2>2. \A d \in lent \cup Waiting :
          (t.use = "session" /\ d.use # "session") => d.call # t.call
    BY <1>3, <1>4, <2>1, NoStatements, TicketFields
  <2> QED
    BY <1>1, <1>2, <1>3, <2>1, <2>2, TicketFields DEF StatementsInTime, TypeOK
<1> QED
  BY <1>5, <1>6, <1>7, <1>8, <1>9, <1>10

\* A request goes on to its next stage with no statement on its way: those of the stage
\* join the line.
LEMMA NextStage ==
  ASSUME IInv, NEW c \in Calls, NEW s \in Working, Enter(c, s),
         NEW gone \in SUBSET lent, lent' = lent \ gone,
         \A t \in gone : t.use # "session",
         \A t \in lent' \cup Waiting : t.call = c => t.use = "session",
         stage[c] \in Working \cup {"locking"}, Ticket(c, "session") \notin Waiting,
         UNCHANGED <<key, leaked, expired, losses>>,
         owner' \in [Keys -> Calls \cup {NoCall}], LocksOwned'
  PROVE  IInv'
<1> USE DEF IInv
<1>1. stage' = [stage EXCEPT ![c] = s]
  BY DEF Enter, GoTo
<1>2. \A u \in Statements : Ticket(c, u) \notin lent' \cup Waiting
  BY TicketFields DEF Statements
<1>3. /\ queue' \in Seq(Tickets)
      /\ Waiting' = Waiting \cup {Ticket(c, u) : u \in Uses(s)}
      /\ \A i, j \in 1..Len(queue') : queue'[i] = queue'[j] => i = j
  BY <1>2, Enters, UsesAreStatements DEF TicketsOnce
<1>4. TypeOK'
  BY <1>1, <1>3 DEF TypeOK, Stages, Working
<1>5. KeyedWaits'
  BY <1>1 DEF KeyedWaits, Keyed, TypeOK, Working
<1>6. SessionsLent' /\ SessionsAtLock'
  BY <1>1, TicketFields DEF SessionsLent, SessionsAtLock, Keyed, TypeOK, Working
<1>7. SessionsWaiting'
  <2>1. \A d \in Calls : Ticket(d, "session") \in Waiting'
                          => d # c /\ Ticket(d, "session") \in Waiting
    BY <1>3, NoStatementIsSession
  <2> QED
    BY <1>1, <2>1 DEF SessionsWaiting, TypeOK
<1>8. TicketsOnce'
  BY <1>2, <1>3, UsesAreStatements DEF TicketsOnce
<1>9. StatementsInTime'
  <2>1. \A t \in lent' \cup Waiting : t.call \in Calls
    BY TicketFields, WaitingTickets DEF TypeOK
  <2>2. \A t \in lent' \cup Waiting : t.use # "session" => stage'[t.call] = stage[t.call]
    BY <1>1, <2>1 DEF TypeOK
  <2>3. \A u \in Uses(s) : Ticket(c, u).use \in Uses(stage'[Ticket(c, u).call])
    BY <1>1, TicketFields, UsesAreStatements DEF TypeOK
  <2> QED
    BY <1>3, <2>2, <2>3 DEF StatementsInTime
<1> QED
  BY <1>4, <1>5, <1>6, <1>7, <1>8, <1>9

LEMMA TryLockHolds ==
  ASSUME IInv, NEW c \in Calls, TryLock(c)
  PROVE  IInv'
<1> USE DEF IInv
<1>0. /\ stage[c] = "locking" /\ key[c] \in Keys
      /\ UNCHANGED <<key, leaked, lent, expired, losses>>
  BY DEF TryLock, KeyedWaits, Keyed, TypeOK
<1>1. \A t \in lent \cup Waiting : t.call = c => t.use = "session"
  BY <1>0, NoStatements, TicketFields, WaitingTickets DEF TypeOK
<1>2. Ticket(c, "session") \notin Waiting
  BY <1>0 DEF SessionsWaiting
<1>3. CASE /\ LockFree(key[c]) /\ Enter(c, "find")
           /\ owner' = [owner EXCEPT ![key[c]] = c]
  <2>1. "find" \in Working
    BY DEF Working
  <2>2. stage' = [stage EXCEPT ![c] = "find"]
    BY <1>3 DEF Enter, GoTo
  <2>3. LocksOwned'
    <3>1. Ticket(c, "session") \in lent
      BY <1>0 DEF SessionsAtLock
    <3> QED
      BY <1>0, <1>3, <2>2, <3>1, PoolAssumption DEF LocksOwned, LockFree, TypeOK, Working
  <2>4. owner' \in [Keys -> Calls \cup {NoCall}]
    BY <1>0, <1>3 DEF TypeOK
  <2>5. lent' = lent \ {} /\ {} \in SUBSET lent
    BY <1>0
  <2> QED
    BY <1>0, <1>1, <1>2, <1>3, <2>1, <2>3, <2>4, <2>5, NextStage
<1>4. CASE GoTo(c, "sleeping") /\ UNCHANGED <<owner, queue>>
  <2>1. stage' = [stage EXCEPT ![c] = "sleeping"]
    BY <1>4 DEF GoTo
  <2>2. Waiting' = Waiting
    BY <1>4 DEF Waiting
  <2>3. TypeOK' /\ KeyedWaits' /\ LocksOwned'
    BY <1>0, <1>4, <2>1 DEF TypeOK, KeyedWaits, LocksOwned, Keyed, Stages, Working
  <2>4. SessionsLent' /\ SessionsWaiting' /\ TicketsOnce' /\ SessionsAtLock'
    BY <1>0, <1>2, <1>4, <2>1, <2>2
       DEF SessionsLent, SessionsWaiting, TicketsOnce, SessionsAtLock, Keyed, TypeOK, Working
  <2>5. StatementsInTime'
    BY <1>0, <1>1, <2>1, <2>2, TicketFields, WaitingTickets DEF StatementsInTime, TypeOK
  <2> QED
    BY <2>3, <2>4, <2>5
<1> QED
  BY <1>3, <1>4 DEF TryLock

\* A request ends its work, or ends; it leaves nothing but look-ups behind.
LEMMA EndsWell ==
  ASSUME IInv, NEW c \in Calls, NEW s \in {"unlocking", "replied"}, GoTo(c, s),
         UNCHANGED <<key, expired>>, owner' \in [Keys -> Calls \cup {NoCall}], LocksOwned',
         leaked' \in SUBSET Keys, losses' \in 0..MaxLosses,
         s = "unlocking" => Keyed(c),
         lent' \subseteq lent, \A t \in lent : t.call # c => t \in lent',
         queue' \in Seq(Tickets), Waiting' \subseteq Waiting,
         \A i, j \in 1..Len(queue') : queue'[i] = queue'[j] => i = j,
         Ticket(c, "session") \notin Waiting',
         s = "replied" => Ticket(c, "session") \notin lent',
         \A t \in lent' \cup Waiting' :
           t.call = c /\ t.use # "session" => t.use \in {"target", "opposite"}
  PROVE  IInv'
<1> USE DEF IInv, GoTo
<1>1. TypeOK'
  BY DEF TypeOK, Stages, Keyed
<1>2. KeyedWaits' /\ TicketsOnce'
  BY DEF KeyedWaits, TicketsOnce, Keyed, TypeOK
<1>3. SessionsLent' /\ SessionsAtLock' /\ SessionsWaiting'
  BY TicketFields DEF SessionsLent, SessionsAtLock, SessionsWaiting, Keyed, TypeOK
<1>4. StatementsInTime'
  BY TicketFields, WaitingTickets DEF StatementsInTime, TypeOK
<1> QED
  BY <1>1, <1>2, <1>3, <1>4

\* Finish leads to where the lock and the session say.
LEMMA FinishLeads ==
  ASSUME IInv, NEW c \in Calls, Finish(c), stage[c] \in Working, UNCHANGED <<key, owner>>,
         SessionsKept
  PROVE  /\ \E s \in {"unlocking", "replied"} :
              /\ GoTo(c, s) /\ (s = "unlocking" => Keyed(c))
              /\ (s = "replied" => Ticket(c, "session") \notin lent)
         /\ LocksOwned'
         /\ Ticket(c, "session") \notin Waiting
<1>1. LocksOwned'
  BY PoolAssumption
     DEF Finish, GoTo, IInv, LocksOwned, SessionsKept, TypeOK, Keyed, Working
<1> QED
  BY <1>1 DEF Finish, IInv, SessionsLent, SessionsWaiting, Working

\* Where a statement of its own stage was on its way, the request is at work, and any
\* other one is the other look-up.
LEMMA OtherLookUp ==
  ASSUME IInv, NEW c \in Calls, NEW u \in Statements, u \in Uses(stage[c])
  PROVE  /\ stage[c] \in Working
         /\ \A t \in lent \cup Waiting :
              t.call = c /\ t.use # "session" /\ t # Ticket(c, u)
                => t.use \in {"target", "opposite"}
<1>1. stage[c] \in Working
  BY UsesOf DEF IInv, TypeOK, Stages, Statements, Working
<1>2. ASSUME NEW t \in lent \cup Waiting, t.call = c, t.use # "session", t # Ticket(c, u)
      PROVE  t.use \in {"target", "opposite"}
  <2>1. t.use # u
    BY <1>2, TicketFields, WaitingTickets DEF IInv, TypeOK
  <2> QED
    BY <1>1, <1>2, <2>1, UsesOf DEF IInv, StatementsInTime
<1> QED
  BY <1>1, <1>2

LEMMA GrantFailsHolds == IInv /\ GrantFails => IInv'
<1> SUFFICES ASSUME IInv, GrantFails PROVE IInv'
  OBVIOUS
<1> USE DEF IInv
<1> DEFINE t == Head(queue)
<1>1. /\ queue' \in Seq(Tickets) /\ t \in Waiting /\ Waiting' = Waiting \ {t}
      /\ \A i, j \in 1..Len(queue') : queue'[i] = queue'[j] => i = j
  BY Served DEF GrantFails, TicketsOnce
<1>2. /\ UNCHANGED <<key, owner, leaked, lent, expired, losses>> /\ SessionsKept
      /\ CASE t.use = "session"             -> GoTo(t.call, "replied")
           [] t.use \in Uses(stage[t.call]) -> Finish(t.call)
           [] OTHER                         -> UNCHANGED stage
  BY DEF GrantFails, SessionsKept
<1>3. /\ t \in Tickets /\ t.call \in Calls /\ t = Ticket(t.call, t.use) /\ t \notin lent
      /\ t.use \in Statements \cup {"session"}
  BY <1>1, TicketFields, WaitingTickets DEF TicketsOnce
<1> HIDE DEF t
<1>4. CASE t.use = "session"
  <2>1. stage[t.call] = "connecting" /\ GoTo(t.call, "replied")
    <3>1. Ticket(t.call, "session") \in Waiting
      BY <1>1, <1>3, <1>4
    <3>2. stage[t.call] = "connecting"
      BY <1>3, <3>1 DEF SessionsWaiting
    <3>3. t.use \notin Uses(stage[t.call])
      BY <1>4, <3>2, UsesOf
    <3> QED
      BY <1>2, <1>4, <3>2, <3>3
  <2>2. \A d \in lent \cup Waiting : d.call = t.call => d.use = "session"
    BY <1>3, <2>1, NoStatements, TicketFields, WaitingTickets DEF TypeOK
  <2>3. LocksOwned'
    BY <1>2, <1>3, <2>1 DEF GoTo, LocksOwned, TypeOK, Working
  <2>4. Ticket(t.call, "session") \notin lent /\ Ticket(t.call, "session") \notin Waiting'
    BY <1>1, <1>3, <1>4
  <2>5. /\ owner' \in [Keys -> Calls \cup {NoCall}]
        /\ leaked' \in SUBSET Keys /\ losses' \in 0..MaxLosses
    BY <1>2 DEF TypeOK
  <2> QED
    BY <1>1, <1>2, <1>3, <2>1, <2>2, <2>3, <2>4, <2>5, EndsWell
<1>5. CASE t.use # "session" /\ t.use \in Uses(stage[t.call])
  <2>1. Finish(t.call) /\ stage[t.call] \in Working
    BY <1>2, <1>3, <1>5, OtherLookUp
  <2>2. PICK s \in {"unlocking", "replied"} :
          /\ GoTo(t.call, s) /\ (s = "unlocking" => Keyed(t.call))
          /\ (s = "replied" => Ticket(t.call, "session") \notin lent)
    BY <1>2, <1>3, <2>1, FinishLeads
  <2>3. LocksOwned' /\ Ticket(t.call, "session") \notin Waiting
    BY <1>2, <1>3, <2>1, FinishLeads
  <2>4. \A d \in lent \cup Waiting' : d.call = t.call /\ d.use # "session"
                                      => d.use \in {"target", "opposite"}
    BY <1>1, <1>3, <1>5, OtherLookUp
  <2>5. /\ owner' \in [Keys -> Calls \cup {NoCall}]
        /\ leaked' \in SUBSET Keys /\ losses' \in 0..MaxLosses
    BY <1>2 DEF TypeOK
  <2> QED
    BY <1>1, <1>2, <1>3, <2>2, <2>3, <2>4, <2>5, EndsWell
<1>6. CASE t.use # "session" /\ t.use \notin Uses(stage[t.call])
  <2>1. UNCHANGED stage
    BY <1>2, <1>6
  <2> QED
    BY <1>1, <1>2, <2>1
       DEF TypeOK, KeyedWaits, SessionsLent, SessionsAtLock, SessionsWaiting, LocksOwned,
           SessionsKept, TicketsOnce, StatementsInTime, Keyed
<1> QED
  BY <1>4, <1>5, <1>6

LEMMA LockFailsHolds ==
  ASSUME IInv, NEW c \in Calls, LockFails(c)
  PROVE  IInv'
<1> USE DEF IInv
<1>1. /\ stage[c] = "locking" /\ GoTo(c, "replied") /\ lent' = lent \ {Ticket(c, "session")}
      /\ UNCHANGED <<key, owner, queue, expired>> /\ Waiting' = Waiting
      /\ key[c] \in Keys
  BY DEF LockFails, Waiting, KeyedWaits, Keyed, TypeOK
<1>5. leaked' \in SUBSET Keys /\ losses' \in 0..MaxLosses
  BY <1>1, PoolAssumption DEF LockFails, MayLeak, Lose, TypeOK
<1>6. \A t \in lent : t.call # c => t \in lent'
  BY <1>1, TicketFields
<1>2. \A t \in lent' \cup Waiting' : t.call = c => t.use = "session"
  BY <1>1, NoStatements, TicketFields, WaitingTickets DEF TypeOK
<1>3. LocksOwned'
  BY <1>1, TicketFields DEF GoTo, LocksOwned, TypeOK, Working
<1>4. Ticket(c, "session") \notin Waiting'
  BY <1>1 DEF SessionsWaiting
<1> QED
  BY <1>1, <1>2, <1>3, <1>4, <1>5, <1>6, EndsWell DEF TypeOK, TicketsOnce

LEMMA WakeUpHolds ==
  ASSUME IInv, NEW c \in Calls, WakeUp(c)
  PROVE  IInv'
<1> USE DEF IInv
<1>1. /\ stage[c] = "sleeping" /\ lent' = lent \ {Ticket(c, "session")}
      /\ \A t \in lent : t.call # c => t \in lent'
      /\ UNCHANGED <<key, owner, leaked, expired, losses>>
  BY TicketFields DEF WakeUp
<1>2. \A t \in lent \cup Waiting : t.call = c => t.use = "session"
  BY <1>1, NoStatements, TicketFields, WaitingTickets DEF TypeOK
<1>3. Ticket(c, "session") \notin Waiting
  BY <1>1 DEF SessionsWaiting
<1>4. CASE c \in expired
  <2>1. GoTo(c, "replied") /\ UNCHANGED queue /\ Waiting' = Waiting
    BY <1>4 DEF WakeUp, Waiting
  <2>2. LocksOwned'
    BY <1>1, <2>1, TicketFields DEF GoTo, LocksOwned, TypeOK, Working
  <2> QED
    BY <1>1, <1>2, <1>3, <2>1, <2>2, EndsWell DEF TypeOK, TicketsOnce
<1>5. CASE c \notin expired
  <2>1. /\ stage' = [stage EXCEPT ![c] = "connecting"]
        /\ queue' = Append(queue, Ticket(c, "session"))
    BY <1>5 DEF WakeUp, AskSession, GoTo
  <2>2. /\ queue' \in Seq(Tickets)
        /\ Waiting' = Waiting \cup {Ticket(c, "session")}
        /\ \A i, j \in 1..Len(queue') : queue'[i] = queue'[j] => i = j
    BY <1>3, <2>1, Joins, TicketFields DEF TicketsOnce
  <2>3. TypeOK' /\ KeyedWaits' /\ LocksOwned'
    BY <1>1, <2>1, <2>2, TicketFields
       DEF TypeOK, KeyedWaits, LocksOwned, Keyed, Stages, Working
  <2>4. SessionsLent' /\ SessionsAtLock' /\ SessionsWaiting' /\ TicketsOnce'
    BY <1>1, <1>3, <2>1, <2>2, TicketFields
       DEF SessionsLent, SessionsAtLock, SessionsWaiting, TicketsOnce, Keyed, TypeOK
  <2>5. StatementsInTime'
    BY <1>1, <1>2, <2>1, <2>2, TicketFields, WaitingTickets DEF StatementsInTime, TypeOK
  <2> QED
    BY <2>3, <2>4, <2>5
<1> QED
  BY <1>4, <1>5

LEMMA StatementFailsHolds ==
  ASSUME IInv, NEW c \in Calls, NEW u \in Statements, StatementFails(c, u)
  PROVE  IInv'
<1> USE DEF IInv
<1>1. /\ Ticket(c, u) \in lent /\ u \in Uses(stage[c]) /\ lent' = lent \ {Ticket(c, u)}
      /\ Finish(c) /\ UNCHANGED <<key, owner, leaked, queue, expired, losses>>
      /\ Waiting' = Waiting /\ \A t \in lent : t.call # c => t \in lent'
  BY TicketFields DEF StatementFails, Waiting
<1>2. stage[c] \in Working
  BY <1>1, OtherLookUp
<1>3. PICK s \in {"unlocking", "replied"} :
        /\ GoTo(c, s) /\ (s = "unlocking" => Keyed(c))
        /\ (s = "replied" => Ticket(c, "session") \notin lent)
  BY <1>1, <1>2, FinishLeads, StatementGone
<1>4. LocksOwned' /\ Ticket(c, "session") \notin Waiting
  BY <1>1, <1>2, FinishLeads, StatementGone
<1>5. \A t \in lent' \cup Waiting' : t.call = c /\ t.use # "session"
                                     => t.use \in {"target", "opposite"}
  BY <1>1, OtherLookUp DEF TicketsOnce
<1> QED
  BY <1>1, <1>3, <1>4, <1>5, EndsWell DEF TypeOK, TicketsOnce

LEMMA StatementReturnsHolds ==
  ASSUME IInv, NEW c \in Calls, NEW u \in Statements, StatementReturns(c, u)
  PROVE  IInv'
<1> USE DEF IInv
<1>1. /\ Ticket(c, u) \in lent /\ lent' = lent \ {Ticket(c, u)} /\ SessionsKept
      /\ UNCHANGED <<key, owner, leaked, expired, losses>>
      /\ \A t \in lent : t.call # c => t \in lent'
  BY StatementGone, TicketFields DEF StatementReturns
<1>2. Ticket(c, u) \notin Waiting
  BY <1>1 DEF TicketsOnce
<1>3. CASE u \in Uses(stage[c]) /\ Others(c, u) = {}
  <2>1. PICK s \in Following(stage[c]) :
          IF s = "unlocking" THEN Finish(c) /\ UNCHANGED queue ELSE Enter(c, s)
    BY <1>3 DEF StatementReturns
  <2>2. stage[c] \in Working
    BY <1>3, OtherLookUp
  <2>3. s \in Working \cup {"unlocking"}
    BY <2>1, <2>2 DEF Working, Following
  <2>4. \A t \in lent' \cup Waiting : t.call = c => t.use = "session"
    <3>1. \A t \in lent' \cup Waiting : t.call = c => t.use \in {u, "session"}
      BY <1>1, <1>3 DEF Others
    <3>2. \A t \in lent' \cup Waiting : t = Ticket(t.call, t.use) /\ t # Ticket(c, u)
      BY <1>1, <1>2, TicketFields, WaitingTickets DEF TypeOK
    <3> QED
      BY <3>1, <3>2
  <2>5. CASE s = "unlocking"
    <3>1. Finish(c) /\ UNCHANGED queue /\ Waiting' = Waiting
      BY <2>1, <2>5 DEF Waiting
    <3>2. PICK r \in {"unlocking", "replied"} :
            /\ GoTo(c, r) /\ (r = "unlocking" => Keyed(c))
            /\ (r = "replied" => Ticket(c, "session") \notin lent)
      BY <1>1, <2>2, <3>1, FinishLeads
    <3>3. LocksOwned' /\ Ticket(c, "session") \notin Waiting
      BY <1>1, <2>2, <3>1, FinishLeads
    <3> QED
      BY <1>1, <2>4, <3>1, <3>2, <3>3, EndsWell DEF TypeOK, TicketsOnce
  <2>6. CASE s # "unlocking"
    <3>1. Enter(c, s) /\ s \in Working
      BY <2>1, <2>3, <2>6
    <3>2. LocksOwned'
      BY <1>1, <2>2, <3>1 DEF Enter, GoTo, LocksOwned, SessionsKept, TypeOK, Working
    <3>3. Ticket(c, "session") \notin Waiting
      BY <2>2 DEF SessionsWaiting, Working
    <3>4. {Ticket(c, u)} \in SUBSET lent /\ \A t \in {Ticket(c, u)} : t.use # "session"
      BY <1>1, TicketFields DEF Statements
    <3>5. owner' \in [Keys -> Calls \cup {NoCall}] /\ stage[c] \in Working \cup {"locking"}
      BY <1>1, <2>2 DEF TypeOK
    <3>6. lent' = lent \ {Ticket(c, u)} /\ UNCHANGED <<key, leaked, expired, losses>>
      BY <1>1
    <3> QED
      BY <2>4, <3>1, <3>2, <3>3, <3>4, <3>5, <3>6, NextStage
  <2> QED
    BY <2>5, <2>6
<1>4. CASE ~ (u \in Uses(stage[c]) /\ Others(c, u) = {})
  <2>1. UNCHANGED <<stage, queue>> /\ Waiting' = Waiting
    BY <1>4 DEF StatementReturns, Waiting
  <2> QED
    BY <1>1, <2>1
       DEF TypeOK, KeyedWaits, SessionsLent, SessionsAtLock, SessionsWaiting, LocksOwned,
           SessionsKept, TicketsOnce, StatementsInTime, Keyed
<1> QED
  BY <1>3, <1>4

LEMMA UnlockHolds ==
  ASSUME IInv, NEW c \in Calls, Unlock(c)
  PROVE  IInv'
<1> USE DEF IInv
<1>1. /\ stage[c] = "unlocking" /\ GoTo(c, "replied")
      /\ owner' = [k \in Keys |-> IF owner[k] = c THEN NoCall ELSE owner[k]]
      /\ lent' = lent \ {Ticket(c, "session")}
      /\ UNCHANGED <<key, queue, expired>> /\ Waiting' = Waiting
  BY DEF Unlock, NotMine, Waiting
<1>2. /\ key[c] \in Keys /\ leaked' \in SUBSET Keys /\ losses' \in 0..MaxLosses
      /\ \A t \in lent : t.call # c => t \in lent'
  BY <1>1, PoolAssumption, TicketFields DEF Unlock, MayLeak, Lose, TypeOK
<1>3. LocksOwned'
  BY <1>1, <1>2, PoolAssumption, TicketFields DEF GoTo, LocksOwned, TypeOK, Working
<1>4. owner' \in [Keys -> Calls \cup {NoCall}]
  BY <1>1 DEF TypeOK
<1>5. Ticket(c, "session") \notin Waiting'
  BY <1>1 DEF SessionsWaiting
<1>6. \A t \in lent' \cup Waiting' :
        t.call = c /\ t.use # "session" => t.use \in {"target", "opposite"}
  <2>1. \A t \in lent \cup Waiting : t.use \in Statements \cup {"session"}
    BY TicketFields, WaitingTickets DEF TypeOK
  <2> QED
    BY <1>1, <2>1, UsesOf DEF StatementsInTime, Statements
<1> QED
  BY <1>1, <1>2, <1>3, <1>4, <1>5, <1>6, EndsWell DEF TypeOK, TicketsOnce

LEMMA SessionDropsHolds ==
  ASSUME IInv, NEW c \in Calls, SessionDrops(c)
  PROVE  IInv'
<1> USE DEF IInv
<1>1. /\ stage[c] \in {"sleeping", "unlocking"} \cup Working
      /\ owner' = [k \in Keys |-> IF owner[k] = c THEN NoCall ELSE owner[k]]
      /\ lent' = lent \ {Ticket(c, "session")} /\ leaked' \subseteq leaked
      /\ losses < MaxLosses /\ losses' = losses + 1
      /\ UNCHANGED <<key, stage, queue, expired>> /\ Waiting' = Waiting
  BY DEF SessionDrops, NotMine, Lose, Waiting
<1>2. TypeOK'
  BY <1>1, PoolAssumption DEF TypeOK
<1>3. KeyedWaits' /\ SessionsLent' /\ SessionsWaiting' /\ TicketsOnce' /\ StatementsInTime'
  BY <1>1 DEF KeyedWaits, SessionsLent, SessionsWaiting, TicketsOnce, StatementsInTime, Keyed
<1>4. SessionsAtLock'
  BY <1>1, TicketFields DEF SessionsAtLock, Working
<1>5. LocksOwned'
  BY <1>1, PoolAssumption, TicketFields DEF LocksOwned, TypeOK
<1> QED
  BY <1>2, <1>3, <1>4, <1>5

LEMMA LeakEndsHolds ==
  ASSUME IInv, NEW k \in Keys, LeakEnds(k)
  PROVE  IInv'
BY DEF LeakEnds, IInv, TypeOK, KeyedWaits, SessionsLent, SessionsAtLock, SessionsWaiting,
       LocksOwned, TicketsOnce, StatementsInTime, Keyed, Waiting

LEMMA StepHolds == IInv /\ [Next]_vars => IInv'
<1> SUFFICES ASSUME IInv, [Next]_vars PROVE IInv'
  OBVIOUS
<1>1. ASSUME NEW c \in Calls, Expire(c) PROVE IInv'
  BY <1>1 DEF Expire, IInv, TypeOK, KeyedWaits, SessionsLent, SessionsAtLock,
              SessionsWaiting, LocksOwned, TicketsOnce, StatementsInTime, Keyed, Waiting
<1>2. CASE UNCHANGED vars
  BY <1>2 DEF vars, IInv, TypeOK, KeyedWaits, SessionsLent, SessionsAtLock,
              SessionsWaiting, LocksOwned, TicketsOnce, StatementsInTime, Keyed, Waiting
<1>3. ASSUME NEW c \in Calls, NEW k \in KeysSent[c], Submit(c, k) PROVE IInv'
  BY <1>3, SubmitHolds
<1>4. ASSUME NEW c \in Calls, NEW u \in Statements,
             StatementReturns(c, u) \/ StatementFails(c, u)
      PROVE  IInv'
  BY <1>4, StatementReturnsHolds, StatementFailsHolds
<1>5. ASSUME NEW c \in Calls, TryLock(c) \/ LockFails(c) \/ WakeUp(c) \/ Unlock(c)
      PROVE  IInv'
  BY <1>5, TryLockHolds, LockFailsHolds, WakeUpHolds, UnlockHolds
<1>6. ASSUME NEW c \in Calls, SessionDrops(c) PROVE IInv'
  BY <1>6, SessionDropsHolds
<1>7. ASSUME NEW k \in Keys, LeakEnds(k) PROVE IInv'
  BY <1>7, LeakEndsHolds
<1> QED
  BY <1>1, <1>2, <1>3, <1>4, <1>5, <1>6, <1>7, GrantHolds, GrantFailsHolds DEF Next

\* Every step of a request, of its statements and of the pool keeps the invariant.
THEOREM Inductive == Spec => []IInv
BY InitHolds, StepHolds, PTL DEF Spec

-----------------------------------------------------------------------------
(* What follows for the pool. *)

\* Every variable keeps its type, and who unlocks has a key.
THEOREM TypeCorrect == Spec => []TypeOK
BY Inductive, PTL DEF IInv

\* A pool whose connections are all query runners has lent them to requests under as many
\* different keys: each of them holds the advisory lock of its key.
THEOREM StuckOnlyOnDistinctKeysHolds == Spec => []StuckOnlyOnDistinctKeys
<1>1. IInv => StuckOnlyOnDistinctKeys
  <2> SUFFICES ASSUME IInv, Stuck, NEW s \in lent, NEW t \in lent
               PROVE  Keyed(s.call) /\ (key[s.call] = key[t.call] => s = t)
    BY DEF StuckOnlyOnDistinctKeys
  <2>1. \A r \in lent : /\ r.call \in Calls /\ r = Ticket(r.call, "session")
                       /\ stage[r.call] \in Working /\ Keyed(r.call)
    BY TicketFields DEF IInv, TypeOK, Stuck, SessionsLent
  <2>2. \A r \in lent : key[r.call] \in Keys /\ owner[key[r.call]] = r.call
    BY <2>1 DEF IInv, TypeOK, LocksOwned, Keyed
  <2> QED
    BY <2>1, <2>2
<1> QED
  BY <1>1, Inductive, PTL

\* Every way out of executeOnce gives back the query runner, whether the unlock failed or the
\* session was dropped before, and what Promise.all leaves running when one of its statements
\* fails only reads: whoever has been answered writes nothing any more.
THEOREM AnsweredLeaveOnlyReadsHolds == Spec => []AnsweredLeaveOnlyReads
<1>1. IInv => AnsweredLeaveOnlyReads
  <2> SUFFICES ASSUME IInv, NEW c \in Calls, stage[c] = "replied",
                      NEW t \in lent \cup Waiting, t.call = c
               PROVE  t.use \in {"target", "opposite"}
    BY DEF AnsweredLeaveOnlyReads
  <2>1. Ticket(c, "session") \notin lent \cup Waiting
    BY DEF IInv, SessionsLent, SessionsWaiting, Working
  <2>2. t.use \in Statements
    BY <2>1, TicketFields, WaitingTickets DEF IInv, TypeOK
  <2>3. t.use # "session"
    BY <2>2 DEF Statements
  <2> QED
    BY <2>2, <2>3, UsesOf DEF IInv, StatementsInTime, Statements
<1> QED
  BY <1>1, Inductive, PTL

\* Once every connection is the query runner of a request at work, nothing a request, a
\* deadline or a failure does frees one: only the server does, when it drops a session.
THEOREM StuckUntilDroppedHolds == Spec => StuckUntilDropped
<1>1. ASSUME IInv, Stuck, [Next]_vars
      PROVE  Stuck' \/ \E c \in Calls : SessionDrops(c)
  <2>1. \A t \in lent : /\ t.call \in Calls /\ t = Ticket(t.call, "session")
                       /\ stage[t.call] \in Working
    BY <1>1, TicketFields DEF IInv, TypeOK, Stuck
  <2>2. ~ Grant /\ ~ GrantFails
    BY <1>1, PoolAssumption DEF Grant, GrantFails, Stuck
  <2>3. \A c \in Calls, u \in Statements : Ticket(c, u) \notin lent
    BY <1>1, TicketFields DEF Stuck, Statements
  <2>4. ASSUME NEW c \in Calls, NEW u \in Statements
        PROVE  ~ StatementReturns(c, u) /\ ~ StatementFails(c, u)
    BY <2>3, UsesAreStatements DEF StatementReturns, StatementFails
  <2>5. ASSUME NEW c \in Calls, stage[c] \notin Working,
               lent' \in {lent, lent \ {Ticket(c, "session")}},
               \A d \in Calls \ {c} : stage'[d] = stage[d]
        PROVE  Stuck'
    <3>1. Ticket(c, "session") \notin lent
      BY <2>1, <2>5, TicketFields
    <3>2. lent' = lent
      BY <2>5, <3>1
    <3>3. \A t \in lent : stage'[t.call] = stage[t.call]
      BY <2>1, <2>5
    <3> QED
      BY <1>1, <3>2, <3>3 DEF Stuck
  <2>6. ASSUME NEW c \in Calls, NEW k \in KeysSent[c], Submit(c, k) PROVE Stuck'
    BY <1>1, <2>5, <2>6 DEF Submit, Enter, AskSession, GoTo, Working, IInv, TypeOK
  <2>7. ASSUME NEW c \in Calls, TryLock(c) \/ LockFails(c) \/ WakeUp(c) \/ Unlock(c)
        PROVE  Stuck'
    BY <1>1, <2>5, <2>7
       DEF TryLock, LockFails, WakeUp, Unlock, Enter, AskSession, GoTo, Working, IInv, TypeOK
  <2>8. ASSUME NEW c \in Calls, Expire(c) PROVE Stuck'
    BY <1>1, <2>8 DEF Expire, Stuck
  <2>9. ASSUME NEW k \in Keys, LeakEnds(k) PROVE Stuck'
    BY <1>1, <2>9 DEF LeakEnds, Stuck
  <2>10. CASE UNCHANGED vars
    BY <1>1, <2>10 DEF vars, Stuck
  <2> QED
    BY <1>1, <2>2, <2>4, <2>6, <2>7, <2>8, <2>9, <2>10 DEF Next
<1>2. IInv /\ [Next]_vars
        => [Stuck => Stuck' \/ \E c \in Calls : SessionDrops(c)]_vars
  BY <1>1
<1> QED
  BY <1>2, Inductive, PTL DEF Spec, StuckUntilDropped
=============================================================================
