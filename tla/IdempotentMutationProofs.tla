---------------------- MODULE IdempotentMutationProofs ----------------------
(***************************************************************************)
(* Proofs about IdempotentMutation, for every set of calls, keys, sessions *)
(* and requests.                                                           *)
(***************************************************************************)
EXTENDS IdempotentMutation, TLAPS

\* The null values are no keys and no sessions.
LEMMA Nulls == NoKey \notin Keys /\ NoSession \notin Sessions
BY NullAssumption

\* A request a client sends is well formed once normalised.
LEMMA Sent ==
  ASSUME NEW r \in Offered
  PROVE  r \in Policy!Requests /\ Policy!Normalized(r) \in Policy!Requests
<1>1. r \in Policy!Requests /\ r.entry \in Policy!Spellings
  BY PolicyAssumption DEF Policy!Requests
<1>2. Policy!Canonical(r.entry) \in Policy!Spellings
  BY <1>1 DEF Policy!Canonical, Policy!Spellings
<1> QED
  BY <1>1, <1>2 DEF Policy!Normalized, Policy!Requests

\* Normalising twice is normalising once, so what a keyed request runs is what it sent.
LEMMA BeginNormalized ==
  ASSUME NEW c \in Calls, NEW r \in Offered, Policy!Begin(c, Policy!Normalized(r))
  PROVE  Policy!Begin(c, r)
<1>1. r \in Policy!Requests /\ r.entry \in Policy!Spellings
  BY PolicyAssumption DEF Policy!Requests
<1>2. Policy!Canonical(Policy!Canonical(r.entry)) = Policy!Canonical(r.entry)
  BY <1>1 DEF Policy!Canonical, Policy!Spellings
<1>3. /\ Policy!Normalized(r).entry = Policy!Canonical(r.entry)
      /\ Policy!Normalized(r).action = r.action
      /\ Policy!Normalized(Policy!Normalized(r)) = Policy!Normalized(r)
  BY <1>1, <1>2 DEF Policy!Normalized, Policy!Requests
<1> QED
  BY <1>3, <1>2 DEF Policy!Begin

\* What the steps of the mutation do to the places of the calls.
LEMMA BeginPlace ==
  ASSUME Policy!TypeOK, NEW c \in Calls, NEW r, Policy!Begin(c, r)
  PROVE  step[c] = "idle" /\ step'[c] # "idle" /\ \A d \in Calls \ {c} : step'[d] = step[d]
BY DEF Policy!TypeOK, Policy!Begin

LEMMA AdvancePlace ==
  ASSUME Policy!TypeOK, NEW c \in Calls, Policy!Advance(c)
  PROVE  step[c] # "idle" /\ step'[c] # "idle" /\ \A d \in Calls \ {c} : step'[d] = step[d]
<1> USE DEF Policy!TypeOK
<1>1. CASE Policy!ReadTarget(c)
  BY <1>1 DEF Policy!ReadTarget
<1>2. CASE Policy!ReadOpposite(c)
  BY <1>2 DEF Policy!ReadOpposite
<1>3. CASE Policy!RejectUnconfirmed(c)
  BY <1>3 DEF Policy!RejectUnconfirmed, Policy!Decided
<1>4. CASE Policy!RemoveOpposite(c)
  BY <1>4 DEF Policy!RemoveOpposite, Policy!MustRemoveOpposite, Policy!Decided
<1>5. CASE Policy!AddTarget(c)
  BY <1>5 DEF Policy!AddTarget, Policy!ReadyToAdd, Policy!Decided
<1>6. CASE Policy!KeepTarget(c)
  BY <1>6 DEF Policy!KeepTarget, Policy!ReadyToAdd, Policy!Decided
<1>7. CASE Policy!Delete(c)
  BY <1>7 DEF Policy!Delete
<1>8. CASE Policy!QueryFails(c)
  BY <1>8 DEF Policy!QueryFails, Policy!AwaitsQuery, Policy!MustRemoveOpposite,
     Policy!ReadyToAdd, Policy!Decided
<1> QED
  BY <1>1, <1>2, <1>3, <1>4, <1>5, <1>6, <1>7, <1>8 DEF Policy!Advance

LEMMA ReturnPlace ==
  ASSUME Policy!TypeOK, NEW c \in Calls, Policy!Return(c)
  PROVE  step[c] # "idle" /\ step'[c] = "idle" /\ \A d \in Calls \ {c} : step'[d] = step[d]
BY DEF Policy!TypeOK, Policy!Return, Policy!Forget, Policy!Ended

LEMMA ForgetPlace ==
  ASSUME Policy!TypeOK, NEW c \in Calls, Policy!Forget(c)
  PROVE  step'[c] = "idle" /\ \A d \in Calls \ {c} : step'[d] = step[d]
BY DEF Policy!TypeOK, Policy!Forget


\* The audit row of a mutation that is done.
LEMMA AuditRowFits ==
  ASSUME IInv, NEW c \in Calls, phase[c] = "acting"
  PROVE  AuditRow(c) \in HistoryRows
BY DEF IInv, TypeOK, GuardTypeOK, Policy!TypeOK, AuditRow, HistoryRows, Keyed


\* The variables of the guard keep their types.
LEMMA GuardTypeStep == IInv /\ [Next]_vars => GuardTypeOK'
<1> SUFFICES ASSUME IInv, [Next]_vars PROVE GuardTypeOK'
  OBVIOUS
<1> USE DEF IInv, TypeOK, GuardTypeOK, Holding, Keyed, Answers, Reply, SessionsFit
<1>1. ASSUME NEW c \in Calls, NEW k \in KeysSent, NEW r \in Offered, Submit(c, k, r)
      PROVE  GuardTypeOK'
  BY <1>1, KeysSentAssumption, Sent DEF Submit, guardVars
<1>2. ASSUME NEW c \in Calls, NEW s \in Sessions, TryLock(c, s) PROVE GuardTypeOK'
  BY <1>2 DEF TryLock, Waiting, Available, InUse, guardVars
<1>3. ASSUME NEW c \in Calls, NEW s \in Sessions, TryFails(c, s) PROVE GuardTypeOK'
  BY <1>3 DEF TryFails, guardVars
<1>4. ASSUME NEW c \in Calls, GiveUp(c) PROVE GuardTypeOK'
  BY <1>4 DEF GiveUp, Answer, guardVars
<1>5. ASSUME NEW c \in Calls, ConnectFails(c) PROVE GuardTypeOK'
  <2>1. key[c] \in Keys
    BY <1>5, Nulls DEF ConnectFails, Waiting
  <2>2. answer' \in [Calls -> Answers]
    BY <1>5 DEF ConnectFails, Answer
  <2>3. owner' \in [Keys -> Sessions \cup {NoSession}] /\ leaked' \subseteq Keys
    BY <1>5, <2>1 DEF ConnectFails
  <2>4. phase' \in [Calls -> {"idle", "queued", "polling", "replied"} \cup Holding]
    BY <1>5 DEF ConnectFails
  <2>5. ASSUME NEW d \in Calls, phase'[d] # "idle" PROVE request[d] \in Policy!Requests
    BY <1>5, <2>5 DEF ConnectFails, Waiting
  <2> QED
    BY <1>5, <2>2, <2>3, <2>4, <2>5 DEF ConnectFails
<1>6. ASSUME NEW c \in Calls, Execute(c) PROVE GuardTypeOK'
  BY <1>6 DEF Execute, guardVars
<1>7. ASSUME NEW c \in Calls, Replay(c) PROVE GuardTypeOK'
  BY <1>7 DEF Replay, Answer, Found, RowsOf, HistoryRows, guardVars
<1>8. ASSUME NEW c \in Calls, LookupFails(c) PROVE GuardTypeOK'
  BY <1>8 DEF LookupFails, Answer, guardVars
<1>9. ASSUME NEW c \in Calls, Mutate(c) PROVE GuardTypeOK'
  BY <1>9 DEF Mutate, guardVars
<1>10. ASSUME NEW c \in Calls, MutationThrows(c) PROVE GuardTypeOK'
  BY <1>10 DEF MutationThrows, Answer, Leave, guardVars
<1>11. ASSUME NEW c \in Calls, Append(c) PROVE GuardTypeOK'
  <2>1. AuditRow(c) \in HistoryRows /\ changed[c] \in BOOLEAN
    BY <1>11, AuditRowFits DEF Append, Done, AuditRow, HistoryRows
  <2>2. history' \subseteq HistoryRows
    BY <1>11, <2>1 DEF Append
  <2>3. answer' \in [Calls -> Answers]
    <3>1. CASE Answer(c, [verdict |-> "ok", changed |-> changed[c], replayed |-> FALSE])
      <4>1. [verdict |-> "ok", changed |-> changed[c], replayed |-> FALSE] \in Answers
        BY <2>1
      <4> QED
        BY <3>1, <4>1 DEF Answer
    <3>2. CASE Answer(c, Reply("error"))
      BY <3>2 DEF Answer
    <3> QED
      BY <1>11, <3>1, <3>2 DEF Append
  <2>4. phase' \in [Calls -> {"idle", "queued", "polling", "replied"} \cup Holding]
    BY <1>11 DEF Append, Leave
  <2>5. ASSUME NEW d \in Calls, phase'[d] # "idle" PROVE request[d] \in Policy!Requests
    BY <1>11, <2>5 DEF Append, Leave, Done
  <2> QED
    BY <1>11, <2>2, <2>3, <2>4, <2>5 DEF Append, guardVars
<1>12. ASSUME NEW c \in Calls, AppendFails(c) PROVE GuardTypeOK'
  BY <1>12 DEF AppendFails, Done, Answer, Leave, guardVars
<1>13. ASSUME NEW c \in Calls, Unlock(c) PROVE GuardTypeOK'
  BY <1>13, Nulls DEF Unlock, guardVars
<1>14. ASSUME NEW c \in Calls, Take(c) PROVE GuardTypeOK'
  BY <1>14 DEF Take, Clear, Answer, guardVars
<1>15. ASSUME NEW c \in Calls, Crash(c) PROVE GuardTypeOK'
  BY <1>15 DEF Crash, Clear, Answer, Freed, guardVars
<1>16. ASSUME NEW s \in Sessions, SessionDrops(s) PROVE GuardTypeOK'
  BY <1>16, Nulls DEF SessionDrops, Freed, InUse, guardVars
<1>17. CASE UNCHANGED vars
  BY <1>17 DEF vars, guardVars
<1> QED
  BY <1>1, <1>2, <1>3, <1>4, <1>5, <1>6, <1>7, <1>8, <1>9, <1>10, <1>11, <1>12, <1>13,
     <1>14, <1>15, <1>16, <1>17 DEF Next, Progress

\* One session for one request.
LEMMA SessionStep == IInv /\ [Next]_vars => SessionsFit'
<1> SUFFICES ASSUME IInv, [Next]_vars PROVE SessionsFit'
  OBVIOUS
<1> USE DEF IInv, TypeOK, GuardTypeOK, Holding, SessionsFit, InUse, Keyed
<1>1. ASSUME NEW c \in Calls, NEW k \in KeysSent, NEW r \in Offered, Submit(c, k, r)
      PROVE  SessionsFit'
  BY <1>1, Nulls DEF Submit, guardVars
<1>2. ASSUME NEW c \in Calls, NEW s \in Sessions, TryLock(c, s) PROVE SessionsFit'
  BY <1>2, Nulls DEF TryLock, Waiting, Available, InUse, guardVars
<1>3. ASSUME NEW c \in Calls, NEW s \in Sessions, TryFails(c, s) PROVE SessionsFit'
  BY <1>3, Nulls DEF TryFails, guardVars
<1>4. ASSUME NEW c \in Calls, GiveUp(c) PROVE SessionsFit'
  BY <1>4, Nulls DEF GiveUp, Answer, guardVars
<1>5. ASSUME NEW c \in Calls, ConnectFails(c) PROVE SessionsFit'
  BY <1>5, Nulls DEF ConnectFails, Waiting, Available, InUse, Answer, guardVars
<1>6. ASSUME NEW c \in Calls, Execute(c) PROVE SessionsFit'
  BY <1>6, Nulls DEF Execute, guardVars
<1>7. ASSUME NEW c \in Calls, Replay(c) PROVE SessionsFit'
  BY <1>7, Nulls DEF Replay, Answer, guardVars
<1>8. ASSUME NEW c \in Calls, LookupFails(c) PROVE SessionsFit'
  BY <1>8, Nulls DEF LookupFails, Answer, guardVars
<1>9. ASSUME NEW c \in Calls, Mutate(c) PROVE SessionsFit'
  BY <1>9, Nulls DEF Mutate, guardVars
<1>10. ASSUME NEW c \in Calls, MutationThrows(c) PROVE SessionsFit'
  BY <1>10, Nulls DEF MutationThrows, Answer, Leave, guardVars
<1>11. ASSUME NEW c \in Calls, Append(c) PROVE SessionsFit'
  BY <1>11, Nulls DEF Append, Done, Answer, Leave, guardVars
<1>12. ASSUME NEW c \in Calls, AppendFails(c) PROVE SessionsFit'
  BY <1>12, Nulls DEF AppendFails, Done, Answer, Leave, guardVars
<1>13. ASSUME NEW c \in Calls, Unlock(c) PROVE SessionsFit'
  BY <1>13, Nulls DEF Unlock, guardVars
<1>14. ASSUME NEW c \in Calls, Take(c) PROVE SessionsFit'
  BY <1>14, Nulls DEF Take, Clear, Answer, guardVars
<1>15. ASSUME NEW c \in Calls, Crash(c) PROVE SessionsFit'
  BY <1>15, Nulls DEF Crash, Clear, Answer, Freed, guardVars
<1>16. ASSUME NEW s \in Sessions, SessionDrops(s) PROVE SessionsFit'
  BY <1>16, Nulls DEF SessionDrops, Freed, InUse, guardVars
<1>17. CASE UNCHANGED vars
  BY <1>17 DEF vars, guardVars
<1> QED
  BY <1>1, <1>2, <1>3, <1>4, <1>5, <1>6, <1>7, <1>8, <1>9, <1>10, <1>11, <1>12, <1>13,
     <1>14, <1>15, <1>16, <1>17 DEF Next, Progress

\* Nobody but its session gives a lock away.
LEMMA LockStep == IInv /\ [Next]_vars => LocksFit'
<1> SUFFICES ASSUME IInv, [Next]_vars PROVE LocksFit'
  OBVIOUS
<1> USE DEF IInv, TypeOK, GuardTypeOK, Holding, SessionsFit, LocksFit, InUse, Keyed
<1>1. ASSUME NEW c \in Calls, NEW k \in KeysSent, NEW r \in Offered, Submit(c, k, r)
      PROVE  LocksFit'
  BY <1>1, Nulls DEF Submit, guardVars
<1>2. ASSUME NEW c \in Calls, NEW s \in Sessions, TryLock(c, s) PROVE LocksFit'
  BY <1>2, Nulls DEF TryLock, Waiting, Available, InUse, guardVars
<1>3. ASSUME NEW c \in Calls, NEW s \in Sessions, TryFails(c, s) PROVE LocksFit'
  BY <1>3, Nulls DEF TryFails, guardVars
<1>4. ASSUME NEW c \in Calls, GiveUp(c) PROVE LocksFit'
  BY <1>4, Nulls DEF GiveUp, Answer, guardVars
<1>5. ASSUME NEW c \in Calls, ConnectFails(c) PROVE LocksFit'
  BY <1>5, Nulls DEF ConnectFails, Waiting, Available, InUse, Answer, guardVars
<1>6. ASSUME NEW c \in Calls, Execute(c) PROVE LocksFit'
  BY <1>6, Nulls DEF Execute, guardVars
<1>7. ASSUME NEW c \in Calls, Replay(c) PROVE LocksFit'
  BY <1>7, Nulls DEF Replay, Answer, guardVars
<1>8. ASSUME NEW c \in Calls, LookupFails(c) PROVE LocksFit'
  BY <1>8, Nulls DEF LookupFails, Answer, guardVars
<1>9. ASSUME NEW c \in Calls, Mutate(c) PROVE LocksFit'
  BY <1>9, Nulls DEF Mutate, guardVars
<1>10. ASSUME NEW c \in Calls, MutationThrows(c) PROVE LocksFit'
  BY <1>10, Nulls DEF MutationThrows, Answer, Leave, guardVars
<1>11. ASSUME NEW c \in Calls, Append(c) PROVE LocksFit'
  BY <1>11, Nulls DEF Append, Done, Answer, Leave, guardVars
<1>12. ASSUME NEW c \in Calls, AppendFails(c) PROVE LocksFit'
  BY <1>12, Nulls DEF AppendFails, Done, Answer, Leave, guardVars
<1>13. ASSUME NEW c \in Calls, Unlock(c) PROVE LocksFit'
  BY <1>13, Nulls DEF Unlock, guardVars
<1>14. ASSUME NEW c \in Calls, Take(c) PROVE LocksFit'
  BY <1>14, Nulls DEF Take, Clear, Answer, guardVars
<1>15. ASSUME NEW c \in Calls, Crash(c) PROVE LocksFit'
  BY <1>15, Nulls DEF Crash, Clear, Answer, Freed, guardVars
<1>16. ASSUME NEW s \in Sessions, SessionDrops(s) PROVE LocksFit'
  BY <1>16, Nulls DEF SessionDrops, Freed, InUse, guardVars
<1>17. CASE UNCHANGED vars
  BY <1>17 DEF vars, guardVars
<1> QED
  BY <1>1, <1>2, <1>3, <1>4, <1>5, <1>6, <1>7, <1>8, <1>9, <1>10, <1>11, <1>12, <1>13,
     <1>14, <1>15, <1>16, <1>17 DEF Next, Progress

\* The phases agree with the mutation.
LEMMA PhaseStep == IInv /\ [Next]_vars => PhasesFit'
<1> SUFFICES ASSUME IInv, [Next]_vars PROVE PhasesFit'
  OBVIOUS
<1> USE DEF IInv, TypeOK, GuardTypeOK, Holding, PhasesFit, SessionsFit, Keyed, Reply
<1>1. ASSUME NEW c \in Calls, NEW k \in KeysSent, NEW r \in Offered, Submit(c, k, r)
      PROVE  PhasesFit'
  BY <1>1, BeginPlace DEF Submit, policyVars, guardVars
<1>2. ASSUME NEW c \in Calls, NEW s \in Sessions, TryLock(c, s) PROVE PhasesFit'
  BY <1>2 DEF TryLock, Waiting, Available, InUse, policyVars, guardVars
<1>3. ASSUME NEW c \in Calls, NEW s \in Sessions, TryFails(c, s) PROVE PhasesFit'
  BY <1>3 DEF TryFails, policyVars, guardVars
<1>4. ASSUME NEW c \in Calls, GiveUp(c) PROVE PhasesFit'
  BY <1>4 DEF GiveUp, Answer, policyVars, guardVars
<1>5. ASSUME NEW c \in Calls, ConnectFails(c) PROVE PhasesFit'
  BY <1>5 DEF ConnectFails, Waiting, Available, InUse, Answer, policyVars, guardVars
<1>6. ASSUME NEW c \in Calls, Execute(c) PROVE PhasesFit'
  BY <1>6, BeginPlace DEF Execute, policyVars, guardVars
<1>7. ASSUME NEW c \in Calls, Replay(c) PROVE PhasesFit'
  BY <1>7 DEF Replay, Answer, policyVars, guardVars
<1>8. ASSUME NEW c \in Calls, LookupFails(c) PROVE PhasesFit'
  BY <1>8 DEF LookupFails, Answer, policyVars, guardVars
<1>9. ASSUME NEW c \in Calls, Mutate(c) PROVE PhasesFit'
  BY <1>9, AdvancePlace DEF Mutate, policyVars, guardVars
<1>10. ASSUME NEW c \in Calls, MutationThrows(c) PROVE PhasesFit'
  BY <1>10, ReturnPlace DEF MutationThrows, Answer, Leave, policyVars, guardVars
<1>11. ASSUME NEW c \in Calls, Append(c) PROVE PhasesFit'
  <2>1. step[c] # "idle" /\ step'[c] = "idle" /\ \A d \in Calls \ {c} : step'[d] = step[d]
    BY <1>11, ReturnPlace DEF Append, Leave
  <2>2. \A d \in Calls \ {c} : answer'[d] = answer[d] /\ phase'[d] = phase[d]
    BY <1>11 DEF Append, Answer, Leave
  <2>3. phase'[c] \in {"unlocking", "replied"} /\ phase[c] = "acting" /\ UNCHANGED request
    BY <1>11 DEF Append, Leave, Done
  <2> QED
    BY <2>1, <2>2, <2>3
<1>12. ASSUME NEW c \in Calls, AppendFails(c) PROVE PhasesFit'
  BY <1>12, ReturnPlace DEF AppendFails, Done, Answer, Leave, policyVars, guardVars
<1>13. ASSUME NEW c \in Calls, Unlock(c) PROVE PhasesFit'
  BY <1>13 DEF Unlock, policyVars, guardVars
<1>14. ASSUME NEW c \in Calls, Take(c) PROVE PhasesFit'
  BY <1>14 DEF Take, Clear, Answer, policyVars, guardVars
<1>15. ASSUME NEW c \in Calls, Crash(c) PROVE PhasesFit'
  BY <1>15, ForgetPlace DEF Crash, Clear, Answer, Freed, policyVars, guardVars
<1>16. ASSUME NEW s \in Sessions, SessionDrops(s) PROVE PhasesFit'
  BY <1>16 DEF SessionDrops, Freed, InUse, policyVars, guardVars
<1>17. CASE UNCHANGED vars
  BY <1>17 DEF vars, guardVars, policyVars
<1> QED
  BY <1>1, <1>2, <1>3, <1>4, <1>5, <1>6, <1>7, <1>8, <1>9, <1>10, <1>11, <1>12, <1>13,
     <1>14, <1>15, <1>16, <1>17 DEF Next, Progress

\* The unique index keeps a key to one row.
LEMMA RowStep == IInv /\ [Next]_vars => OneRowPerKey'
<1> SUFFICES ASSUME IInv, [Next]_vars PROVE OneRowPerKey'
  OBVIOUS
<1> USE DEF IInv, TypeOK, GuardTypeOK, Holding, OneRowPerKey, Keyed
<1>1. ASSUME NEW c \in Calls, NEW k \in KeysSent, NEW r \in Offered, Submit(c, k, r)
      PROVE  OneRowPerKey'
  BY <1>1 DEF Submit, guardVars
<1>2. ASSUME NEW c \in Calls, NEW s \in Sessions, TryLock(c, s) PROVE OneRowPerKey'
  BY <1>2 DEF TryLock, Waiting, Available, InUse, guardVars
<1>3. ASSUME NEW c \in Calls, NEW s \in Sessions, TryFails(c, s) PROVE OneRowPerKey'
  BY <1>3 DEF TryFails, guardVars
<1>4. ASSUME NEW c \in Calls, GiveUp(c) PROVE OneRowPerKey'
  BY <1>4 DEF GiveUp, Answer, guardVars
<1>5. ASSUME NEW c \in Calls, ConnectFails(c) PROVE OneRowPerKey'
  BY <1>5 DEF ConnectFails, Waiting, Available, InUse, Answer, guardVars
<1>6. ASSUME NEW c \in Calls, Execute(c) PROVE OneRowPerKey'
  BY <1>6 DEF Execute, guardVars
<1>7. ASSUME NEW c \in Calls, Replay(c) PROVE OneRowPerKey'
  BY <1>7 DEF Replay, Answer, guardVars
<1>8. ASSUME NEW c \in Calls, LookupFails(c) PROVE OneRowPerKey'
  BY <1>8 DEF LookupFails, Answer, guardVars
<1>9. ASSUME NEW c \in Calls, Mutate(c) PROVE OneRowPerKey'
  BY <1>9 DEF Mutate, guardVars
<1>10. ASSUME NEW c \in Calls, MutationThrows(c) PROVE OneRowPerKey'
  BY <1>10 DEF MutationThrows, Answer, Leave, guardVars
<1>11. ASSUME NEW c \in Calls, Append(c) PROVE OneRowPerKey'
  BY <1>11, Nulls DEF Append, Done, Answer, Leave, AuditRow, Clashes, RowsOf, guardVars
<1>12. ASSUME NEW c \in Calls, AppendFails(c) PROVE OneRowPerKey'
  BY <1>12 DEF AppendFails, Done, Answer, Leave, guardVars
<1>13. ASSUME NEW c \in Calls, Unlock(c) PROVE OneRowPerKey'
  BY <1>13 DEF Unlock, guardVars
<1>14. ASSUME NEW c \in Calls, Take(c) PROVE OneRowPerKey'
  BY <1>14 DEF Take, Clear, Answer, guardVars
<1>15. ASSUME NEW c \in Calls, Crash(c) PROVE OneRowPerKey'
  BY <1>15 DEF Crash, Clear, Answer, Freed, guardVars
<1>16. ASSUME NEW s \in Sessions, SessionDrops(s) PROVE OneRowPerKey'
  BY <1>16 DEF SessionDrops, Freed, InUse, guardVars
<1>17. CASE UNCHANGED vars
  BY <1>17 DEF vars, guardVars
<1> QED
  BY <1>1, <1>2, <1>3, <1>4, <1>5, <1>6, <1>7, <1>8, <1>9, <1>10, <1>11, <1>12, <1>13,
     <1>14, <1>15, <1>16, <1>17 DEF Next, Progress

\* A lock is given back, or leaks.
LEMMA ForgottenStep == IInv /\ [Next]_vars => NoForgottenLock'
<1> SUFFICES ASSUME IInv, [Next]_vars PROVE NoForgottenLock'
  OBVIOUS
<1> USE DEF IInv, TypeOK, GuardTypeOK, Holding, NoForgottenLock, SessionsFit, Keyed
<1>1. ASSUME NEW c \in Calls, NEW k \in KeysSent, NEW r \in Offered, Submit(c, k, r)
      PROVE  NoForgottenLock'
  BY <1>1, Nulls DEF Submit, guardVars
<1>2. ASSUME NEW c \in Calls, NEW s \in Sessions, TryLock(c, s) PROVE NoForgottenLock'
  BY <1>2, Nulls DEF TryLock, Waiting, Available, InUse, guardVars
<1>3. ASSUME NEW c \in Calls, NEW s \in Sessions, TryFails(c, s) PROVE NoForgottenLock'
  BY <1>3, Nulls DEF TryFails, guardVars
<1>4. ASSUME NEW c \in Calls, GiveUp(c) PROVE NoForgottenLock'
  BY <1>4, Nulls DEF GiveUp, Answer, guardVars
<1>5. ASSUME NEW c \in Calls, ConnectFails(c) PROVE NoForgottenLock'
  BY <1>5, Nulls DEF ConnectFails, Waiting, Available, InUse, Answer, guardVars
<1>6. ASSUME NEW c \in Calls, Execute(c) PROVE NoForgottenLock'
  BY <1>6, Nulls DEF Execute, guardVars
<1>7. ASSUME NEW c \in Calls, Replay(c) PROVE NoForgottenLock'
  BY <1>7, Nulls DEF Replay, Answer, guardVars
<1>8. ASSUME NEW c \in Calls, LookupFails(c) PROVE NoForgottenLock'
  BY <1>8, Nulls DEF LookupFails, Answer, guardVars
<1>9. ASSUME NEW c \in Calls, Mutate(c) PROVE NoForgottenLock'
  BY <1>9, Nulls DEF Mutate, guardVars
<1>10. ASSUME NEW c \in Calls, MutationThrows(c) PROVE NoForgottenLock'
  BY <1>10, Nulls DEF MutationThrows, Answer, Leave, guardVars
<1>11. ASSUME NEW c \in Calls, Append(c) PROVE NoForgottenLock'
  BY <1>11, Nulls DEF Append, Done, Answer, Leave, guardVars
<1>12. ASSUME NEW c \in Calls, AppendFails(c) PROVE NoForgottenLock'
  BY <1>12, Nulls DEF AppendFails, Done, Answer, Leave, guardVars
<1>13. ASSUME NEW c \in Calls, Unlock(c) PROVE NoForgottenLock'
  BY <1>13, Nulls DEF Unlock, guardVars
<1>14. ASSUME NEW c \in Calls, Take(c) PROVE NoForgottenLock'
  BY <1>14, Nulls DEF Take, Clear, Answer, guardVars
<1>15. ASSUME NEW c \in Calls, Crash(c) PROVE NoForgottenLock'
  BY <1>15, Nulls DEF Crash, Clear, Answer, Freed, guardVars
<1>16. ASSUME NEW s \in Sessions, SessionDrops(s) PROVE NoForgottenLock'
  BY <1>16, Nulls DEF SessionDrops, Freed, InUse, guardVars
<1>17. CASE UNCHANGED vars
  BY <1>17 DEF vars, guardVars
<1> QED
  BY <1>1, <1>2, <1>3, <1>4, <1>5, <1>6, <1>7, <1>8, <1>9, <1>10, <1>11, <1>12, <1>13,
     <1>14, <1>15, <1>16, <1>17 DEF Next, Progress

\* While a lock is kept, no row appears under its key but its owner's.
LEMMA GuardedStep == IInv /\ [Next]_vars => GuardedRunCanBeRecorded'
<1> SUFFICES ASSUME IInv, [Next]_vars PROVE GuardedRunCanBeRecorded'
  OBVIOUS
<1> USE DEF IInv, TypeOK, GuardTypeOK, Holding, GuardedRunCanBeRecorded, SessionsFit,
   LocksFit, Keyed, Found, RowsOf
<1>1. ASSUME NEW c \in Calls, NEW k \in KeysSent, NEW r \in Offered, Submit(c, k, r)
      PROVE  GuardedRunCanBeRecorded'
  BY <1>1 DEF Submit, guardVars
<1>2. ASSUME NEW c \in Calls, NEW s \in Sessions, TryLock(c, s) PROVE GuardedRunCanBeRecorded'
  BY <1>2 DEF TryLock, Waiting, Available, InUse, guardVars
<1>3. ASSUME NEW c \in Calls, NEW s \in Sessions, TryFails(c, s) PROVE GuardedRunCanBeRecorded'
  BY <1>3 DEF TryFails, guardVars
<1>4. ASSUME NEW c \in Calls, GiveUp(c) PROVE GuardedRunCanBeRecorded'
  BY <1>4 DEF GiveUp, Answer, guardVars
<1>5. ASSUME NEW c \in Calls, ConnectFails(c) PROVE GuardedRunCanBeRecorded'
  BY <1>5 DEF ConnectFails, Waiting, Available, InUse, Answer, guardVars
<1>6. ASSUME NEW c \in Calls, Execute(c) PROVE GuardedRunCanBeRecorded'
  BY <1>6 DEF Execute, guardVars
<1>7. ASSUME NEW c \in Calls, Replay(c) PROVE GuardedRunCanBeRecorded'
  BY <1>7 DEF Replay, Answer, guardVars
<1>8. ASSUME NEW c \in Calls, LookupFails(c) PROVE GuardedRunCanBeRecorded'
  BY <1>8 DEF LookupFails, Answer, guardVars
<1>9. ASSUME NEW c \in Calls, Mutate(c) PROVE GuardedRunCanBeRecorded'
  BY <1>9 DEF Mutate, guardVars
<1>10. ASSUME NEW c \in Calls, MutationThrows(c) PROVE GuardedRunCanBeRecorded'
  BY <1>10 DEF MutationThrows, Answer, Leave, guardVars
<1>11. ASSUME NEW c \in Calls, Append(c) PROVE GuardedRunCanBeRecorded'
  BY <1>11, Nulls DEF Append, Done, Answer, Leave, AuditRow, guardVars
<1>12. ASSUME NEW c \in Calls, AppendFails(c) PROVE GuardedRunCanBeRecorded'
  BY <1>12 DEF AppendFails, Done, Answer, Leave, guardVars
<1>13. ASSUME NEW c \in Calls, Unlock(c) PROVE GuardedRunCanBeRecorded'
  BY <1>13 DEF Unlock, guardVars
<1>14. ASSUME NEW c \in Calls, Take(c) PROVE GuardedRunCanBeRecorded'
  BY <1>14 DEF Take, Clear, Answer, guardVars
<1>15. ASSUME NEW c \in Calls, Crash(c) PROVE GuardedRunCanBeRecorded'
  BY <1>15 DEF Crash, Clear, Answer, Freed, guardVars
<1>16. ASSUME NEW s \in Sessions, SessionDrops(s) PROVE GuardedRunCanBeRecorded'
  BY <1>16 DEF SessionDrops, Freed, InUse, guardVars
<1>17. CASE UNCHANGED vars
  BY <1>17 DEF vars, guardVars
<1> QED
  BY <1>1, <1>2, <1>3, <1>4, <1>5, <1>6, <1>7, <1>8, <1>9, <1>10, <1>11, <1>12, <1>13,
     <1>14, <1>15, <1>16, <1>17 DEF Next, Progress

\* An answer is judged by its own row: a step that writes no row is judged by the answer
\* it gives.
LEMMA OtherAnswers ==
  ASSUME IInv, NEW c \in Calls, UNCHANGED history,
         \A d \in Calls \ {c} : /\ answer'[d] = answer[d]
                                /\ key'[d] = key[d]
                                /\ request'[d] = request[d],
         answer'[c].verdict = "ok" =>
           \E h \in RowsOf(key'[c]) :
             /\ h.request = request'[c]
             /\ h.changed = answer'[c].changed
             /\ key'[c] # NoKey => RowsOf(key'[c]) = {h}
  PROVE  EveryAnswerIsOnRecord'
BY DEF IInv, EveryAnswerIsOnRecord, RowsOf, Keyed


\* Answers are recorded, and rows stay.
LEMMA RecordStep == IInv /\ [Next]_vars => EveryAnswerIsOnRecord'
<1> SUFFICES ASSUME IInv, [Next]_vars PROVE EveryAnswerIsOnRecord'
  OBVIOUS
<1> USE DEF IInv, TypeOK, GuardTypeOK
<1>1. ASSUME NEW c \in Calls, NEW k \in KeysSent, NEW r \in Offered, Submit(c, k, r)
      PROVE  EveryAnswerIsOnRecord'
  BY <1>1 DEF Submit, Reply, EveryAnswerIsOnRecord, RowsOf, Keyed, PhasesFit, guardVars
<1>2. ASSUME NEW c \in Calls, NEW s \in Sessions, TryLock(c, s) PROVE EveryAnswerIsOnRecord'
  BY <1>2 DEF TryLock, Waiting, Available, InUse, Reply, EveryAnswerIsOnRecord, RowsOf,
     Keyed, PhasesFit, guardVars
<1>3. ASSUME NEW c \in Calls, NEW s \in Sessions, TryFails(c, s) PROVE EveryAnswerIsOnRecord'
  BY <1>3 DEF TryFails, Reply, EveryAnswerIsOnRecord, RowsOf, Keyed, PhasesFit, guardVars
<1>4. ASSUME NEW c \in Calls, GiveUp(c) PROVE EveryAnswerIsOnRecord'
  BY <1>4, OtherAnswers DEF GiveUp, Answer, Reply, guardVars
<1>5. ASSUME NEW c \in Calls, ConnectFails(c) PROVE EveryAnswerIsOnRecord'
  BY <1>5, OtherAnswers DEF ConnectFails, Waiting, Available, InUse, Answer, Reply,
     guardVars
<1>6. ASSUME NEW c \in Calls, Execute(c) PROVE EveryAnswerIsOnRecord'
  BY <1>6 DEF Execute, Reply, EveryAnswerIsOnRecord, RowsOf, Keyed, PhasesFit, guardVars
<1>7. ASSUME NEW c \in Calls, Replay(c) PROVE EveryAnswerIsOnRecord'
  <2>1. key[c] \in Keys
    BY <1>7, Nulls DEF Replay, SessionsFit, Keyed
  <2>2. PICK h \in Found(key[c]) :
          Answer(c, IF h.request = request[c]
                      THEN [verdict |-> "ok", changed |-> h.changed, replayed |-> TRUE]
                      ELSE Reply("conflict"))
    BY <1>7 DEF Replay
  <2>3. RowsOf(key[c]) = {h}
    BY <2>1, <2>2 DEF Found, RowsOf, OneRowPerKey
  <2>4. answer'[c].verdict = "ok" => answer'[c].changed = h.changed /\ h.request = request[c]
    BY <2>2 DEF Answer, Reply
  <2>5. \A d \in Calls \ {c} : answer'[d] = answer[d]
    BY <2>2 DEF Answer
  <2> QED
    BY <1>7, <2>3, <2>4, <2>5, OtherAnswers DEF Replay, RowsOf
<1>8. ASSUME NEW c \in Calls, LookupFails(c) PROVE EveryAnswerIsOnRecord'
  BY <1>8, OtherAnswers DEF LookupFails, Answer, Reply, guardVars
<1>9. ASSUME NEW c \in Calls, Mutate(c) PROVE EveryAnswerIsOnRecord'
  BY <1>9 DEF Mutate, Reply, EveryAnswerIsOnRecord, RowsOf, Keyed, PhasesFit, guardVars
<1>10. ASSUME NEW c \in Calls, MutationThrows(c) PROVE EveryAnswerIsOnRecord'
  BY <1>10, OtherAnswers DEF MutationThrows, Answer, Leave, Reply, guardVars
<1>11. ASSUME NEW c \in Calls, Append(c) PROVE EveryAnswerIsOnRecord'
  <2>1. history' = history \cup {AuditRow(c)} /\ ~ Clashes(c) /\ UNCHANGED <<key, request>>
    BY <1>11 DEF Append
  <2>2. Keyed(c) => RowsOf(key[c])' = {AuditRow(c)}
    BY <2>1 DEF Clashes, RowsOf, AuditRow
  <2>3. /\ AuditRow(c) \in RowsOf(key[c])'
        /\ AuditRow(c).request = request[c] /\ AuditRow(c).changed = changed[c]
    BY <2>1 DEF RowsOf, AuditRow
  <2>4. answer'[c].verdict = "ok" => answer'[c].changed = changed[c]
    BY <1>11 DEF Append, Answer, Reply
  <2>5. ASSUME NEW d \in Calls \ {c}
        PROVE  /\ answer'[d] = answer[d]
               /\ answer[d].verdict = "ok" /\ Keyed(d) => RowsOf(key[d])' = RowsOf(key[d])
               /\ RowsOf(key[d]) \subseteq RowsOf(key[d])'
    <3>1. answer'[d] = answer[d]
      BY <1>11 DEF Append, Answer
    <3>2. ASSUME answer[d].verdict = "ok", Keyed(d) PROVE key[d] # key[c]
      <4>1. RowsOf(key[d]) # {}
        BY <3>2 DEF EveryAnswerIsOnRecord
      <4> QED
        BY <3>2, <4>1, <2>1 DEF Clashes, Keyed
    <3> QED
      BY <3>1, <3>2, <2>1 DEF RowsOf, AuditRow
  <2>6. ASSUME NEW d \in Calls, answer'[d].verdict = "ok"
        PROVE  \E h \in RowsOf(key[d])' :
                 /\ h.request = request[d]
                 /\ h.changed = answer'[d].changed
                 /\ Keyed(d) => RowsOf(key[d])' = {h}
    <3>1. CASE d = c
      BY <2>2, <2>3, <2>4, <2>6, <3>1
    <3>2. CASE d # c
      BY <2>5, <2>6, <3>2 DEF EveryAnswerIsOnRecord
    <3> QED
      BY <3>1, <3>2
  <2> QED
    BY <2>1, <2>6 DEF EveryAnswerIsOnRecord, Keyed
<1>12. ASSUME NEW c \in Calls, AppendFails(c) PROVE EveryAnswerIsOnRecord'
  BY <1>12, OtherAnswers DEF AppendFails, Done, Answer, Leave, Reply, guardVars
<1>13. ASSUME NEW c \in Calls, Unlock(c) PROVE EveryAnswerIsOnRecord'
  BY <1>13 DEF Unlock, Reply, EveryAnswerIsOnRecord, RowsOf, Keyed, PhasesFit, guardVars
<1>14. ASSUME NEW c \in Calls, Take(c) PROVE EveryAnswerIsOnRecord'
  BY <1>14, OtherAnswers DEF Take, Clear, Answer, Reply, guardVars
<1>15. ASSUME NEW c \in Calls, Crash(c) PROVE EveryAnswerIsOnRecord'
  BY <1>15, OtherAnswers DEF Crash, Clear, Answer, Freed, Reply, guardVars
<1>16. ASSUME NEW s \in Sessions, SessionDrops(s) PROVE EveryAnswerIsOnRecord'
  BY <1>16 DEF SessionDrops, Freed, InUse, Reply, EveryAnswerIsOnRecord, RowsOf, Keyed,
     PhasesFit, guardVars
<1>17. CASE UNCHANGED vars
  BY <1>17 DEF vars, guardVars, Reply, EveryAnswerIsOnRecord, RowsOf, Keyed, PhasesFit
<1> QED
  BY <1>1, <1>2, <1>3, <1>4, <1>5, <1>6, <1>7, <1>8, <1>9, <1>10, <1>11, <1>12, <1>13,
     <1>14, <1>15, <1>16, <1>17 DEF Next, Progress

-----------------------------------------------------------------------------

MutationProofs == INSTANCE PolicyMutationProofs

\* What a request does to the mutation is a step of PolicyMutation, or the end of a
\* request that dies.
LEMMA PolicySteps ==
  ASSUME IInv, [Next]_vars
  PROVE  Policy!Next \/ UNCHANGED policyVars
           \/ \E c \in Calls : Policy!Forget(c) /\ UNCHANGED table
<1>1. CASE UNCHANGED vars
  BY <1>1 DEF vars
<1>2. ASSUME NEW c \in Calls, NEW k \in KeysSent, NEW r \in Offered, Submit(c, k, r)
      PROVE  Policy!Next \/ UNCHANGED policyVars
  BY <1>2 DEF Submit, Policy!Next
<1>3. ASSUME NEW c \in Calls, Execute(c) PROVE Policy!Next
  <2>1. PICK r \in Offered : request[c] = Policy!Normalized(r)
    BY <1>3 DEF Execute, IInv, PhasesFit
  <2>2. Policy!Begin(c, r)
    BY <1>3, <2>1, BeginNormalized DEF Execute
  <2> QED
    BY <2>2 DEF Policy!Next
<1>4. ASSUME NEW c \in Calls, Mutate(c) PROVE Policy!Next
  BY <1>4 DEF Mutate, Policy!Next
<1>5. ASSUME NEW c \in Calls, MutationThrows(c) \/ Append(c) \/ AppendFails(c) PROVE Policy!Next
  BY <1>5 DEF MutationThrows, Append, AppendFails, Leave, Policy!Next
<1>6. ASSUME NEW c \in Calls, Crash(c) PROVE Policy!Forget(c) /\ UNCHANGED table
  BY <1>6 DEF Crash
<1>7. ASSUME NEW c \in Calls, NEW s \in Sessions, TryLock(c, s) \/ TryFails(c, s)
      PROVE  UNCHANGED policyVars
  BY <1>7 DEF TryLock, TryFails
<1>8. ASSUME NEW c \in Calls,
             \/ GiveUp(c) \/ Replay(c) \/ Unlock(c)
             \/ ConnectFails(c) \/ LookupFails(c) \/ Take(c)
      PROVE  UNCHANGED policyVars
  BY <1>8 DEF GiveUp, Replay, Unlock, ConnectFails, LookupFails, Take
<1>9. ASSUME NEW s \in Sessions, SessionDrops(s) PROVE UNCHANGED policyVars
  BY <1>9 DEF SessionDrops
<1> QED
  BY <1>1, <1>2, <1>3, <1>4, <1>5, <1>6, <1>7, <1>8, <1>9 DEF Next, Progress

\* The variables of the mutation keep their types: by the proofs of PolicyMutation, and
\* for a request that dies.
LEMMA PolicyTypeStep == IInv /\ [Next]_vars => Policy!TypeOK'
<1> SUFFICES ASSUME IInv, [Next]_vars PROVE Policy!TypeOK'
  OBVIOUS
<1>0. Policy!TypeOK
  BY DEF IInv, TypeOK
<1>1. CASE Policy!Next
  <2>1. /\ EvmNetworks \subseteq Networks
        /\ Offered \subseteq MutationProofs!Requests
        /\ NoRequest \notin MutationProofs!Requests
    BY PolicyAssumption DEF Policy!Requests, MutationProofs!Requests, Policy!Spellings,
       MutationProofs!Spellings, Policy!Policies, MutationProofs!Policies
  <2>2. MutationProofs!TypeOK /\ [MutationProofs!Next]_MutationProofs!vars => MutationProofs!TypeOK'
    BY <2>1, MutationProofs!TypeStep
  <2>3. (Policy!TypeOK <=> MutationProofs!TypeOK) /\ (Policy!TypeOK' <=> MutationProofs!TypeOK')
    BY DEF Policy!TypeOK, MutationProofs!TypeOK, Policy!Policies, MutationProofs!Policies,
       Policy!Answers, MutationProofs!Answers, Policy!Running, MutationProofs!Running,
       Policy!Ended, MutationProofs!Ended, Policy!Requests, MutationProofs!Requests,
       Policy!Spellings, MutationProofs!Spellings
  <2>4. Policy!Next => MutationProofs!Next
    BY DEF Policy!Next, MutationProofs!Next, Policy!Begin, MutationProofs!Begin,
       Policy!Canonical, MutationProofs!Canonical, Policy!Normalized,
       MutationProofs!Normalized, Policy!Lists, MutationProofs!Lists, Policy!Row,
       MutationProofs!Row, Policy!Rivals, MutationProofs!Rivals, Policy!Active,
       MutationProofs!Active, Policy!Running, MutationProofs!Running, Policy!Advance,
       MutationProofs!Advance, Policy!Ended, MutationProofs!Ended, Policy!ReadTarget,
       MutationProofs!ReadTarget, Policy!ReadOpposite, MutationProofs!ReadOpposite,
       Policy!RejectUnconfirmed, MutationProofs!RejectUnconfirmed, Policy!RemoveOpposite,
       MutationProofs!RemoveOpposite, Policy!AddTarget, MutationProofs!AddTarget,
       Policy!KeepTarget, MutationProofs!KeepTarget, Policy!Delete, MutationProofs!Delete,
       Policy!QueryFails, MutationProofs!QueryFails, Policy!Return, MutationProofs!Return,
       Policy!Forget, MutationProofs!Forget, Policy!Presence, MutationProofs!Presence,
       Policy!Target, MutationProofs!Target, Policy!OppositeRow,
       MutationProofs!OppositeRow, Policy!Opposite, MutationProofs!Opposite,
       Policy!Decided, MutationProofs!Decided, Policy!Unconfirmed,
       MutationProofs!Unconfirmed, Policy!MustRemoveOpposite,
       MutationProofs!MustRemoveOpposite, Policy!ReadyToAdd, MutationProofs!ReadyToAdd,
       Policy!AwaitsQuery, MutationProofs!AwaitsQuery, Policy!Policies,
       MutationProofs!Policies
  <2> QED
    BY <1>0, <1>1, <2>2, <2>3, <2>4
<1>2. CASE UNCHANGED policyVars
  BY <1>0, <1>2 DEF policyVars, Policy!TypeOK
<1>3. ASSUME NEW c \in Calls, Policy!Forget(c), UNCHANGED table PROVE Policy!TypeOK'
  BY <1>0, <1>3 DEF Policy!TypeOK, Policy!Forget, Policy!Answers
<1> QED
  BY <1>1, <1>2, <1>3, PolicySteps

\* The strengthened invariant holds in every state.
THEOREM Inductive == Spec => []IInv
<1>1. Init => IInv
  <2> SUFFICES ASSUME Init PROVE IInv
    OBVIOUS
  <2>1. Policy!TypeOK
    BY DEF Init, Policy!Init, Policy!TypeOK, Policy!Running, Policy!Ended, Policy!Answers
  <2>2. LegacyRows \subseteq HistoryRows /\ \A h \in LegacyRows : ~ h.hashed
    BY LegacyAssumption
  <2>3. GuardTypeOK
    BY <2>2 DEF Init, GuardTypeOK, Holding, Answers, Reply
  <2>4. OneRowPerKey
    BY LegacyAssumption DEF Init, OneRowPerKey
  <2>5. SessionsFit /\ LocksFit /\ NoForgottenLock
    BY Nulls DEF Init, SessionsFit, LocksFit, NoForgottenLock, Holding, Keyed, InUse
  <2>6. PhasesFit /\ GuardedRunCanBeRecorded /\ EveryAnswerIsOnRecord
    BY DEF Init, Policy!Init, PhasesFit, GuardedRunCanBeRecorded, EveryAnswerIsOnRecord,
       Reply
  <2> QED
    BY <2>1, <2>3, <2>4, <2>5, <2>6 DEF IInv, TypeOK
<1>2. IInv /\ [Next]_vars => IInv'
  BY GuardTypeStep, PolicyTypeStep, SessionStep, LockStep, PhaseStep, RowStep,
     ForgottenStep, GuardedStep, RecordStep DEF IInv, TypeOK
<1> QED
  BY <1>1, <1>2, PTL DEF Spec

\* Every variable keeps its type.
THEOREM TypeCorrect == Spec => []TypeOK
<1>1. IInv => TypeOK
  BY DEF IInv
<1> QED
  BY <1>1, Inductive, PTL

\* Two requests are past the lock of one key only when a session was dropped under the
\* work it guards: a session has the lock of one request, and gives it to no other.
THEOREM OneOwnerHolds == Spec => []OneOwner
<1>1. IInv => OneOwner
  <2> SUFFICES ASSUME IInv, NEW c \in Calls, NEW d \in Calls,
                      c # d, Keyed(c), key[c] = key[d],
                      {phase[c], phase[d]} \subseteq {"lookup", "acting"},
                      key[c] \notin unguarded
               PROVE  FALSE
    BY DEF OneOwner
  <2> USE DEF IInv, Keyed, Holding
  <2>1. owner[key[c]] = session[c] /\ owner[key[c]] = session[d]
    BY DEF LocksFit
  <2>2. session[c] # NoSession
    BY DEF SessionsFit
  <2> QED
    BY <2>1, <2>2 DEF SessionsFit
<1> QED
  BY <1>1, Inductive, PTL

\* A lock is held for a request in progress or by a failed unlock: no error path, dropped
\* session or crash leaves one behind.
THEOREM NoForgottenLockHolds == Spec => []NoForgottenLock
<1>1. IInv => NoForgottenLock
  BY DEF IInv
<1> QED
  BY <1>1, Inductive, PTL

\* While its lock is not lost, a mutation runs only under a key that no hashed audit row
\* has: executeOnce looks up after it locks.
THEOREM GuardedRunCanBeRecordedHolds == Spec => []GuardedRunCanBeRecorded
<1>1. IInv => GuardedRunCanBeRecorded
  BY DEF IInv
<1> QED
  BY <1>1, Inductive, PTL

\* Every positive answer, first or replayed, is what an audit row says, the only one of
\* its key: crashes, dropped sessions and lost acknowledgements included.
THEOREM EveryAnswerIsOnRecordHolds == Spec => []EveryAnswerIsOnRecord
<1>1. IInv => EveryAnswerIsOnRecord
  BY DEF IInv
<1> QED
  BY <1>1, Inductive, PTL

-----------------------------------------------------------------------------
(* The audit table, read as a record of decisions, implements the          *)
(* write-once record.                                                      *)

\* While the audit table does not change, neither does any decision.
LEMMA SameRecord == UNCHANGED history => recordOf' = recordOf
<1> SUFFICES ASSUME UNCHANGED history PROVE recordOf' = recordOf
  OBVIOUS
<1>1. \A k : Found(k)' = Found(k)
  BY DEF Found, RowsOf
<1> QED
  BY <1>1 DEF recordOf

\* A request that is answered without a positive verdict is told nothing.
LEMMA Untold ==
  ASSUME NEW c \in Calls, UNCHANGED history, answer'[c].verdict # "ok",
         \A d \in Calls \ {c} : /\ answer'[d] = answer[d]
                                /\ key'[d] = key[d]
                                /\ request'[d] = request[d]
  PROVE  [Record!Next]_Record!vars
<1>1. toldTo' = [toldTo EXCEPT ![c] = <<>>]
  BY DEF toldTo, Keyed
<1>2. Record!Leave(c)
  BY <1>1, SameRecord DEF Record!Leave, Record!Nothing
<1> QED
  BY <1>2 DEF Record!Next

\* A step that neither writes a row nor answers is a stutter of the record.
LEMMA Silent ==
  ASSUME UNCHANGED <<history, answer, key, request>>
  PROVE  [Record!Next]_Record!vars
<1>1. toldTo' = toldTo
  BY DEF toldTo, Keyed
<1> QED
  BY <1>1, SameRecord DEF Record!vars

\* The decision of a key is its only hashed row.
LEMMA RecordOfRow ==
  ASSUME NEW k \in Keys, NEW h, Found(k) = {h}
  PROVE  recordOf[k] = Decision(h)
BY DEF recordOf, DecisionOf

\* A replay tells the decision of its key, or that the request is another one.
LEMMA ReplayTells ==
  ASSUME IInv, NEW c \in Calls, Replay(c)
  PROVE  [Record!Next]_Record!vars
<1>1. key[c] \in Keys /\ UNCHANGED <<history, key, request>>
  BY Nulls DEF Replay, IInv, TypeOK, GuardTypeOK, SessionsFit, Keyed
<1>2. PICK h \in Found(key[c]) :
        Answer(c, IF h.request = request[c]
                    THEN [verdict |-> "ok", changed |-> h.changed, replayed |-> TRUE]
                    ELSE Reply("conflict"))
  BY DEF Replay
<1>3. answer \in [Calls -> Answers] /\ h \in HistoryRows
  BY <1>2 DEF IInv, TypeOK, GuardTypeOK, Found, RowsOf
<1>4. \A d \in Calls \ {c} : answer'[d] = answer[d]
  BY <1>2, <1>3 DEF Answer
<1>5. CASE h.request = request[c]
  <2>1. Found(key[c]) = {h}
    BY <1>1, <1>2 DEF IInv, OneRowPerKey, Found, RowsOf
  <2>2. recordOf[key[c]] = Decision(h)
    BY <1>1, <2>1, RecordOfRow
  <2>3. Decision(h) # NoRequest
    BY <1>3, NullAssumption DEF Decision, HistoryRows
  <2>4. answer'[c].verdict = "ok" /\ answer'[c].changed = h.changed
    BY <1>2, <1>3, <1>5 DEF Answer
  <2>5. toldTo' = [toldTo EXCEPT ![c] = <<key[c], Decision(h)>>]
    BY <1>1, <1>4, <1>5, <2>4, Nulls DEF toldTo, Keyed, Decision
  <2>6. Record!Tell(c, key[c])
    BY <1>1, <2>2, <2>3, <2>5, SameRecord DEF Record!Tell
  <2> QED
    BY <1>1, <2>6 DEF Record!Next
<1>6. CASE h.request # request[c]
  <2>1. answer'[c].verdict # "ok"
    BY <1>2, <1>3, <1>6 DEF Answer, Reply
  <2> QED
    BY <1>1, <1>4, <2>1, Untold
<1> QED
  BY <1>5, <1>6

\* An audit row decides its key, and may be acknowledged; one without a key decides none.
LEMMA AppendDecides ==
  ASSUME IInv, NEW c \in Calls, Append(c)
  PROVE  [Record!Next]_Record!vars
<1> DEFINE row == AuditRow(c)
<1>1. /\ history' = history \cup {row}
      /\ UNCHANGED <<key, request>>
      /\ ~ Clashes(c)
  BY DEF Append
<1>2. /\ row.key = key[c]
      /\ row.request = request[c]
      /\ row.changed = changed[c]
      /\ row.hashed <=> Keyed(c)
  BY DEF AuditRow
<1>3. /\ answer \in [Calls -> Answers]
      /\ changed[c] \in BOOLEAN
      /\ key[c] \in Keys \cup {NoKey}
  BY DEF IInv, TypeOK, GuardTypeOK, Policy!TypeOK
<1>4. \A d \in Calls \ {c} : answer'[d] = answer[d]
  BY <1>3 DEF Append, Answer
<1>5. answer'[c].verdict = "ok" => answer'[c].changed = changed[c]
  BY <1>3 DEF Append, Answer, Reply
<1>6. \A k : k # key[c] => Found(k)' = Found(k)
  BY <1>1, <1>2 DEF Found, RowsOf
<1>7. CASE ~ Keyed(c)
  <2>1. \A k \in Keys : Found(k)' = Found(k)
    BY <1>6, <1>7, Nulls DEF Keyed
  <2>2. recordOf' = recordOf
    BY <2>1 DEF recordOf
  <2>3. toldTo' = [toldTo EXCEPT ![c] = <<>>]
    BY <1>1, <1>4, <1>7 DEF toldTo, Keyed
  <2>4. Record!Leave(c)
    BY <2>2, <2>3 DEF Record!Leave, Record!Nothing
  <2> QED
    BY <2>4 DEF Record!Next
<1>8. CASE Keyed(c)
  <2>1. key[c] \in Keys
    BY <1>3, <1>8 DEF Keyed
  <2>2. Found(key[c]) = {} /\ Found(key[c])' = {row}
    BY <1>1, <1>2, <1>8 DEF Clashes, Found, RowsOf
  <2>3. recordOf[key[c]] = NoRequest
    BY <2>1, <2>2 DEF recordOf, DecisionOf
  <2>4. Decision(row) \in Decisions
    <3>1. request[c] \in {Policy!Normalized(r) : r \in Offered}
      BY DEF Append, Done, IInv, PhasesFit
    <3> QED
      BY <1>2, <1>3, <3>1 DEF Decision, Decisions
  <2>5. recordOf' = [recordOf EXCEPT ![key[c]] = Decision(row)]
    <3>1. recordOf'[key[c]] = Decision(row)
      <4>1. recordOf'[key[c]] = DecisionOf({row})
        BY <1>1, <2>1, <2>2 DEF recordOf
      <4>2. DecisionOf({row}) = Decision(row)
        BY DEF DecisionOf
      <4> QED
        BY <4>1, <4>2
    <3>2. \A k \in Keys \ {key[c]} : recordOf'[k] = recordOf[k]
      BY <1>6 DEF recordOf
    <3>3. recordOf = [k \in Keys |-> recordOf[k]] /\ recordOf' = [k \in Keys |-> recordOf'[k]]
      BY DEF recordOf
    <3> QED
      BY <2>1, <3>1, <3>2, <3>3
  <2>6. toldTo' \in {toldTo, [toldTo EXCEPT ![c] = <<key[c], Decision(row)>>]}
    <3>1. toldTo[c] = <<>>
      BY DEF Append, Done, IInv, PhasesFit, Reply, toldTo
    <3>2. CASE answer'[c].verdict = "ok"
      BY <1>1, <1>2, <1>4, <1>5, <1>8, <3>2 DEF toldTo, Keyed, Decision
    <3>3. CASE answer'[c].verdict # "ok"
      BY <1>1, <1>4, <3>1, <3>3 DEF toldTo, Keyed
    <3> QED
      BY <3>2, <3>3
  <2>7. Record!Decide(c, key[c], Decision(row))
    BY <2>3, <2>5, <2>6 DEF Record!Decide
  <2> QED
    BY <2>1, <2>4, <2>7 DEF Record!Next
<1> QED
  BY <1>7, <1>8

\* Every step decides a key once, tells its decision, takes an answer back, or changes
\* nothing.
LEMMA RecordSteps == IInv /\ [Next]_vars => [Record!Next]_Record!vars
<1> SUFFICES ASSUME IInv, [Next]_vars PROVE [Record!Next]_Record!vars
  OBVIOUS
<1>0. answer \in [Calls -> Answers] /\ key \in [Calls -> Keys \cup {NoKey}]
        /\ request \in [Calls -> Policy!Requests \cup {NoRequest}]
  BY DEF IInv, TypeOK, GuardTypeOK
<1>1. ASSUME NEW c \in Calls, NEW k \in KeysSent, NEW r \in Offered, Submit(c, k, r)
      PROVE  [Record!Next]_Record!vars
  <2>1. answer'[c].verdict # "ok"
    BY <1>1 DEF Submit, IInv, PhasesFit, Reply
  <2> QED
    BY <1>0, <1>1, <2>1, Untold DEF Submit
<1>2. ASSUME NEW c \in Calls,
             \/ \E s \in Sessions : TryLock(c, s) \/ TryFails(c, s)
             \/ Execute(c) \/ Mutate(c) \/ Unlock(c)
      PROVE  [Record!Next]_Record!vars
  <2>1. UNCHANGED <<history, answer, key, request>>
    BY <1>2 DEF TryLock, TryFails, Execute, Mutate, Unlock
  <2> QED
    BY <2>1, Silent
<1>3. ASSUME NEW c \in Calls,
             \/ GiveUp(c) \/ ConnectFails(c) \/ LookupFails(c)
             \/ MutationThrows(c) \/ AppendFails(c)
      PROVE  [Record!Next]_Record!vars
  <2>1. UNCHANGED <<history, key, request>>
    BY <1>3 DEF GiveUp, ConnectFails, LookupFails, MutationThrows, AppendFails
  <2>2. /\ answer'[c].verdict # "ok"
        /\ \A d \in Calls \ {c} : answer'[d] = answer[d]
    BY <1>0, <1>3 DEF GiveUp, ConnectFails, LookupFails, MutationThrows, AppendFails,
       Answer, Reply
  <2> QED
    BY <2>1, <2>2, Untold
<1>4. ASSUME NEW c \in Calls, Replay(c) PROVE [Record!Next]_Record!vars
  BY <1>4, ReplayTells
<1>5. ASSUME NEW c \in Calls, Append(c) PROVE [Record!Next]_Record!vars
  BY <1>5, AppendDecides
<1>6. ASSUME NEW c \in Calls, Take(c) \/ Crash(c) PROVE [Record!Next]_Record!vars
  <2>1. UNCHANGED history /\ Clear(c)
    BY <1>6 DEF Take, Crash
  <2>2. /\ answer'[c].verdict # "ok"
        /\ \A d \in Calls \ {c} : /\ answer'[d] = answer[d]
                                  /\ key'[d] = key[d]
                                  /\ request'[d] = request[d]
    BY <1>0, <2>1 DEF Clear, Answer, Reply
  <2> QED
    BY <2>1, <2>2, Untold
<1>7. ASSUME NEW s \in Sessions, SessionDrops(s) PROVE [Record!Next]_Record!vars
  BY <1>7, Silent DEF SessionDrops
<1>8. CASE UNCHANGED vars
  BY <1>8, Silent DEF vars
<1> QED
  BY <1>1, <1>2, <1>3, <1>4, <1>5, <1>6, <1>7, <1>8 DEF Next, Progress

\* The audit table decides each key at most once and for good, and every positive answer
\* under a key is its decision, whatever crashes, is dropped or is lost.
THEOREM KeysAreWriteOnceHolds == Spec => KeysAreWriteOnce
<1>1. Init => Record!Init
  <2> SUFFICES ASSUME Init PROVE Record!Init
    OBVIOUS
  <2>1. \A h \in history : ~ h.hashed
    BY LegacyAssumption DEF Init
  <2>2. recordOf = [k \in Keys |-> NoRequest]
    BY <2>1 DEF recordOf, DecisionOf, Found, RowsOf
  <2>3. toldTo = [c \in Calls |-> <<>>]
    BY DEF Init, toldTo, Reply
  <2> QED
    BY <2>2, <2>3 DEF Record!Init, Record!Nothing
<1> QED
  BY <1>1, RecordSteps, Inductive, PTL DEF Spec, KeysAreWriteOnce, Record!Spec

=============================================================================
