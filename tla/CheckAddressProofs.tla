------------------------- MODULE CheckAddressProofs -------------------------
(***************************************************************************)
(* Proofs about CheckAddress, for every set of checks, of mutations, of    *)
(* networks and of names, and any number of provider answers.              *)
(***************************************************************************)
EXTENDS CheckAddress, TLAPS

\* The null values are no results and no checks.
LEMMA Nulls ==
  Failed \notin Results /\ None \notin Results /\ Failed # None /\ None \notin Checks
BY NullAssumption

\* normalizeInput yields an address.
LEMMA CanonicalSpelling ==
  ASSUME NEW s \in Queried
  PROVE  Policy!Canonical(s) \in Policy!Spellings
BY QueriedAssumption DEF Policy!Canonical, Policy!Spellings

\* The lists of an address are what its two reads can answer.
LEMMA ListsOf ==
  ASSUME NEW e
  PROVE  /\ Policy!Lists(e) \subseteq Policy!Policies
         /\ \A p \in Policy!Policies : p \in Policy!Lists(e) <=> Policy!Row(e, p) \in table
BY DEF Policy!Lists

\* createPolicyDecisionResult: a result that names the list and its risk.
LEMMA DecisionOf ==
  ASSUME NEW p \in Policy!Policies
  PROVE  /\ Decision(p) \in Results
         /\ Decision(p).source = p
         /\ Decision(p).risk = IF p = "blacklist" THEN "high" ELSE "low"
<1>1. 0 \in 0..MaxAsks
  BY MaxAsksAssumption
<1> QED
  BY <1>1 DEF Decision, Results, Policy!Policies

\* withRetrievalSource changes nothing but the way the result came.
LEMMA CachedResult ==
  ASSUME NEW e, cache[e] \in Results
  PROVE  FromCache(e) \in Results /\ FromCache(e).source = cache[e].source
BY DEF FromCache, Results

\* The next answer of the provider is a result.
LEMMA AnswerOf ==
  ASSUME CheckTypeOK, asks < MaxAsks, NEW risk \in Risks
  PROVE  /\ asks + 1 \in 0..MaxAsks
         /\ [source |-> "provider", risk |-> risk, via |-> "provider", at |-> asks + 1]
              \in Results
<1>1. asks + 1 \in 0..MaxAsks
  BY MaxAsksAssumption DEF CheckTypeOK
<1> QED
  BY <1>1, RisksAssumption DEF Results


-----------------------------------------------------------------------------
(* One lemma for each part of the inductive invariant, one step for each   *)
(* action.                                                                 *)

\* The variables of the check keep their types.
LEMMA CheckTypeStep == IInv /\ [Next]_vars => CheckTypeOK'
<1> SUFFICES ASSUME IInv, [Next]_vars PROVE CheckTypeOK'
  OBVIOUS
<1> USE DEF IInv, TypeOK, CheckTypeOK, Placed, ResultsFit, Locked
<1>1. ASSUME NEW k \in Checks, NEW s \in Queried, Start(k, s) PROVE CheckTypeOK'
  BY <1>1, CanonicalSpelling, ListsOf DEF Start, Goto, policyVars
<1>2. ASSUME NEW k \in Checks, ReadBlacklist(k) PROVE CheckTypeOK'
  BY <1>2, DecisionOf DEF ReadBlacklist, ReadPolicy, Goto, Yield, ghostVars, policyVars,
     Policy!Policies
<1>3. ASSUME NEW k \in Checks, ReadWhitelist(k) PROVE CheckTypeOK'
  BY <1>3, DecisionOf DEF ReadWhitelist, ReadPolicy, Goto, Yield, ghostVars, policyVars,
     Policy!Policies
<1>4. ASSUME NEW k \in Checks, LookUp(k) PROVE CheckTypeOK'
  BY <1>4, CachedResult DEF LookUp, ReadCache, Goto, Yield, ghostVars, policyVars
<1>5. ASSUME NEW k \in Checks, TakeLock(k) PROVE CheckTypeOK'
  BY <1>5 DEF TakeLock, Applied, Goto, Yield, ghostVars, policyVars
<1>6. ASSUME NEW k \in Checks, FindLocked(k) PROVE CheckTypeOK'
  BY <1>6 DEF FindLocked, Goto, Yield, ghostVars, policyVars
<1>7. ASSUME NEW k \in Checks, GiveUp(k) PROVE CheckTypeOK'
  BY <1>7 DEF GiveUp, Goto, Yield, ghostVars, policyVars
<1>8. ASSUME NEW k \in Checks, Recheck(k) PROVE CheckTypeOK'
  BY <1>8, CachedResult DEF Recheck, ReadCache, Goto, Yield, ghostVars, policyVars
<1>9. ASSUME NEW k \in Checks, Store(k) PROVE CheckTypeOK'
  BY <1>9 DEF Store, Applied, Goto, Yield, ghostVars, policyVars
<1>10. ASSUME NEW k \in Checks, Release(k) PROVE CheckTypeOK'
  BY <1>10 DEF Release, Goto, Yield, ghostVars, policyVars
<1>11. ASSUME NEW k \in Checks, Save(k) PROVE CheckTypeOK'
  BY <1>11 DEF Save, Applied, Goto, Yield, ghostVars, policyVars
<1>12. ASSUME NEW k \in Checks, ProviderTimesOut(k) PROVE CheckTypeOK'
  BY <1>12 DEF ProviderTimesOut, Goto, Yield, ghostVars, policyVars
<1>13. ASSUME NEW k \in Checks, NEW risk \in Risks,
            ProviderAnswers(k, risk) PROVE CheckTypeOK'
  BY <1>13, AnswerOf DEF ProviderAnswers, Goto, Yield, ghostVars, policyVars
<1>14. ASSUME NEW k \in Checks, Fails(k) PROVE CheckTypeOK'
  BY <1>14 DEF Fails, Goto, Yield, ghostVars, policyVars
<1>15. ASSUME NEW k \in Checks, Vanish(k) PROVE CheckTypeOK'
  BY <1>15 DEF Vanish, Goto, Yield, policyVars
<1>16. ASSUME NEW e \in Policy!Spellings, LockExpires(e) PROVE CheckTypeOK'
  BY <1>16 DEF LockExpires, Victims, policyVars
<1>17. ASSUME NEW e \in Policy!Spellings, CacheExpires(e) PROVE CheckTypeOK'
  BY <1>17 DEF CacheExpires, ghostVars, policyVars
<1>18. CASE Mutation
  BY <1>18 DEF Mutation
<1>19. CASE UNCHANGED vars
  BY <1>19 DEF vars, checkVars, policyVars, ghostVars
<1> QED
  BY <1>1, <1>2, <1>3, <1>4, <1>5, <1>6, <1>7, <1>8, <1>9, <1>10, <1>11, <1>12, <1>13,
     <1>14, <1>15, <1>16, <1>17, <1>18, <1>19 DEF Next, Advance

\* A check keeps its address; it is overrun only at an address whose lock lapsed.
LEMMA PlaceStep == IInv /\ [Next]_vars => Placed'
<1> SUFFICES ASSUME IInv, [Next]_vars PROVE Placed'
  OBVIOUS
<1> USE DEF IInv, TypeOK, CheckTypeOK, Placed, Locked
<1>1. ASSUME NEW k \in Checks, NEW s \in Queried, Start(k, s) PROVE Placed'
  BY <1>1, CanonicalSpelling DEF Start, Goto, policyVars
<1>2. ASSUME NEW k \in Checks, ReadBlacklist(k) PROVE Placed'
  BY <1>2 DEF ReadBlacklist, ReadPolicy, Goto, Yield, ghostVars, policyVars
<1>3. ASSUME NEW k \in Checks, ReadWhitelist(k) PROVE Placed'
  BY <1>3 DEF ReadWhitelist, ReadPolicy, Goto, Yield, ghostVars, policyVars
<1>4. ASSUME NEW k \in Checks, LookUp(k) PROVE Placed'
  BY <1>4 DEF LookUp, ReadCache, Goto, Yield, ghostVars, policyVars
<1>5. ASSUME NEW k \in Checks, TakeLock(k) PROVE Placed'
  BY <1>5 DEF TakeLock, Applied, Goto, Yield, ghostVars, policyVars
<1>6. ASSUME NEW k \in Checks, FindLocked(k) PROVE Placed'
  BY <1>6 DEF FindLocked, Goto, Yield, ghostVars, policyVars
<1>7. ASSUME NEW k \in Checks, GiveUp(k) PROVE Placed'
  BY <1>7 DEF GiveUp, Goto, Yield, ghostVars, policyVars
<1>8. ASSUME NEW k \in Checks, Recheck(k) PROVE Placed'
  BY <1>8 DEF Recheck, ReadCache, Goto, Yield, ghostVars, policyVars
<1>9. ASSUME NEW k \in Checks, Store(k) PROVE Placed'
  BY <1>9 DEF Store, Applied, Goto, Yield, ghostVars, policyVars
<1>10. ASSUME NEW k \in Checks, Release(k) PROVE Placed'
  BY <1>10 DEF Release, Goto, Yield, ghostVars, policyVars
<1>11. ASSUME NEW k \in Checks, Save(k) PROVE Placed'
  BY <1>11 DEF Save, Applied, Goto, Yield, ghostVars, policyVars
<1>12. ASSUME NEW k \in Checks, ProviderTimesOut(k) PROVE Placed'
  BY <1>12 DEF ProviderTimesOut, Goto, Yield, ghostVars, policyVars
<1>13. ASSUME NEW k \in Checks, NEW risk \in Risks,
            ProviderAnswers(k, risk) PROVE Placed'
  BY <1>13 DEF ProviderAnswers, Goto, Yield, ghostVars, policyVars
<1>14. ASSUME NEW k \in Checks, Fails(k) PROVE Placed'
  BY <1>14 DEF Fails, Goto, Yield, ghostVars, policyVars
<1>15. ASSUME NEW k \in Checks, Vanish(k) PROVE Placed'
  BY <1>15 DEF Vanish, Goto, Yield, policyVars
<1>16. ASSUME NEW e \in Policy!Spellings, LockExpires(e) PROVE Placed'
  BY <1>16 DEF LockExpires, Victims, policyVars
<1>17. ASSUME NEW e \in Policy!Spellings, CacheExpires(e) PROVE Placed'
  BY <1>17 DEF CacheExpires, ghostVars, policyVars
<1>18. CASE Mutation
  BY <1>18 DEF Mutation
<1>19. CASE UNCHANGED vars
  BY <1>19 DEF vars, checkVars, policyVars, ghostVars
<1> QED
  BY <1>1, <1>2, <1>3, <1>4, <1>5, <1>6, <1>7, <1>8, <1>9, <1>10, <1>11, <1>12, <1>13,
     <1>14, <1>15, <1>16, <1>17, <1>18, <1>19 DEF Next, Advance

\* The lock of an address has one owner among the checks it has not expired under, so
\* neither the acquisition nor the release by one takes it from another.
LEMMA OwnerStep == IInv /\ [Next]_vars => OwnerKeepsLock'
<1> SUFFICES ASSUME IInv, [Next]_vars PROVE OwnerKeepsLock'
  OBVIOUS
<1> USE DEF IInv, TypeOK, CheckTypeOK, OwnerKeepsLock, Placed, Locked
<1>1. ASSUME NEW k \in Checks, NEW s \in Queried, Start(k, s) PROVE OwnerKeepsLock'
  BY <1>1 DEF Start, Goto, policyVars
<1>2. ASSUME NEW k \in Checks, ReadBlacklist(k) PROVE OwnerKeepsLock'
  BY <1>2 DEF ReadBlacklist, ReadPolicy, Goto, Yield, ghostVars, policyVars
<1>3. ASSUME NEW k \in Checks, ReadWhitelist(k) PROVE OwnerKeepsLock'
  BY <1>3 DEF ReadWhitelist, ReadPolicy, Goto, Yield, ghostVars, policyVars
<1>4. ASSUME NEW k \in Checks, LookUp(k) PROVE OwnerKeepsLock'
  BY <1>4 DEF LookUp, ReadCache, Goto, Yield, ghostVars, policyVars
<1>5. ASSUME NEW k \in Checks, TakeLock(k) PROVE OwnerKeepsLock'
  BY <1>5, Nulls DEF TakeLock, Applied, Goto, Yield, ghostVars, policyVars
<1>6. ASSUME NEW k \in Checks, FindLocked(k) PROVE OwnerKeepsLock'
  BY <1>6 DEF FindLocked, Goto, Yield, ghostVars, policyVars
<1>7. ASSUME NEW k \in Checks, GiveUp(k) PROVE OwnerKeepsLock'
  BY <1>7 DEF GiveUp, Goto, Yield, ghostVars, policyVars
<1>8. ASSUME NEW k \in Checks, Recheck(k) PROVE OwnerKeepsLock'
  BY <1>8 DEF Recheck, ReadCache, Goto, Yield, ghostVars, policyVars
<1>9. ASSUME NEW k \in Checks, Store(k) PROVE OwnerKeepsLock'
  BY <1>9 DEF Store, Applied, Goto, Yield, ghostVars, policyVars
<1>10. ASSUME NEW k \in Checks, Release(k) PROVE OwnerKeepsLock'
  BY <1>10, Nulls DEF Release, Goto, Yield, ghostVars, policyVars
<1>11. ASSUME NEW k \in Checks, Save(k) PROVE OwnerKeepsLock'
  BY <1>11 DEF Save, Applied, Goto, Yield, ghostVars, policyVars
<1>12. ASSUME NEW k \in Checks, ProviderTimesOut(k) PROVE OwnerKeepsLock'
  BY <1>12 DEF ProviderTimesOut, Goto, Yield, ghostVars, policyVars
<1>13. ASSUME NEW k \in Checks, NEW risk \in Risks,
            ProviderAnswers(k, risk) PROVE OwnerKeepsLock'
  BY <1>13 DEF ProviderAnswers, Goto, Yield, ghostVars, policyVars
<1>14. ASSUME NEW k \in Checks, Fails(k) PROVE OwnerKeepsLock'
  BY <1>14 DEF Fails, Goto, Yield, ghostVars, policyVars
<1>15. ASSUME NEW k \in Checks, Vanish(k) PROVE OwnerKeepsLock'
  BY <1>15 DEF Vanish, Goto, Yield, policyVars
<1>16. ASSUME NEW e \in Policy!Spellings, LockExpires(e) PROVE OwnerKeepsLock'
  BY <1>16 DEF LockExpires, Victims, policyVars
<1>17. ASSUME NEW e \in Policy!Spellings, CacheExpires(e) PROVE OwnerKeepsLock'
  BY <1>17 DEF CacheExpires, ghostVars, policyVars
<1>18. CASE Mutation
  BY <1>18 DEF Mutation
<1>19. CASE UNCHANGED vars
  BY <1>19 DEF vars, checkVars, policyVars, ghostVars
<1> QED
  BY <1>1, <1>2, <1>3, <1>4, <1>5, <1>6, <1>7, <1>8, <1>9, <1>10, <1>11, <1>12, <1>13,
     <1>14, <1>15, <1>16, <1>17, <1>18, <1>19 DEF Next, Advance

\* The one owner of the lock is the only check that asks, and so the only one that stores.
LEMMA MissStep == IInv /\ [Next]_vars => AskedOnlyOnMiss'
<1> SUFFICES ASSUME IInv, [Next]_vars PROVE AskedOnlyOnMiss'
  OBVIOUS
<1> USE DEF IInv, TypeOK, CheckTypeOK, AskedOnlyOnMiss, OwnerKeepsLock, Placed, Locked
<1>1. ASSUME NEW k \in Checks, NEW s \in Queried, Start(k, s) PROVE AskedOnlyOnMiss'
  BY <1>1 DEF Start, Goto, policyVars
<1>2. ASSUME NEW k \in Checks, ReadBlacklist(k) PROVE AskedOnlyOnMiss'
  BY <1>2 DEF ReadBlacklist, ReadPolicy, Goto, Yield, ghostVars, policyVars
<1>3. ASSUME NEW k \in Checks, ReadWhitelist(k) PROVE AskedOnlyOnMiss'
  BY <1>3 DEF ReadWhitelist, ReadPolicy, Goto, Yield, ghostVars, policyVars
<1>4. ASSUME NEW k \in Checks, LookUp(k) PROVE AskedOnlyOnMiss'
  BY <1>4 DEF LookUp, ReadCache, Goto, Yield, ghostVars, policyVars
<1>5. ASSUME NEW k \in Checks, TakeLock(k) PROVE AskedOnlyOnMiss'
  BY <1>5 DEF TakeLock, Applied, Goto, Yield, ghostVars, policyVars
<1>6. ASSUME NEW k \in Checks, FindLocked(k) PROVE AskedOnlyOnMiss'
  BY <1>6 DEF FindLocked, Goto, Yield, ghostVars, policyVars
<1>7. ASSUME NEW k \in Checks, GiveUp(k) PROVE AskedOnlyOnMiss'
  BY <1>7 DEF GiveUp, Goto, Yield, ghostVars, policyVars
<1>8. ASSUME NEW k \in Checks, Recheck(k) PROVE AskedOnlyOnMiss'
  BY <1>8 DEF Recheck, ReadCache, Goto, Yield, ghostVars, policyVars
<1>9. ASSUME NEW k \in Checks, Store(k) PROVE AskedOnlyOnMiss'
  BY <1>9 DEF Store, Applied, Goto, Yield, ghostVars, policyVars
<1>10. ASSUME NEW k \in Checks, Release(k) PROVE AskedOnlyOnMiss'
  BY <1>10 DEF Release, Goto, Yield, ghostVars, policyVars
<1>11. ASSUME NEW k \in Checks, Save(k) PROVE AskedOnlyOnMiss'
  BY <1>11 DEF Save, Applied, Goto, Yield, ghostVars, policyVars
<1>12. ASSUME NEW k \in Checks, ProviderTimesOut(k) PROVE AskedOnlyOnMiss'
  BY <1>12 DEF ProviderTimesOut, Goto, Yield, ghostVars, policyVars
<1>13. ASSUME NEW k \in Checks, NEW risk \in Risks,
            ProviderAnswers(k, risk) PROVE AskedOnlyOnMiss'
  BY <1>13 DEF ProviderAnswers, Goto, Yield, ghostVars, policyVars
<1>14. ASSUME NEW k \in Checks, Fails(k) PROVE AskedOnlyOnMiss'
  BY <1>14 DEF Fails, Goto, Yield, ghostVars, policyVars
<1>15. ASSUME NEW k \in Checks, Vanish(k) PROVE AskedOnlyOnMiss'
  BY <1>15 DEF Vanish, Goto, Yield, policyVars
<1>16. ASSUME NEW e \in Policy!Spellings, LockExpires(e) PROVE AskedOnlyOnMiss'
  BY <1>16 DEF LockExpires, Victims, policyVars
<1>17. ASSUME NEW e \in Policy!Spellings, CacheExpires(e) PROVE AskedOnlyOnMiss'
  BY <1>17 DEF CacheExpires, ghostVars, policyVars
<1>18. CASE Mutation
  BY <1>18 DEF Mutation
<1>19. CASE UNCHANGED vars
  BY <1>19 DEF vars, checkVars, policyVars, ghostVars
<1> QED
  BY <1>1, <1>2, <1>3, <1>4, <1>5, <1>6, <1>7, <1>8, <1>9, <1>10, <1>11, <1>12, <1>13,
     <1>14, <1>15, <1>16, <1>17, <1>18, <1>19 DEF Next, Advance

\* Only Save ends a check with a result.
LEMMA AuditStep == IInv /\ [Next]_vars => EveryReplyAudited'
<1> SUFFICES ASSUME IInv, [Next]_vars PROVE EveryReplyAudited'
  OBVIOUS
<1> USE DEF IInv, TypeOK, CheckTypeOK, EveryReplyAudited, Locked
<1>1. ASSUME NEW k \in Checks, NEW s \in Queried, Start(k, s) PROVE EveryReplyAudited'
  BY <1>1 DEF Start, Goto, policyVars
<1>2. ASSUME NEW k \in Checks, ReadBlacklist(k) PROVE EveryReplyAudited'
  BY <1>2 DEF ReadBlacklist, ReadPolicy, Goto, Yield, ghostVars, policyVars
<1>3. ASSUME NEW k \in Checks, ReadWhitelist(k) PROVE EveryReplyAudited'
  BY <1>3 DEF ReadWhitelist, ReadPolicy, Goto, Yield, ghostVars, policyVars
<1>4. ASSUME NEW k \in Checks, LookUp(k) PROVE EveryReplyAudited'
  BY <1>4 DEF LookUp, ReadCache, Goto, Yield, ghostVars, policyVars
<1>5. ASSUME NEW k \in Checks, TakeLock(k) PROVE EveryReplyAudited'
  BY <1>5 DEF TakeLock, Applied, Goto, Yield, ghostVars, policyVars
<1>6. ASSUME NEW k \in Checks, FindLocked(k) PROVE EveryReplyAudited'
  BY <1>6 DEF FindLocked, Goto, Yield, ghostVars, policyVars
<1>7. ASSUME NEW k \in Checks, GiveUp(k) PROVE EveryReplyAudited'
  BY <1>7 DEF GiveUp, Goto, Yield, ghostVars, policyVars
<1>8. ASSUME NEW k \in Checks, Recheck(k) PROVE EveryReplyAudited'
  BY <1>8 DEF Recheck, ReadCache, Goto, Yield, ghostVars, policyVars
<1>9. ASSUME NEW k \in Checks, Store(k) PROVE EveryReplyAudited'
  BY <1>9 DEF Store, Applied, Goto, Yield, ghostVars, policyVars
<1>10. ASSUME NEW k \in Checks, Release(k) PROVE EveryReplyAudited'
  BY <1>10 DEF Release, Goto, Yield, ghostVars, policyVars
<1>11. ASSUME NEW k \in Checks, Save(k) PROVE EveryReplyAudited'
  BY <1>11 DEF Save, Applied, Goto, Yield, ghostVars, policyVars
<1>12. ASSUME NEW k \in Checks, ProviderTimesOut(k) PROVE EveryReplyAudited'
  BY <1>12 DEF ProviderTimesOut, Goto, Yield, ghostVars, policyVars
<1>13. ASSUME NEW k \in Checks, NEW risk \in Risks,
            ProviderAnswers(k, risk) PROVE EveryReplyAudited'
  BY <1>13 DEF ProviderAnswers, Goto, Yield, ghostVars, policyVars
<1>14. ASSUME NEW k \in Checks, Fails(k) PROVE EveryReplyAudited'
  BY <1>14 DEF Fails, Goto, Yield, ghostVars, policyVars
<1>15. ASSUME NEW k \in Checks, Vanish(k) PROVE EveryReplyAudited'
  BY <1>15 DEF Vanish, Goto, Yield, policyVars
<1>16. ASSUME NEW e \in Policy!Spellings, LockExpires(e) PROVE EveryReplyAudited'
  BY <1>16 DEF LockExpires, Victims, policyVars
<1>17. ASSUME NEW e \in Policy!Spellings, CacheExpires(e) PROVE EveryReplyAudited'
  BY <1>17 DEF CacheExpires, ghostVars, policyVars
<1>18. CASE Mutation
  BY <1>18 DEF Mutation
<1>19. CASE UNCHANGED vars
  BY <1>19 DEF vars, checkVars, policyVars, ghostVars
<1> QED
  BY <1>1, <1>2, <1>3, <1>4, <1>5, <1>6, <1>7, <1>8, <1>9, <1>10, <1>11, <1>12, <1>13,
     <1>14, <1>15, <1>16, <1>17, <1>18, <1>19 DEF Next, Advance

\* A result under way fits its place.
LEMMA ResultStep == IInv /\ [Next]_vars => ResultsFit'
<1> SUFFICES ASSUME IInv, [Next]_vars PROVE ResultsFit'
  OBVIOUS
<1> USE DEF IInv, TypeOK, CheckTypeOK, ResultsFit, CacheIsProviders, Placed, Locked
<1>1. ASSUME NEW k \in Checks, NEW s \in Queried, Start(k, s) PROVE ResultsFit'
  BY <1>1 DEF Start, Goto, policyVars
<1>2. ASSUME NEW k \in Checks, ReadBlacklist(k) PROVE ResultsFit'
  BY <1>2, DecisionOf DEF ReadBlacklist, ReadPolicy, Goto, Yield, ghostVars, policyVars,
     Policy!Policies
<1>3. ASSUME NEW k \in Checks, ReadWhitelist(k) PROVE ResultsFit'
  BY <1>3, DecisionOf DEF ReadWhitelist, ReadPolicy, Goto, Yield, ghostVars, policyVars,
     Policy!Policies
<1>4. ASSUME NEW k \in Checks, LookUp(k) PROVE ResultsFit'
  BY <1>4, CachedResult DEF LookUp, ReadCache, Goto, Yield, ghostVars, policyVars
<1>5. ASSUME NEW k \in Checks, TakeLock(k) PROVE ResultsFit'
  BY <1>5 DEF TakeLock, Applied, Goto, Yield, ghostVars, policyVars
<1>6. ASSUME NEW k \in Checks, FindLocked(k) PROVE ResultsFit'
  BY <1>6 DEF FindLocked, Goto, Yield, ghostVars, policyVars
<1>7. ASSUME NEW k \in Checks, GiveUp(k) PROVE ResultsFit'
  BY <1>7 DEF GiveUp, Goto, Yield, ghostVars, policyVars
<1>8. ASSUME NEW k \in Checks, Recheck(k) PROVE ResultsFit'
  BY <1>8, CachedResult, Nulls DEF Recheck, ReadCache, Goto, Yield, ghostVars, policyVars
<1>9. ASSUME NEW k \in Checks, Store(k) PROVE ResultsFit'
  BY <1>9 DEF Store, Applied, Goto, Yield, ghostVars, policyVars
<1>10. ASSUME NEW k \in Checks, Release(k) PROVE ResultsFit'
  BY <1>10 DEF Release, Goto, Yield, ghostVars, policyVars
<1>11. ASSUME NEW k \in Checks, Save(k) PROVE ResultsFit'
  BY <1>11 DEF Save, Applied, Goto, Yield, ghostVars, policyVars
<1>12. ASSUME NEW k \in Checks, ProviderTimesOut(k) PROVE ResultsFit'
  BY <1>12 DEF ProviderTimesOut, Goto, Yield, ghostVars, policyVars
<1>13. ASSUME NEW k \in Checks, NEW risk \in Risks,
            ProviderAnswers(k, risk) PROVE ResultsFit'
  BY <1>13, AnswerOf DEF ProviderAnswers, Goto, Yield, ghostVars, policyVars
<1>14. ASSUME NEW k \in Checks, Fails(k) PROVE ResultsFit'
  BY <1>14, Nulls DEF Fails, Goto, Yield, ghostVars, policyVars
<1>15. ASSUME NEW k \in Checks, Vanish(k) PROVE ResultsFit'
  BY <1>15 DEF Vanish, Goto, Yield, policyVars
<1>16. ASSUME NEW e \in Policy!Spellings, LockExpires(e) PROVE ResultsFit'
  BY <1>16 DEF LockExpires, Victims, policyVars
<1>17. ASSUME NEW e \in Policy!Spellings, CacheExpires(e) PROVE ResultsFit'
  BY <1>17 DEF CacheExpires, ghostVars, policyVars
<1>18. CASE Mutation
  BY <1>18 DEF Mutation
<1>19. CASE UNCHANGED vars
  BY <1>19 DEF vars, checkVars, policyVars, ghostVars
<1> QED
  BY <1>1, <1>2, <1>3, <1>4, <1>5, <1>6, <1>7, <1>8, <1>9, <1>10, <1>11, <1>12, <1>13,
     <1>14, <1>15, <1>16, <1>17, <1>18, <1>19 DEF Next, Advance

\* The cache holds results of the provider, never a policy decision.
LEMMA CacheStep == IInv /\ [Next]_vars => CacheIsProviders'
<1> SUFFICES ASSUME IInv, [Next]_vars PROVE CacheIsProviders'
  OBVIOUS
<1> USE DEF IInv, TypeOK, CheckTypeOK, ResultsFit, CacheIsProviders
<1>1. ASSUME NEW k \in Checks, NEW s \in Queried, Start(k, s) PROVE CacheIsProviders'
  BY <1>1 DEF Start, Goto, policyVars
<1>2. ASSUME NEW k \in Checks, ReadBlacklist(k) PROVE CacheIsProviders'
  BY <1>2 DEF ReadBlacklist, ReadPolicy, Goto, Yield, ghostVars, policyVars
<1>3. ASSUME NEW k \in Checks, ReadWhitelist(k) PROVE CacheIsProviders'
  BY <1>3 DEF ReadWhitelist, ReadPolicy, Goto, Yield, ghostVars, policyVars
<1>4. ASSUME NEW k \in Checks, LookUp(k) PROVE CacheIsProviders'
  BY <1>4 DEF LookUp, ReadCache, Goto, Yield, ghostVars, policyVars
<1>5. ASSUME NEW k \in Checks, TakeLock(k) PROVE CacheIsProviders'
  BY <1>5 DEF TakeLock, Applied, Goto, Yield, ghostVars, policyVars
<1>6. ASSUME NEW k \in Checks, FindLocked(k) PROVE CacheIsProviders'
  BY <1>6 DEF FindLocked, Goto, Yield, ghostVars, policyVars
<1>7. ASSUME NEW k \in Checks, GiveUp(k) PROVE CacheIsProviders'
  BY <1>7 DEF GiveUp, Goto, Yield, ghostVars, policyVars
<1>8. ASSUME NEW k \in Checks, Recheck(k) PROVE CacheIsProviders'
  BY <1>8 DEF Recheck, ReadCache, Goto, Yield, ghostVars, policyVars
<1>9. ASSUME NEW k \in Checks, Store(k) PROVE CacheIsProviders'
  BY <1>9, Nulls DEF Store, Applied, Goto, Yield, ghostVars, policyVars
<1>10. ASSUME NEW k \in Checks, Release(k) PROVE CacheIsProviders'
  BY <1>10 DEF Release, Goto, Yield, ghostVars, policyVars
<1>11. ASSUME NEW k \in Checks, Save(k) PROVE CacheIsProviders'
  BY <1>11 DEF Save, Applied, Goto, Yield, ghostVars, policyVars
<1>12. ASSUME NEW k \in Checks, ProviderTimesOut(k) PROVE CacheIsProviders'
  BY <1>12 DEF ProviderTimesOut, Goto, Yield, ghostVars, policyVars
<1>13. ASSUME NEW k \in Checks, NEW risk \in Risks,
            ProviderAnswers(k, risk) PROVE CacheIsProviders'
  BY <1>13 DEF ProviderAnswers, Goto, Yield, ghostVars, policyVars
<1>14. ASSUME NEW k \in Checks, Fails(k) PROVE CacheIsProviders'
  BY <1>14 DEF Fails, Goto, Yield, ghostVars, policyVars
<1>15. ASSUME NEW k \in Checks, Vanish(k) PROVE CacheIsProviders'
  BY <1>15 DEF Vanish, Goto, Yield, policyVars
<1>16. ASSUME NEW e \in Policy!Spellings, LockExpires(e) PROVE CacheIsProviders'
  BY <1>16 DEF LockExpires, Victims, policyVars
<1>17. ASSUME NEW e \in Policy!Spellings, CacheExpires(e) PROVE CacheIsProviders'
  BY <1>17 DEF CacheExpires, ghostVars, policyVars
<1>18. CASE Mutation
  BY <1>18 DEF Mutation
<1>19. CASE UNCHANGED vars
  BY <1>19 DEF vars, checkVars, policyVars, ghostVars
<1> QED
  BY <1>1, <1>2, <1>3, <1>4, <1>5, <1>6, <1>7, <1>8, <1>9, <1>10, <1>11, <1>12, <1>13,
     <1>14, <1>15, <1>16, <1>17, <1>18, <1>19 DEF Next, Advance

\* A step of check k that leaves the lists alone keeps ListsKnown if it does so at k.
LEMMA OwnLists ==
  ASSUME IInv, NEW k \in Checks, UNCHANGED <<table, about, found, disturbed>>,
         \A j \in Checks \ {k} : stage'[j] = stage[j] /\ result'[j] = result[j],
         stage[k] # "idle",
         KnowsItsLists(k) =>
           /\ stage'[k] = "whitelist" => "blacklist" \notin found[k]
           /\ stage'[k] \in {"lookup", "locking", "blocked"} \cup Locked => found[k] = {}
           /\ Concluded(k)' => Agrees(result'[k], found[k])
  PROVE  ListsKnown'
<1> SUFFICES ASSUME NEW j \in Checks, j \notin disturbed, stage'[j] # "idle"
             PROVE  KnowsItsLists(j)'
  BY DEF ListsKnown
<1>1. Policy!Lists(about[j])' = Policy!Lists(about[j])
  BY DEF Policy!Lists, Policy!Row
<1>2. CASE j = k
  BY <1>1, <1>2 DEF IInv, ListsKnown, KnowsItsLists, Agrees
<1>3. CASE j # k
  BY <1>1, <1>3 DEF IInv, ListsKnown, KnowsItsLists, Concluded, Agrees
<1> QED
  BY <1>2, <1>3

\* What an undisturbed check has read of its lists stays true.
LEMMA ListsStep == IInv /\ [Next]_vars => ListsKnown'
<1> SUFFICES ASSUME IInv, [Next]_vars PROVE ListsKnown'
  OBVIOUS
<1> USE DEF IInv, TypeOK, CheckTypeOK, ListsKnown, KnowsItsLists, Concluded, Agrees,
   ResultsFit, Placed, CacheIsProviders, Locked
<1>1. ASSUME NEW k \in Checks, NEW s \in Queried, Start(k, s) PROVE ListsKnown'
  BY <1>1 DEF Start, Goto, policyVars, Policy!Lists, Policy!Row
<1>2. ASSUME NEW k \in Checks, ReadBlacklist(k) PROVE ListsKnown'
  BY <1>2, OwnLists, DecisionOf, ListsOf DEF ReadBlacklist, ReadPolicy, Goto, Yield,
     ghostVars, policyVars, Policy!Policies
<1>3. ASSUME NEW k \in Checks, ReadWhitelist(k) PROVE ListsKnown'
  BY <1>3, OwnLists, DecisionOf, ListsOf DEF ReadWhitelist, ReadPolicy, Goto, Yield,
     ghostVars, policyVars, Policy!Policies
<1>4. ASSUME NEW k \in Checks, LookUp(k) PROVE ListsKnown'
  BY <1>4, OwnLists, CachedResult DEF LookUp, ReadCache, Goto, Yield, ghostVars, policyVars
<1>5. ASSUME NEW k \in Checks, TakeLock(k) PROVE ListsKnown'
  BY <1>5, OwnLists, Nulls DEF TakeLock, Applied, Goto, Yield, ghostVars, policyVars
<1>6. ASSUME NEW k \in Checks, FindLocked(k) PROVE ListsKnown'
  BY <1>6, OwnLists DEF FindLocked, Goto, Yield, ghostVars, policyVars
<1>7. ASSUME NEW k \in Checks, GiveUp(k) PROVE ListsKnown'
  BY <1>7, OwnLists, Nulls DEF GiveUp, Goto, Yield, ghostVars, policyVars
<1>8. ASSUME NEW k \in Checks, Recheck(k) PROVE ListsKnown'
  BY <1>8, OwnLists, CachedResult DEF Recheck, ReadCache, Goto, Yield, ghostVars, policyVars
<1>9. ASSUME NEW k \in Checks, Store(k) PROVE ListsKnown'
  BY <1>9, OwnLists, Nulls DEF Store, Applied, Goto, Yield, ghostVars, policyVars
<1>10. ASSUME NEW k \in Checks, Release(k) PROVE ListsKnown'
  BY <1>10, OwnLists, Nulls DEF Release, Goto, Yield, ghostVars, policyVars
<1>11. ASSUME NEW k \in Checks, Save(k) PROVE ListsKnown'
  BY <1>11, OwnLists, Nulls DEF Save, Applied, Goto, Yield, ghostVars, policyVars
<1>12. ASSUME NEW k \in Checks, ProviderTimesOut(k) PROVE ListsKnown'
  BY <1>12, OwnLists, Nulls DEF ProviderTimesOut, Goto, Yield, ghostVars, policyVars
<1>13. ASSUME NEW k \in Checks, NEW risk \in Risks,
            ProviderAnswers(k, risk) PROVE ListsKnown'
  BY <1>13, OwnLists DEF ProviderAnswers, Goto, Yield, ghostVars, policyVars
<1>14. ASSUME NEW k \in Checks, Fails(k) PROVE ListsKnown'
  BY <1>14, OwnLists, Nulls DEF Fails, Goto, Yield, ghostVars, policyVars
<1>15. ASSUME NEW k \in Checks, Vanish(k) PROVE ListsKnown'
  BY <1>15 DEF Vanish, Goto, Yield, policyVars, Policy!Lists, Policy!Row
<1>16. ASSUME NEW e \in Policy!Spellings, LockExpires(e) PROVE ListsKnown'
  BY <1>16 DEF LockExpires, Victims, policyVars, Policy!Lists, Policy!Row
<1>17. ASSUME NEW e \in Policy!Spellings, CacheExpires(e) PROVE ListsKnown'
  BY <1>17 DEF CacheExpires, ghostVars, policyVars, Policy!Lists, Policy!Row
<1>18. CASE Mutation
  BY <1>18 DEF Mutation, Policy!Lists, Policy!Row
<1>19. CASE UNCHANGED vars
  BY <1>19 DEF vars, checkVars, policyVars, ghostVars, Policy!Lists, Policy!Row
<1> QED
  BY <1>1, <1>2, <1>3, <1>4, <1>5, <1>6, <1>7, <1>8, <1>9, <1>10, <1>11, <1>12, <1>13,
     <1>14, <1>15, <1>16, <1>17, <1>18, <1>19 DEF Next, Advance

-----------------------------------------------------------------------------
(* The theorems.                                                           *)

\* The same specification of the mutations, with its lemmas.
MutationProofs == INSTANCE PolicyMutationProofs

\* The variables of the mutations keep their types.
LEMMA PolicyTypeStep == Policy!TypeOK /\ [Next]_vars => Policy!TypeOK'
<1> SUFFICES ASSUME Policy!TypeOK, [Next]_vars PROVE Policy!TypeOK'
  OBVIOUS
<1>1. CASE Policy!Next
  <2>1. /\ EvmNetworks \subseteq Networks
        /\ Offered \subseteq MutationProofs!Requests
        /\ NoRequest \notin MutationProofs!Requests
    BY PolicyAssumption DEF Policy!Requests, MutationProofs!Requests, Policy!Spellings,
       MutationProofs!Spellings, Policy!Policies, MutationProofs!Policies
  <2>2. MutationProofs!TypeOK /\ [MutationProofs!Next]_MutationProofs!vars => MutationProofs!TypeOK'
    BY <2>1, MutationProofs!TypeStep
  <2>3. (Policy!TypeOK <=> MutationProofs!TypeOK) /\ (Policy!TypeOK' <=> MutationProofs!TypeOK')
    BY DEF Policy!TypeOK, MutationProofs!TypeOK, Policy!Policies, MutationProofs!Policies,
       Policy!Answers, MutationProofs!Answers, Policy!Running, MutationProofs!Running,
       Policy!Ended, MutationProofs!Ended, Policy!Requests, MutationProofs!Requests,
       Policy!Spellings, MutationProofs!Spellings
  <2>4. Policy!Next => MutationProofs!Next
    BY DEF Policy!Next, MutationProofs!Next, Policy!Begin, MutationProofs!Begin,
       Policy!Canonical, MutationProofs!Canonical, Policy!Normalized,
       MutationProofs!Normalized, Policy!Lists, MutationProofs!Lists, Policy!Row,
       MutationProofs!Row, Policy!Rivals, MutationProofs!Rivals, Policy!Active,
       MutationProofs!Active, Policy!Running, MutationProofs!Running, Policy!Advance,
       MutationProofs!Advance, Policy!Ended, MutationProofs!Ended, Policy!ReadTarget,
       MutationProofs!ReadTarget, Policy!ReadOpposite, MutationProofs!ReadOpposite,
       Policy!RejectUnconfirmed, MutationProofs!RejectUnconfirmed, Policy!RemoveOpposite,
       MutationProofs!RemoveOpposite, Policy!AddTarget, MutationProofs!AddTarget,
       Policy!KeepTarget, MutationProofs!KeepTarget, Policy!Delete, MutationProofs!Delete,
       Policy!QueryFails, MutationProofs!QueryFails, Policy!Return, MutationProofs!Return,
       Policy!Forget, MutationProofs!Forget, Policy!Presence, MutationProofs!Presence,
       Policy!Target, MutationProofs!Target, Policy!OppositeRow,
       MutationProofs!OppositeRow, Policy!Opposite, MutationProofs!Opposite,
       Policy!Decided, MutationProofs!Decided, Policy!Unconfirmed,
       MutationProofs!Unconfirmed, Policy!MustRemoveOpposite,
       MutationProofs!MustRemoveOpposite, Policy!ReadyToAdd, MutationProofs!ReadyToAdd,
       Policy!AwaitsQuery, MutationProofs!AwaitsQuery, Policy!Policies,
       MutationProofs!Policies
  <2> QED
    BY <1>1, <2>2, <2>3, <2>4
<1>2. CASE UNCHANGED policyVars
  BY <1>2 DEF policyVars, Policy!TypeOK
<1>3. Policy!Next \/ UNCHANGED policyVars
  <2>1. CASE UNCHANGED vars
    BY <2>1 DEF vars
  <2>2. CASE Mutation
    BY <2>2 DEF Mutation
  <2>3. CASE \E e \in Policy!Spellings : LockExpires(e) \/ CacheExpires(e)
    BY <2>3 DEF LockExpires, CacheExpires
  <2>4. ASSUME NEW k \in Checks,
               (\E s \in Queried : Start(k, s)) \/ Advance(k) \/ Fails(k) \/ Vanish(k)
        PROVE  UNCHANGED policyVars
    BY <2>4 DEF Start, Advance, Fails, Vanish, ReadBlacklist, ReadWhitelist, ReadPolicy,
       LookUp, Recheck, ReadCache, TakeLock, FindLocked, GiveUp, ProviderAnswers, Store,
       Release, Save, ProviderTimesOut
  <2> QED
    BY <2>1, <2>2, <2>3, <2>4 DEF Next
<1> QED
  BY <1>1, <1>2, <1>3

\* The strengthened invariant holds in every state.
THEOREM Inductive == Spec => []IInv
<1>1. Init => IInv
  <2> SUFFICES ASSUME Init PROVE IInv
    OBVIOUS
  <2>1. Policy!TypeOK
    BY DEF Init, Policy!Init, Policy!TypeOK, Policy!Running, Policy!Ended, Policy!Answers
  <2>2. 0 \in 0..MaxAsks
    BY MaxAsksAssumption
  <2> QED
    BY <2>1, <2>2 DEF Init, IInv, TypeOK, CheckTypeOK, Placed, OwnerKeepsLock,
       AskedOnlyOnMiss, EveryReplyAudited, ResultsFit, CacheIsProviders, ListsKnown,
       Locked
<1>2. IInv /\ [Next]_vars => IInv'
  BY CheckTypeStep, PolicyTypeStep, PlaceStep, OwnerStep, MissStep, AuditStep, ResultStep,
     CacheStep, ListsStep DEF IInv, TypeOK
<1> QED
  BY <1>1, <1>2, PTL DEF Spec

\* Every variable keeps its type.
THEOREM TypeCorrect == Spec => []TypeOK
<1>1. IInv => TypeOK
  BY DEF IInv
<1> QED
  BY <1>1, Inductive, PTL

\* A check that no change of its lists disturbs reports them, the blacklist first, also
\* when an earlier race has left its address on both.
THEOREM UndisturbedVerdictHolds == Spec => []UndisturbedVerdict
<1>1. IInv => UndisturbedVerdict
  BY DEF IInv, ListsKnown, KnowsItsLists, UndisturbedVerdict, Concluded
<1> QED
  BY <1>1, Inductive, PTL

\* Until it expires, the lock of an address is taken away by nobody but its owner.
THEOREM OwnerKeepsLockHolds == Spec => []OwnerKeepsLock
<1>1. IInv => OwnerKeepsLock
  BY DEF IInv
<1> QED
  BY <1>1, Inductive, PTL

\* Where no lock expired under a check, the provider is asked only on a miss.
THEOREM AskedOnlyOnMissHolds == Spec => []AskedOnlyOnMiss
<1>1. IInv => AskedOnlyOnMiss
  BY DEF IInv
<1> QED
  BY <1>1, Inductive, PTL

\* No result is returned without its row in the history.
THEOREM EveryReplyAuditedHolds == Spec => []EveryReplyAudited
<1>1. IInv => EveryReplyAudited
  BY DEF IInv
<1> QED
  BY <1>1, Inductive, PTL

\* Where no lock expired under a check, a cache entry is never replaced at all while it
\* lasts, let alone by an older answer.
THEOREM CacheGoesForwardHolds == Spec => CacheGoesForward
<1> DEFINE Forward ==
      \A e \in Policy!Spellings :
        cache[e] # None /\ cache'[e] # None /\ e \notin lapsed => cache'[e].at >= cache[e].at
<1>1. IInv /\ [Next]_vars => [Forward]_vars
  <2> SUFFICES ASSUME IInv, Next, NEW e \in Policy!Spellings, cache[e] # None,
                      cache'[e] # None, e \notin lapsed
               PROVE  cache'[e].at >= cache[e].at
    BY DEF Forward
  <2>1. cache'[e] = cache[e]
    <3>1. ASSUME NEW k \in Checks, Store(k) PROVE cache'[e] = cache[e]
      BY <3>1 DEF Store, IInv, TypeOK, CheckTypeOK, AskedOnlyOnMiss
    <3>2. ASSUME NEW f \in Policy!Spellings, CacheExpires(f) PROVE cache'[e] = cache[e]
      BY <3>2 DEF CacheExpires, IInv, TypeOK, CheckTypeOK
    <3> QED
      BY <3>1, <3>2 DEF Next, Advance, Start, ReadBlacklist, ReadWhitelist, ReadPolicy,
         LookUp, Recheck, ReadCache, TakeLock, FindLocked, GiveUp, ProviderAnswers,
         ProviderTimesOut, Release, Save, Fails, Vanish, LockExpires, Mutation
  <2>2. cache[e].at \in Nat
    BY MaxAsksAssumption DEF IInv, TypeOK, CheckTypeOK, Results
  <2> QED
    BY <2>1, <2>2
<1> QED
  BY <1>1, Inductive, PTL DEF Spec, CacheGoesForward

=============================================================================
