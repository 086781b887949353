---------------------------- MODULE CheckAddress ----------------------------
(***************************************************************************)
(* A compliance check (CheckAddressComplianceService): the policy lists    *)
(* first, then the Valkey cache, then the provider under a Valkey lock on  *)
(* the address, with the cache read again inside the lock; the result goes *)
(* to the cache and every reply to the history first.                      *)
(*                                                                         *)
(* The lists change under the check through the mutations of               *)
(* PolicyMutation.  The lock expires after 250 ms whatever its owner does, *)
(* while the provider may take a minute; the cache entry expires too; each *)
(* command to Postgres, Valkey or the provider may fail; a process may die *)
(* at any point.                                                           *)
(*                                                                         *)
(* `found', `disturbed', `overrun' and `lapsed' are history variables.     *)
(***************************************************************************)
EXTENDS Naturals

CONSTANTS
  Calls, Networks, EvmNetworks, Names, Offered, NoRequest,  \* of PolicyMutation
  Checks,    \* checks that may be in progress at the same time
  Queried,   \* the spellings that clients ask about
  MaxAsks,   \* bound: answers the provider gives in one behaviour
  Risks,     \* what the provider may say of an address, whatever the code makes of it
  None,      \* no cache entry, no lock owner, no result yet
  Failed     \* the result of a check that throws

ASSUME MaxAsksAssumption == MaxAsks \in Nat

ASSUME RisksAssumption == Risks \subseteq {"high", "low", "pending"}

VARIABLES
  table, step, input, sawTarget, sawOpposite, changed, before, raced,
  stage,      \* where each check stands
  about,      \* the canonical address of each check
  result,     \* what each check has found
  cache,      \* the Valkey entry of each address
  lock,       \* the check whose token the lock of each address holds
  saved,      \* the row each check in progress has appended to compliance_history
  asks,       \* how many answers the provider has given
  found,      \* history: the lists that held the address when the check began
  disturbed,  \* history: checks during which the lists of their address changed
  overrun,    \* history: checks that work under a lock that has expired
  lapsed      \* history: addresses whose lock has expired under a check

Policy == INSTANCE PolicyMutation

\* The assumptions of PolicyMutation on its constants.
ASSUME PolicyAssumption ==
  /\ EvmNetworks \subseteq Networks
  /\ Offered \subseteq Policy!Requests
  /\ NoRequest \notin Policy!Requests

ASSUME QueriedAssumption == Queried \subseteq Policy!Spellings

policyVars == <<table, step, input, sawTarget, sawOpposite, changed, before, raced>>
ghostVars == <<found, disturbed, overrun, lapsed>>
checkVars == <<stage, about, result, cache, lock, saved, asks, ghostVars>>
vars == <<policyVars, checkVars>>

Results == [source : Policy!Policies \cup {"provider"}, risk : {"high", "low", "pending"},
            via : {"policy", "cache", "provider"}, at : 0..MaxAsks]

ASSUME NullAssumption ==
  Failed # None /\ None \notin Checks /\ {None, Failed} \cap Results = {}

\* Between the acquisition of the lock and its release.
Locked == {"recheck", "asking", "storing", "releasing"}

CheckTypeOK ==
  /\ stage \in [Checks -> {"idle", "blacklist", "whitelist", "lookup", "locking", "blocked",
                           "saving", "replied"} \cup Locked]
  /\ about \in [Checks -> Policy!Spellings \cup {None}]
  /\ result \in [Checks -> Results \cup {None, Failed}]
  /\ cache \in [Policy!Spellings -> Results \cup {None}]
  /\ lock \in [Policy!Spellings -> Checks \cup {None}]
  /\ saved \in [Checks -> Results \cup {None}]
  /\ asks \in 0..MaxAsks
  /\ found \in [Checks -> SUBSET Policy!Policies]
  /\ disturbed \subseteq Checks
  /\ overrun \subseteq Checks
  /\ lapsed \subseteq Policy!Spellings

TypeOK == Policy!TypeOK /\ CheckTypeOK

-----------------------------------------------------------------------------

Init ==
  /\ Policy!Init
  /\ stage = [k \in Checks |-> "idle"]
  /\ about = [k \in Checks |-> None]
  /\ result = [k \in Checks |-> None]
  /\ cache = [e \in Policy!Spellings |-> None]
  /\ lock = [e \in Policy!Spellings |-> None]
  /\ saved = [k \in Checks |-> None]
  /\ asks = 0
  /\ found = [k \in Checks |-> {}]
  /\ disturbed = {}
  /\ overrun = {}
  /\ lapsed = {}

Goto(k, s) == stage' = [stage EXCEPT ![k] = s]

Yield(k, r) == result' = [result EXCEPT ![k] = r]

\* normalizeInput, and the first read of getPolicy is sent.
Start(k, spelling) ==
  LET e == Policy!Canonical(spelling) IN
  /\ stage[k] = "idle"
  /\ Goto(k, "blacklist")
  /\ about' = [about EXCEPT ![k] = e]
  /\ found' = [found EXCEPT ![k] = Policy!Lists(e)]
  /\ UNCHANGED <<policyVars, result, cache, lock, saved, asks, disturbed, overrun,
                 lapsed>>

\* createPolicyDecisionResult
Decision(p) ==
  [source |-> p, risk |-> IF p = "blacklist" THEN "high" ELSE "low", via |-> "policy",
   at |-> 0]

\* Mutant of ReadPolicy: the row of the other list is looked for.
ReadOpposite(k, p, next) ==
  /\ stage[k] = p
  /\ IF Policy!Row(about[k], Policy!Opposite(p)) \in table
       THEN Yield(k, Decision(p)) /\ Goto(k, "saving")
       ELSE UNCHANGED result /\ Goto(k, next)
  /\ UNCHANGED <<policyVars, about, cache, lock, saved, asks, ghostVars>>

\* getPolicy: two reads, the blacklist first; each sees the table of its moment.
ReadPolicy(k, p, next) ==
  /\ stage[k] = p
  /\ IF Policy!Row(about[k], p) \in table
       THEN Yield(k, Decision(p)) /\ Goto(k, "saving")
       ELSE UNCHANGED result /\ Goto(k, next)
  /\ UNCHANGED <<policyVars, about, cache, lock, saved, asks, ghostVars>>

ReadBlacklist(k) == ReadPolicy(k, "blacklist", "whitelist")

ReadWhitelist(k) == ReadPolicy(k, "whitelist", "lookup")

FromCache(e) == [cache[e] EXCEPT !.via = "cache"]

\* The cache is read before the lock and again under it.
ReadCache(k, at, hit, miss) ==
  /\ stage[k] = at
  /\ IF cache[about[k]] # None
       THEN Yield(k, FromCache(about[k])) /\ Goto(k, hit)
       ELSE UNCHANGED result /\ Goto(k, miss)
  /\ UNCHANGED <<policyVars, about, cache, lock, saved, asks, ghostVars>>

LookUp(k) == ReadCache(k, "lookup", "saving", "locking")

\* Mutant of Recheck: the cache is not read again under the lock.
SkipRecheck(k) ==
  /\ stage[k] = "recheck"
  /\ Goto(k, "asking")
  /\ UNCHANGED <<policyVars, about, result, cache, lock, saved, asks, ghostVars>>

Recheck(k) == ReadCache(k, "recheck", "releasing", "asking")

\* A command is applied, and answered or not: without the answer the await throws.
Applied(k, next, onError) ==
  \/ Goto(k, next) /\ UNCHANGED result
  \/ Goto(k, onError) /\ Yield(k, Failed)

\* Mutant of TakeLock: SET PX without NX.
SeizeLock(k) ==
  /\ stage[k] \in {"locking", "blocked"}
  /\ lock' = [lock EXCEPT ![about[k]] = k]
  /\ Applied(k, "recheck", "replied")
  /\ UNCHANGED <<policyVars, about, cache, saved, asks, ghostVars>>

\* SET NX PX with a fresh token.
TakeLock(k) ==
  /\ stage[k] \in {"locking", "blocked"}
  /\ lock[about[k]] = None
  /\ lock' = [lock EXCEPT ![about[k]] = k]
  /\ Applied(k, "recheck", "replied")
  /\ UNCHANGED <<policyVars, about, cache, saved, asks, ghostVars>>

FindLocked(k) ==
  /\ stage[k] = "locking"
  /\ lock[about[k]] # None
  /\ Goto(k, "blocked")
  /\ UNCHANGED <<policyVars, about, result, cache, lock, saved, asks, ghostVars>>

\* Mutant of GiveUp: the loop has no deadline.
WaitForever(k) == FALSE

\* The lock is still taken when the deadline passes.
GiveUp(k) ==
  /\ stage[k] = "blocked"
  /\ Yield(k, Failed)
  /\ Goto(k, "replied")
  /\ UNCHANGED <<policyVars, about, cache, lock, saved, asks, ghostVars>>

\* The provider answers; `at' numbers its answers in the order it gives them.
ProviderAnswers(k, risk) ==
  /\ stage[k] = "asking"
  /\ asks < MaxAsks
  /\ asks' = asks + 1
  /\ Yield(k, [source |-> "provider", risk |-> risk, via |-> "provider", at |-> asks + 1])
  /\ Goto(k, "storing")
  /\ UNCHANGED <<policyVars, about, cache, lock, saved, ghostVars>>

\* waitUntilFinished gives up on the job.
ProviderTimesOut(k) ==
  /\ stage[k] = "asking"
  /\ Yield(k, Failed)
  /\ Goto(k, "releasing")
  /\ UNCHANGED <<policyVars, about, cache, lock, saved, asks, ghostVars>>

Store(k) ==
  /\ stage[k] = "storing"
  /\ cache' = [cache EXCEPT ![about[k]] = result[k]]
  /\ Applied(k, "releasing", "releasing")
  /\ UNCHANGED <<policyVars, about, lock, saved, asks, ghostVars>>

\* Mutant of Release: DEL without the comparison of the token.
ReleaseAnyToken(k) ==
  /\ stage[k] = "releasing"
  /\ lock' = [lock EXCEPT ![about[k]] = None]
  /\ Goto(k, IF result[k] = Failed THEN "replied" ELSE "saving")
  /\ UNCHANGED <<policyVars, about, result, cache, saved, asks, ghostVars>>

\* Only its own token is deleted; a release that fails is swallowed.
Release(k) ==
  /\ stage[k] = "releasing"
  /\ \/ /\ lock[about[k]] = k
        /\ lock' = [lock EXCEPT ![about[k]] = None]
     \/ UNCHANGED lock
  /\ Goto(k, IF result[k] = Failed THEN "replied" ELSE "saving")
  /\ UNCHANGED <<policyVars, about, result, cache, saved, asks, ghostVars>>

\* saveHistoryAndReturn
Save(k) ==
  /\ stage[k] = "saving"
  /\ saved' = [saved EXCEPT ![k] = result[k]]
  /\ Applied(k, "replied", "replied")
  /\ UNCHANGED <<policyVars, about, cache, lock, asks, ghostVars>>

\* A command fails unapplied: under the lock `finally' releases it first.
Fails(k) ==
  /\ stage[k] \in {"blacklist", "whitelist", "lookup", "locking", "blocked", "recheck",
                   "storing", "saving"}
  /\ Yield(k, Failed)
  /\ Goto(k, IF stage[k] \in Locked THEN "releasing" ELSE "replied")
  /\ UNCHANGED <<policyVars, about, cache, lock, saved, asks, ghostVars>>

\* What a check leaves when its caller has the reply, or its process dies: the lock
\* of a dead process stays until it expires.
Vanish(k) ==
  /\ stage[k] # "idle"
  /\ Goto(k, "idle")
  /\ about' = [about EXCEPT ![k] = None]
  /\ Yield(k, None)
  /\ saved' = [saved EXCEPT ![k] = None]
  /\ found' = [found EXCEPT ![k] = {}]
  /\ disturbed' = disturbed \ {k}
  /\ overrun' = overrun \ {k}
  /\ UNCHANGED <<policyVars, cache, lock, asks, lapsed>>

Victims(e) == {k \in Checks : lock[e] = k /\ about[k] = e /\ stage[k] \in Locked}

LockExpires(e) ==
  /\ lock[e] # None
  /\ lock' = [lock EXCEPT ![e] = None]
  /\ overrun' = overrun \cup Victims(e)
  /\ lapsed' = IF Victims(e) = {} THEN lapsed ELSE lapsed \cup {e}
  /\ UNCHANGED <<policyVars, stage, about, result, cache, saved, asks, found, disturbed>>

CacheExpires(e) ==
  /\ cache[e] # None
  /\ cache' = [cache EXCEPT ![e] = None]
  /\ UNCHANGED <<policyVars, stage, about, result, lock, saved, asks, ghostVars>>

\* A step of the mutations; `disturbed' notes the checks whose lists it changes.
Mutation ==
  /\ Policy!Next
  /\ UNCHANGED <<stage, about, result, cache, lock, saved, asks, found, overrun, lapsed>>
  /\ disturbed' = disturbed \cup
       {k \in Checks : stage[k] # "idle" /\ Policy!Lists(about[k])' # Policy!Lists(about[k])}

Advance(k) ==
  \/ ReadBlacklist(k)
  \/ ReadWhitelist(k)
  \/ LookUp(k)
  \/ TakeLock(k)
  \/ FindLocked(k)
  \/ GiveUp(k)
  \/ Recheck(k)
  \/ \E risk \in Risks : ProviderAnswers(k, risk)
  \/ Store(k)
  \/ Release(k)
  \/ Save(k)
  \/ ProviderTimesOut(k)

Next ==
  \/ \E k \in Checks :
       \/ \E s \in Queried : Start(k, s)
       \/ Advance(k)
       \/ Fails(k)
       \/ Vanish(k)
  \/ \E e \in Policy!Spellings : LockExpires(e) \/ CacheExpires(e)
  \/ Mutation

Spec == Init /\ [][Next]_vars

\* Node runs the steps of a check while its process lives; Valkey and Postgres
\* answer, the provider answers or waitUntilFinished times out, the lock wait ends.
FairSpec == Spec /\ \A k \in Checks : WF_vars(Advance(k))

-----------------------------------------------------------------------------

Concluded(k) == stage[k] \in {"saving", "replied"} /\ result[k] \in Results

\* The verdict on an address that is on lists `on'.
Agrees(r, on) ==
  IF "blacklist" \in on THEN r.source = "blacklist" /\ r.risk = "high"
  ELSE IF "whitelist" \in on THEN r.source = "whitelist" /\ r.risk = "low"
  ELSE r.source = "provider"

\* A check whose address is on the same lists from its start to its conclusion
\* reports them, the blacklist before the whitelist, whatever the cache holds and
\* under whatever spelling the address was listed; an unlisted address is judged
\* by the provider (execute, getPolicy).
UndisturbedVerdict ==
  \A k \in Checks : Concluded(k) /\ k \notin disturbed => Agrees(result[k], found[k])

\* Nobody but its owner takes the lock away, until it expires: neither a check that
\* overran an earlier lock of the address nor one that failed (releaseLock).
OwnerKeepsLock ==
  \A k \in Checks : stage[k] \in Locked /\ k \notin overrun => lock[about[k]] = k

\* Unless the lock of the address expired under a check, the provider is asked only
\* about an address without a cache entry (the second read of the cache).
AskedOnlyOnMiss ==
  \A k \in Checks :
    stage[k] \in {"asking", "storing"} /\ about[k] \notin lapsed => cache[about[k]] = None

\* Unless the lock of the address expired under a check, a cache entry is never
\* replaced by an older answer of the provider.
CacheGoesForward ==
  [][\A e \in Policy!Spellings :
       cache[e] # None /\ cache'[e] # None /\ e \notin lapsed => cache'[e].at >= cache[e].at]_vars

\* A result is returned only after its row is in the history, and it is the row's.
EveryReplyAudited ==
  \A k \in Checks : stage[k] = "replied" /\ result[k] # Failed => saved[k] = result[k]

\* A check that has started is answered, whoever holds the lock and even if its
\* owner died, unless its own process dies.
EveryCheckAnswered ==
  \A k \in Checks : stage[k] = "blacklist" ~> stage[k] \in {"replied", "idle"}

-----------------------------------------------------------------------------
(* What makes the properties inductive. *)

\* A check in progress has an address, and a lock that expired under it has lapsed.
Placed ==
  \A k \in Checks :
    /\ stage[k] # "idle" => about[k] \in Policy!Spellings
    /\ k \in overrun => stage[k] # "idle" /\ about[k] \in lapsed

\* What is about to be stored or saved is a result; what is stored, and what comes
\* out of the lock, is the provider's.
ResultsFit ==
  \A k \in Checks :
    /\ stage[k] \in {"storing", "saving"} => result[k] \in Results
    /\ stage[k] \in {"storing", "releasing"} /\ result[k] # Failed =>
         result[k] \in Results /\ result[k].source = "provider"

CacheIsProviders ==
  \A e \in Policy!Spellings : cache[e] # None => cache[e].source = "provider"

\* While its lists stay the same, a check knows as much of them as it has read.
KnowsItsLists(k) ==
  /\ found[k] = Policy!Lists(about[k])
  /\ stage[k] = "whitelist" => "blacklist" \notin found[k]
  /\ stage[k] \in {"lookup", "locking", "blocked"} \cup Locked => found[k] = {}
  /\ Concluded(k) => Agrees(result[k], found[k])

ListsKnown == \A k \in Checks \ disturbed : stage[k] # "idle" => KnowsItsLists(k)

IInv ==
  /\ TypeOK
  /\ Placed
  /\ OwnerKeepsLock
  /\ AskedOnlyOnMiss
  /\ EveryReplyAudited
  /\ ResultsFit
  /\ CacheIsProviders
  /\ ListsKnown

=============================================================================
