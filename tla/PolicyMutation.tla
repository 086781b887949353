--------------------------- MODULE PolicyMutation ---------------------------
(***************************************************************************)
(* The blacklist and the whitelist, and the use case that changes them     *)
(* (MutateComplianceAddressPolicyService over the Postgres policy table).  *)
(*                                                                         *)
(* The service holds no lock and opens no transaction: one request is a    *)
(* sequence of separate statements (two existence reads in any order, an   *)
(* optional delete of the opposite row, an optional insert), and the       *)
(* requests of several clients and of several replicas interleave between  *)
(* them.  A statement may fail, before or after the database applied it.   *)
(*                                                                         *)
(* `before' and `raced' are history variables: no guard reads them.        *)
(***************************************************************************)

CONSTANTS
  Calls,        \* requests that may be in the use case at the same time
  Networks,     \* CAIP-2 networks
  EvmNetworks,  \* those of namespace eip155, whose addresses ignore case
  Names,        \* addresses, up to the case of their letters
  Offered,      \* the requests clients send
  NoRequest     \* what an idle call works on

ASSUME NetworksAssumption == EvmNetworks \subseteq Networks

Policies == {"blacklist", "whitelist"}

\* Mutant of Opposite: the opposite list is taken to be the blacklist always.
AlwaysBlacklist(p) == "blacklist"

Opposite(p) == IF p = "blacklist" THEN "whitelist" ELSE "blacklist"

\* An address as a client spells it: `mixed' says the spelling has capitals.
Spellings == [network : Networks, name : Names, mixed : BOOLEAN]

\* Mutant of Canonical: an address is stored and looked up as it was typed.
AsTyped(s) == s

Canonical(s) == IF s.network \in EvmNetworks THEN [s EXCEPT !.mixed = FALSE] ELSE s

Requests == [entry : Spellings, action : {"add", "remove"}, policy : Policies,
             confirm : BOOLEAN]

ASSUME OfferedAssumption == Offered \subseteq Requests

ASSUME NoRequestAssumption == NoRequest \notin Requests

Normalized(r) == [r EXCEPT !.entry = Canonical(r.entry)]

Row(e, p) == [entry |-> e, policy |-> p]

VARIABLES
  table,        \* rows of compliance_address_policies
  step,         \* where each call stands
  input,        \* the normalised request of each call
  sawTarget,    \* answer to exists(targetEntry)
  sawOpposite,  \* answer to exists(oppositeEntry)
  changed,      \* the `changed' field of the reply
  before,       \* history: lists that held the entry when the call began
  raced         \* history: calls that overlapped another one on their entry

vars == <<table, step, input, sawTarget, sawOpposite, changed, before, raced>>

Answers == {"unread", "yes", "no"}

Running == {"reading", "writing", "deleting"}

Ended == {"done", "rejected", "failed"}

TypeOK ==
  /\ table \subseteq [entry : Spellings, policy : Policies]
  /\ step \in [Calls -> {"idle"} \cup Running \cup Ended]
  /\ input \in [Calls -> Requests \cup {NoRequest}]
  /\ \A c \in Calls : step[c] # "idle" => input[c] \in Requests
  /\ sawTarget \in [Calls -> Answers]
  /\ sawOpposite \in [Calls -> Answers]
  /\ changed \in [Calls -> BOOLEAN]
  /\ before \in [Calls -> SUBSET Policies]
  /\ raced \subseteq Calls

-----------------------------------------------------------------------------

Lists(e) == {p \in Policies : Row(e, p) \in table}

Target(c) == Row(input[c].entry, input[c].policy)

OppositeRow(c) == Row(input[c].entry, Opposite(input[c].policy))

Presence(row) == IF row \in table THEN "yes" ELSE "no"

Active(c) == step[c] \in Running

\* The calls that run on entry e while c is about to start on it.
Rivals(c, e) == {d \in Calls \ {c} : Active(d) /\ input[d].entry = e}

Init ==
  /\ table = {}
  /\ step = [c \in Calls |-> "idle"]
  /\ input = [c \in Calls |-> NoRequest]
  /\ sawTarget = [c \in Calls |-> "unread"]
  /\ sawOpposite = [c \in Calls |-> "unread"]
  /\ changed = [c \in Calls |-> FALSE]
  /\ before = [c \in Calls |-> {}]
  /\ raced = {}

Begin(c, r) ==
  LET e == Canonical(r.entry) IN
  /\ step[c] = "idle"
  /\ step' = [step EXCEPT ![c] = IF r.action = "add" THEN "reading" ELSE "deleting"]
  /\ input' = [input EXCEPT ![c] = Normalized(r)]
  /\ before' = [before EXCEPT ![c] = Lists(e)]
  /\ raced' = IF Rivals(c, e) = {} THEN raced ELSE raced \cup Rivals(c, e) \cup {c}
  /\ UNCHANGED <<table, sawTarget, sawOpposite, changed>>

\* The two reads of Promise.all are sent together and answered in any order.
ReadTarget(c) ==
  /\ step[c] = "reading"
  /\ sawTarget[c] = "unread"
  /\ sawTarget' = [sawTarget EXCEPT ![c] = Presence(Target(c))]
  /\ UNCHANGED <<table, step, input, sawOpposite, changed, before, raced>>

ReadOpposite(c) ==
  /\ step[c] = "reading"
  /\ sawOpposite[c] = "unread"
  /\ sawOpposite' = [sawOpposite EXCEPT ![c] = Presence(OppositeRow(c))]
  /\ UNCHANGED <<table, step, input, sawTarget, changed, before, raced>>

Decided(c) ==
  /\ step[c] = "reading"
  /\ sawTarget[c] # "unread"
  /\ sawOpposite[c] # "unread"

\* Mutant of Unconfirmed: the confirmation is not asked for.
NeverUnconfirmed(c) == FALSE

\* A whitelisted address goes to the blacklist only when the client confirms.
Unconfirmed(c) ==
  /\ input[c].policy = "blacklist"
  /\ sawOpposite[c] = "yes"
  /\ ~ input[c].confirm

RejectUnconfirmed(c) ==
  /\ Decided(c)
  /\ Unconfirmed(c)
  /\ step' = [step EXCEPT ![c] = "rejected"]
  /\ UNCHANGED <<table, input, sawTarget, sawOpposite, changed, before, raced>>

MustRemoveOpposite(c) ==
  /\ Decided(c)
  /\ sawOpposite[c] = "yes"
  /\ ~ Unconfirmed(c)

\* `acked' is FALSE when the database applied the statement and the answer was
\* lost: the await throws all the same.
RemoveOpposite(c) ==
  /\ MustRemoveOpposite(c)
  /\ table' = table \ {OppositeRow(c)}
  /\ \E acked \in BOOLEAN :
       step' = [step EXCEPT ![c] = IF acked THEN "writing" ELSE "failed"]
  /\ UNCHANGED <<input, sawTarget, sawOpposite, changed, before, raced>>

ReadyToAdd(c) ==
  \/ step[c] = "writing"
  \/ Decided(c) /\ sawOpposite[c] = "no"

\* INSERT ... ON CONFLICT DO NOTHING: identifiers is empty when the row exists.
AddTarget(c) ==
  /\ ReadyToAdd(c)
  /\ sawTarget[c] = "no"
  /\ table' = table \cup {Target(c)}
  /\ \/ /\ step' = [step EXCEPT ![c] = "done"]
        /\ changed' = [changed EXCEPT ![c] =
                         sawOpposite[c] = "yes" \/ Target(c) \notin table]
     \/ /\ step' = [step EXCEPT ![c] = "failed"]
        /\ UNCHANGED changed
  /\ UNCHANGED <<input, sawTarget, sawOpposite, before, raced>>

KeepTarget(c) ==
  /\ ReadyToAdd(c)
  /\ sawTarget[c] = "yes"
  /\ step' = [step EXCEPT ![c] = "done"]
  /\ changed' = [changed EXCEPT ![c] = sawOpposite[c] = "yes"]
  /\ UNCHANGED <<table, input, sawTarget, sawOpposite, before, raced>>

Delete(c) ==
  /\ step[c] = "deleting"
  /\ table' = table \ {Target(c)}
  /\ \/ /\ step' = [step EXCEPT ![c] = "done"]
        /\ changed' = [changed EXCEPT ![c] = Target(c) \in table]
     \/ /\ step' = [step EXCEPT ![c] = "failed"]
        /\ UNCHANGED changed
  /\ UNCHANGED <<input, sawTarget, sawOpposite, before, raced>>

\* The call awaits a statement.
AwaitsQuery(c) ==
  \/ step[c] = "deleting"
  \/ step[c] = "reading" /\ "unread" \in {sawTarget[c], sawOpposite[c]}
  \/ MustRemoveOpposite(c)
  \/ ReadyToAdd(c) /\ sawTarget[c] = "no"

\* A statement that fails without having been applied.
QueryFails(c) ==
  /\ AwaitsQuery(c)
  /\ step' = [step EXCEPT ![c] = "failed"]
  /\ UNCHANGED <<table, input, sawTarget, sawOpposite, changed, before, raced>>

\* What a call leaves when its caller takes the answer, or its process dies.
Forget(c) ==
  /\ step' = [step EXCEPT ![c] = "idle"]
  /\ input' = [input EXCEPT ![c] = NoRequest]
  /\ sawTarget' = [sawTarget EXCEPT ![c] = "unread"]
  /\ sawOpposite' = [sawOpposite EXCEPT ![c] = "unread"]
  /\ changed' = [changed EXCEPT ![c] = FALSE]
  /\ before' = [before EXCEPT ![c] = {}]
  /\ raced' = raced \ {c}

Return(c) ==
  /\ step[c] \in Ended
  /\ Forget(c)
  /\ UNCHANGED table

Advance(c) ==
  \/ ReadTarget(c)
  \/ ReadOpposite(c)
  \/ RejectUnconfirmed(c)
  \/ RemoveOpposite(c)
  \/ AddTarget(c)
  \/ KeepTarget(c)
  \/ Delete(c)
  \/ QueryFails(c)

Next ==
  \E c \in Calls :
    \/ \E r \in Offered : Begin(c, r)
    \/ Advance(c)
    \/ Return(c)

Spec == Init /\ [][Next]_vars

-----------------------------------------------------------------------------
(* What one request means when nothing else runs: the lists that hold the  *)
(* entry afterwards, how the request ends and what it reports.             *)

Outcome(on, r) ==
  IF r.action = "remove" THEN
    [lists |-> on \ {r.policy}, ends |-> "done", changed |-> r.policy \in on]
  ELSE IF r.policy = "blacklist" /\ "whitelist" \in on /\ ~ r.confirm THEN
    [lists |-> on, ends |-> "rejected", changed |-> FALSE]
  ELSE
    [lists |-> {r.policy}, ends |-> "done", changed |-> on # {r.policy}]

\* A request that no other request on the same entry overlapped, and whose
\* statements all succeed, behaves as one atomic step: the lists, the verdict
\* and `changed' are those of Outcome on the lists it found at its start, an
\* entry left on both lists by an earlier race included (addWithInvariant).
UnracedAtomicStep(c) ==
  LET out == Outcome(before[c], input[c]) IN
  Active(c) /\ step'[c] \in {"done", "rejected"} /\ c \notin raced =>
    /\ step'[c] = out.ends
    /\ changed'[c] = out.changed
    /\ Lists(input[c].entry)' = out.lists

UnracedAtomic == [][\A c \in Calls : UnracedAtomicStep(c)]_vars

\* A request that fails half way, unless another one overlapped it, leaves the
\* entry as it was, or without its opposite row, or as the request asked: a
\* failure never adds an entry to a second list (removal before insertion).
UnracedFailureStep(c) ==
  Active(c) /\ step'[c] = "failed" /\ c \notin raced =>
    Lists(input[c].entry)' \in
      {before[c], before[c] \ {Opposite(input[c].policy)},
       Outcome(before[c], input[c]).lists}

UnracedFailure == [][\A c \in Calls : UnracedFailureStep(c)]_vars

OnBothLists(e) == Lists(e) = Policies

\* An entry gets onto both lists only by a request that another request on the
\* same entry overlapped: the check-then-act of addWithInvariant is the only way.
BothListsStep ==
  \A e \in Spellings : ~ OnBothLists(e) /\ OnBothLists(e)' =>
    \E c \in raced : Active(c) /\ input[c].entry = e

BothListsOnlyByRace == [][BothListsStep]_vars

\* Whatever overlaps, a row leaves the whitelist only on an explicit removal or
\* on a blacklist request that carries the confirmation.
DemotionStep ==
  \A e \in Spellings : Row(e, "whitelist") \in table \ table' =>
    \E c \in Calls :
      /\ Active(c)
      /\ input[c].entry = e
      /\ \/ input[c].action = "remove" /\ input[c].policy = "whitelist"
         \/ input[c].policy = "blacklist" /\ input[c].confirm

DemotionNeedsConfirmation == [][DemotionStep]_vars

SameAddress(s, t) ==
  /\ s.network = t.network
  /\ s.name = t.name
  /\ s.network \in EvmNetworks \/ s.mixed = t.mixed

\* Two spellings of one EVM address never have rows of their own: a removal or a
\* check of one spelling sees what was listed under the other.
OneRowPerAddress ==
  \A r, q \in table : SameAddress(r.entry, q.entry) => r.entry = q.entry

-----------------------------------------------------------------------------
(* What makes the properties of unraced calls inductive. *)

\* Two calls that run on one entry are both marked.
OverlapIsMarked ==
  \A c, d \in Calls :
    c # d /\ Active(c) /\ Active(d) /\ input[c].entry = input[d].entry => c \in raced

\* An answer that was read says whether `on' held the policy.
Agrees(answer, p, on) ==
  /\ answer = "yes" => p \in on
  /\ answer = "no" => p \notin on

\* The table still is what the call found at its start, but for its own writes,
\* and what the call has read is still true of its start.
KnowsTheTable(c) ==
  LET p == input[c].policy
      now == Lists(input[c].entry) IN
  /\ before[c] \subseteq Policies
  /\ step[c] \in {"reading", "deleting"} => now = before[c]
  /\ step[c] = "writing" => now = before[c] \ {Opposite(p)}
  /\ Agrees(sawTarget[c], p, before[c])
  /\ Agrees(sawOpposite[c], Opposite(p), before[c])

\* The program point agrees with the request and the answers read so far.
PlaceOK(c) ==
  /\ step[c] = "deleting" <=> input[c].action = "remove"
  /\ step[c] = "writing" =>
       sawTarget[c] # "unread" /\ sawOpposite[c] = "yes" /\ ~ Unconfirmed(c)

IInv ==
  /\ TypeOK
  /\ OverlapIsMarked
  /\ \A c \in Calls : Active(c) => PlaceOK(c)
  /\ \A c \in Calls : step[c] = "idle" =>
       sawTarget[c] = "unread" /\ sawOpposite[c] = "unread"
  /\ \A c \in Calls : changed[c] => step[c] = "done"
  /\ \A c \in Calls \ raced : Active(c) => KnowsTheTable(c)

\* The intention of addWithInvariant, which holds only without overlap.
NeverOnBothLists == \A e \in Spellings : ~ OnBothLists(e)

=============================================================================
