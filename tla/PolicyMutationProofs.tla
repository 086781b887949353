------------------------ MODULE PolicyMutationProofs ------------------------
(***************************************************************************)
(* Proofs about PolicyMutation, for every set of calls, networks and names. *)
(***************************************************************************)
EXTENDS PolicyMutation, TLAPS

LEMMA OppositePolicy ==
  ASSUME NEW p \in Policies
  PROVE  Opposite(p) \in Policies /\ Opposite(p) # p /\ Policies = {p, Opposite(p)}
BY DEF Policies, Opposite

LEMMA CanonicalSpelling ==
  ASSUME NEW s \in Spellings
  PROVE  Canonical(s) \in Spellings
BY DEF Canonical, Spellings

LEMMA NormalizedRequest ==
  ASSUME NEW r \in Requests
  PROVE  /\ Normalized(r) \in Requests
         /\ Normalized(r).entry = Canonical(r.entry)
         /\ Normalized(r).action = r.action
         /\ Normalized(r).policy = r.policy
         /\ Normalized(r).confirm = r.confirm
<1>1. r.entry \in Spellings
  BY DEF Requests
<1>2. Canonical(r.entry) \in Spellings
  BY <1>1, CanonicalSpelling
<1> QED
  BY <1>2 DEF Normalized, Requests

-----------------------------------------------------------------------------
LEMMA TypeStep == TypeOK /\ [Next]_vars => TypeOK'
<1> SUFFICES ASSUME TypeOK, [Next]_vars PROVE TypeOK'
  OBVIOUS
<1> USE DEF Answers, Running, Ended
<1>1. ASSUME NEW c \in Calls, NEW r \in Offered, Begin(c, r) PROVE TypeOK'
  <2>1. Normalized(r) \in Requests
    BY OfferedAssumption, NormalizedRequest
  <2>2. Rivals(c, Canonical(r.entry)) \subseteq Calls
    BY DEF Rivals
  <2>3. Lists(Canonical(r.entry)) \subseteq Policies
    BY DEF Lists
  <2> QED
    BY <1>1, <2>1, <2>2, <2>3 DEF TypeOK, Begin
<1>2. ASSUME NEW c \in Calls, Advance(c) PROVE TypeOK'
  <2>0. Active(c) => /\ Target(c) \in [entry : Spellings, policy : Policies]
                     /\ OppositeRow(c) \in [entry : Spellings, policy : Policies]
    <3> SUFFICES ASSUME Active(c)
                 PROVE /\ Target(c) \in [entry : Spellings, policy : Policies]
                       /\ OppositeRow(c) \in [entry : Spellings, policy : Policies]
      OBVIOUS
    <3>1. input[c] \in Requests
      BY DEF TypeOK, Active
    <3>2. input[c].entry \in Spellings /\ input[c].policy \in Policies
      BY <3>1 DEF Requests
    <3> QED
      BY <3>2, OppositePolicy DEF Target, OppositeRow, Row
  <2>1. CASE ReadTarget(c)
    BY <2>1 DEF ReadTarget, Presence, TypeOK
  <2>2. CASE ReadOpposite(c)
    BY <2>2 DEF ReadOpposite, Presence, TypeOK
  <2>3. CASE RejectUnconfirmed(c)
    BY <2>3 DEF RejectUnconfirmed, Decided, TypeOK
  <2>4. CASE RemoveOpposite(c)
    BY <2>4 DEF RemoveOpposite, MustRemoveOpposite, Decided, TypeOK
  <2>5. CASE AddTarget(c)
    <3>1. Active(c)
      BY <2>5 DEF AddTarget, ReadyToAdd, Decided, Active
    <3> QED
      BY <2>0, <2>5, <3>1 DEF AddTarget, Active, TypeOK
  <2>6. CASE KeepTarget(c)
    BY <2>6 DEF KeepTarget, ReadyToAdd, Decided, TypeOK
  <2>7. CASE Delete(c)
    <3>1. changed' \in [Calls -> BOOLEAN]
      <4> DEFINE row == Target(c)
      <4>1. (row \in table) \in BOOLEAN
        OBVIOUS
      <4> HIDE DEF row
      <4> QED
        BY <2>7, <4>1 DEF Delete, TypeOK, row
    <3>2. table' \subseteq table
      BY <2>7 DEF Delete
    <3>3. step' \in [Calls -> {"idle"} \cup Running \cup Ended]
      BY <2>7 DEF Delete, TypeOK
    <3>4. step[c] # "idle"
      BY <2>7 DEF Delete
    <3>5. /\ UNCHANGED <<input, sawTarget, sawOpposite, before, raced>>
          /\ \A d \in Calls \ {c} : step'[d] = step[d]
      BY <2>7 DEF Delete, TypeOK
    <3> QED
      BY <3>1, <3>2, <3>3, <3>4, <3>5 DEF TypeOK
  <2>8. CASE QueryFails(c)
    BY <2>8 DEF QueryFails, AwaitsQuery, MustRemoveOpposite, ReadyToAdd, Decided, TypeOK
  <2> QED
    BY <1>2, <2>1, <2>2, <2>3, <2>4, <2>5, <2>6, <2>7, <2>8 DEF Advance
<1>3. ASSUME NEW c \in Calls, Return(c) PROVE TypeOK'
  BY <1>3 DEF Return, Forget, TypeOK
<1>4. CASE UNCHANGED vars
  BY <1>4 DEF vars, TypeOK
<1> QED
  BY <1>1, <1>2, <1>3, <1>4 DEF Next

\* Every variable keeps its type (PolicyMutation!TypeOK).
THEOREM TypeCorrect == Spec => []TypeOK
<1>1. Init => TypeOK
  BY DEF Init, TypeOK, Running, Ended, Answers
<1> QED
  BY <1>1, TypeStep, PTL DEF Spec

-----------------------------------------------------------------------------
(* The inductive invariant: a call that nothing overlaps knows the table.  *)

LEMMA DistinctRows ==
  ASSUME NEW e, NEW f, NEW p, NEW q
  PROVE  Row(e, p) = Row(f, q) <=> e = f /\ p = q
BY DEF Row

LEMMA InsertedRow ==
  ASSUME NEW e, NEW p \in Policies, table' = table \cup {Row(e, p)}
  PROVE  Lists(e)' = Lists(e) \cup {p}
<1>1. ASSUME NEW q \in Policies
      PROVE  Row(e, q) \in table' <=> Row(e, q) \in table \/ q = p
  BY DistinctRows
<1> QED
  BY <1>1 DEF Lists

LEMMA DeletedRow ==
  ASSUME NEW e, NEW p \in Policies, table' = table \ {Row(e, p)}
  PROVE  Lists(e)' = Lists(e) \ {p}
<1>1. ASSUME NEW q \in Policies
      PROVE  Row(e, q) \in table' <=> Row(e, q) \in table /\ q # p
  BY DistinctRows
<1> QED
  BY <1>1 DEF Lists

\* A step of c that writes only rows of its own entry disturbs no other call.
LEMMA OwnStep ==
  ASSUME IInv, TypeOK', NEW c \in Calls, Active(c), step'[c] # "idle",
         UNCHANGED <<input, before, raced>>,
         \A d \in Calls \ {c} : /\ step'[d] = step[d]
                                /\ sawTarget'[d] = sawTarget[d]
                                /\ sawOpposite'[d] = sawOpposite[d],
         \A e : e # input[c].entry => Lists(e)' = Lists(e),
         \A d \in Calls : changed'[d] => step'[d] = "done",
         Active(c)' => PlaceOK(c)',
         c \notin raced /\ Active(c)' => KnowsTheTable(c)'
  PROVE  IInv'
<1>1. OverlapIsMarked'
  <2> SUFFICES ASSUME NEW d \in Calls, NEW f \in Calls, d # f, Active(d)', Active(f)',
                      input[d].entry = input[f].entry
               PROVE  d \in raced
    BY DEF OverlapIsMarked
  <2>1. Active(d) /\ Active(f)
    BY DEF Active
  <2> QED
    BY <2>1 DEF IInv, OverlapIsMarked
<1>2. ASSUME NEW d \in Calls, Active(d)' PROVE PlaceOK(d)'
  BY <1>2 DEF IInv, PlaceOK, Active, Unconfirmed
<1>3. ASSUME NEW d \in Calls, step'[d] = "idle"
      PROVE  sawTarget'[d] = "unread" /\ sawOpposite'[d] = "unread"
  BY <1>3 DEF IInv
<1>4. ASSUME NEW d \in Calls \ raced, Active(d)' PROVE KnowsTheTable(d)'
  <2>1. CASE d = c
    BY <2>1, <1>4
  <2>2. CASE d # c
    <3>1. Active(d)
      BY <2>2, <1>4 DEF Active
    <3>2. KnowsTheTable(d)
      BY <3>1 DEF IInv
    <3>3. input[d].entry # input[c].entry
      BY <2>2, <3>1, <1>4 DEF IInv, OverlapIsMarked
    <3>4. Lists(input[d].entry)' = Lists(input[d].entry)
      BY <3>3 DEF Lists
    <3> QED
      BY <2>2, <3>2, <3>4 DEF KnowsTheTable, Agrees
  <2> QED
    BY <2>1, <2>2
<1> QED
  BY <1>1, <1>2, <1>3, <1>4 DEF IInv

LEMMA InitIInv == Init => IInv
<1> SUFFICES ASSUME Init PROVE IInv
  OBVIOUS
<1>1. TypeOK
  BY DEF Init, TypeOK, Running, Ended, Answers
<1> QED
  BY <1>1 DEF Init, IInv, OverlapIsMarked, Active, Running

LEMMA BeginIInv ==
  ASSUME IInv, TypeOK', NEW c \in Calls, NEW r \in Offered, Begin(c, r)
  PROVE  IInv'
<1> DEFINE e == Canonical(r.entry)
<1>0. r \in Requests
  BY OfferedAssumption
<1>1. /\ input'[c].entry = e
      /\ input'[c].action = r.action
      /\ \A d \in Calls \ {c} : input'[d] = input[d] /\ step'[d] = step[d]
      /\ step'[c] = IF r.action = "add" THEN "reading" ELSE "deleting"
  BY <1>0, NormalizedRequest DEF Begin, IInv, TypeOK
<1>2. OverlapIsMarked'
  <2> SUFFICES ASSUME NEW d \in Calls, NEW f \in Calls, d # f, Active(d)', Active(f)',
                      input'[d].entry = input'[f].entry
               PROVE  d \in raced'
    BY DEF OverlapIsMarked
  <2>1. CASE d = c
    <3>1. f \in Rivals(c, e)
      BY <1>1, <2>1 DEF Rivals, Active
    <3> QED
      BY <3>1, <2>1 DEF Begin
  <2>2. CASE f = c
    <3>1. d \in Rivals(c, e)
      BY <1>1, <2>2 DEF Rivals, Active
    <3> QED
      BY <3>1, <2>2 DEF Begin
  <2>3. CASE d # c /\ f # c
    <3>1. d \in raced
      BY <1>1, <2>3 DEF IInv, OverlapIsMarked, Active
    <3> QED
      BY <3>1 DEF Begin
  <2> QED
    BY <2>1, <2>2, <2>3
<1>3. ASSUME NEW d \in Calls, Active(d)' PROVE PlaceOK(d)'
  <2>1. CASE d = c
    BY <1>0, <1>1, <2>1 DEF PlaceOK, Requests
  <2>2. CASE d # c
    BY <1>1, <1>3, <2>2 DEF Begin, IInv, PlaceOK, Active, Unconfirmed
  <2> QED
    BY <2>1, <2>2
<1>4. ASSUME NEW d \in Calls, step'[d] = "idle"
      PROVE  sawTarget'[d] = "unread" /\ sawOpposite'[d] = "unread"
  BY <1>1, <1>4 DEF Begin, IInv
<1>5. ASSUME NEW d \in Calls \ raced', Active(d)' PROVE KnowsTheTable(d)'
  <2>1. CASE d = c
    <3>1. sawTarget[c] = "unread" /\ sawOpposite[c] = "unread"
      BY DEF Begin, IInv
    <3>2. before'[c] = Lists(e)
      BY DEF Begin, IInv, TypeOK
    <3>3. Lists(input[c].entry)' = Lists(e)
      BY <1>1 DEF Begin, Lists
    <3>4. Lists(e) \subseteq Policies
      BY DEF Lists
    <3>5. step'[c] # "writing"
      BY <1>1
    <3>6. sawTarget'[c] = "unread" /\ sawOpposite'[c] = "unread"
      BY <3>1 DEF Begin
    <3> QED
      BY <2>1, <3>2, <3>3, <3>4, <3>5, <3>6 DEF KnowsTheTable, Agrees
  <2>2. CASE d # c
    <3>1. Active(d) /\ d \notin raced
      BY <1>1, <1>5, <2>2 DEF Begin, Active
    <3>2. KnowsTheTable(d)
      BY <3>1 DEF IInv
    <3>3. Lists(input[d].entry)' = Lists(input[d].entry) /\ before'[d] = before[d]
      BY <1>1, <2>2 DEF Begin, Lists
    <3> QED
      BY <1>1, <2>2, <3>2, <3>3 DEF Begin, KnowsTheTable, Agrees
  <2> QED
    BY <2>1, <2>2
<1>6. ASSUME NEW d \in Calls, changed'[d] PROVE step'[d] = "done"
  BY <1>1, <1>6 DEF Begin, IInv, TypeOK
<1> QED
  BY <1>2, <1>3, <1>4, <1>5, <1>6 DEF IInv

LEMMA ReturnIInv ==
  ASSUME IInv, TypeOK', NEW c \in Calls, Return(c)
  PROVE  IInv'
<1>1. /\ step'[c] = "idle" /\ sawTarget'[c] = "unread" /\ sawOpposite'[c] = "unread"
      /\ table' = table
      /\ raced' = raced \ {c}
      /\ \A d \in Calls \ {c} :
           /\ step'[d] = step[d] /\ input'[d] = input[d] /\ before'[d] = before[d]
           /\ sawTarget'[d] = sawTarget[d] /\ sawOpposite'[d] = sawOpposite[d]
  BY DEF Return, Forget, IInv, TypeOK
<1>2. \A d \in Calls : Active(d)' => d # c /\ Active(d)
  BY <1>1 DEF Active, Running
<1>3. OverlapIsMarked'
  BY <1>1, <1>2 DEF IInv, OverlapIsMarked
<1>4. ASSUME NEW d \in Calls, Active(d)' PROVE PlaceOK(d)'
  BY <1>1, <1>2, <1>4 DEF IInv, PlaceOK, Unconfirmed
<1>5. ASSUME NEW d \in Calls, step'[d] = "idle"
      PROVE  sawTarget'[d] = "unread" /\ sawOpposite'[d] = "unread"
  BY <1>1, <1>5 DEF IInv
<1>6. ASSUME NEW d \in Calls \ raced', Active(d)' PROVE KnowsTheTable(d)'
  <2>1. KnowsTheTable(d)
    BY <1>1, <1>2, <1>6 DEF IInv
  <2>2. Lists(input[d].entry)' = Lists(input[d].entry)
    BY <1>1, <1>2, <1>6 DEF Lists
  <2> QED
    BY <1>1, <1>2, <1>6, <2>1, <2>2 DEF KnowsTheTable, Agrees
<1>7. ASSUME NEW d \in Calls, changed'[d] PROVE step'[d] = "done"
  BY <1>1, <1>7 DEF Return, Forget, IInv, TypeOK
<1> QED
  BY <1>3, <1>4, <1>5, <1>6, <1>7 DEF IInv

\* A statement of c touches at most the rows of its own entry, and the calls
\* that run keep their request while they do.
LEMMA AdvanceFrame ==
  ASSUME TypeOK, NEW c \in Calls, Advance(c)
  PROVE  /\ Active(c)
         /\ step'[c] # "idle"
         /\ UNCHANGED <<input, before, raced>>
         /\ \A d \in Calls \ {c} : /\ step'[d] = step[d]
                                  /\ sawTarget'[d] = sawTarget[d]
                                  /\ sawOpposite'[d] = sawOpposite[d]
         /\ \A e : e # input[c].entry => Lists(e)' = Lists(e)
         /\ (\A d \in Calls : changed[d] => step[d] = "done") =>
              (\A d \in Calls : changed'[d] => step'[d] = "done")
<1>1. /\ Active(c)
      /\ step'[c] # "idle"
      /\ UNCHANGED <<input, before, raced>>
      /\ \A d \in Calls \ {c} : /\ step'[d] = step[d]
                               /\ sawTarget'[d] = sawTarget[d]
                               /\ sawOpposite'[d] = sawOpposite[d]
  BY DEF Advance, ReadTarget, ReadOpposite, RejectUnconfirmed, RemoveOpposite,
         MustRemoveOpposite, AddTarget, ReadyToAdd, KeepTarget, Delete, QueryFails,
         AwaitsQuery, Decided, Active, Running, TypeOK
<1>2. \/ table' = table
      \/ table' = table \ {Target(c)}
      \/ table' = table \cup {Target(c)}
      \/ table' = table \ {OppositeRow(c)}
  BY DEF Advance, ReadTarget, ReadOpposite, RejectUnconfirmed, RemoveOpposite,
         AddTarget, KeepTarget, Delete, QueryFails
<1>3. ASSUME NEW e, e # input[c].entry PROVE Lists(e)' = Lists(e)
  <2>1. ASSUME NEW p \in Policies PROVE Row(e, p) \in table' <=> Row(e, p) \in table
    <3>1. Row(e, p) # Target(c) /\ Row(e, p) # OppositeRow(c)
      BY <1>3, DistinctRows DEF Target, OppositeRow
    <3> QED
      BY <1>2, <3>1
  <2> QED
    BY <2>1 DEF Lists
<1>4. ASSUME \A d \in Calls : changed[d] => step[d] = "done"
      PROVE  \A d \in Calls : changed'[d] => step'[d] = "done"
  <2>1. step[c] # "done"
    BY <1>1 DEF Active, Running
  <2>2. changed' # changed => step'[c] = "done" /\ \A d \in Calls \ {c} : changed'[d] = changed[d]
    BY DEF Advance, ReadTarget, ReadOpposite, RejectUnconfirmed, RemoveOpposite,
           AddTarget, KeepTarget, Delete, QueryFails, TypeOK
  <2> QED
    BY <1>1, <1>4, <2>1, <2>2
<1> QED
  BY <1>1, <1>3, <1>4

LEMMA AdvanceIInv ==
  ASSUME IInv, TypeOK', NEW c \in Calls, Advance(c)
  PROVE  IInv'
<1> DEFINE e == input[c].entry
           p == input[c].policy
<1>0. input[c] \in Requests /\ p \in Policies /\ input' = input /\ before' = before
  BY AdvanceFrame DEF IInv, TypeOK, Active, Running, Requests
<1>1. PlaceOK(c) /\ (c \notin raced => KnowsTheTable(c))
  BY AdvanceFrame DEF IInv
<1>2. ASSUME NEW q \in Policies
      PROVE  /\ q \in Lists(e) <=> Row(e, q) \in table
             /\ q \in Lists(e)' <=> Row(e, q) \in table'
  BY <1>0 DEF Lists
<1>3. Opposite(p) \in Policies /\ Opposite(p) # p /\ Policies = {p, Opposite(p)}
  BY <1>0, OppositePolicy
<1>4. (Active(c)' => PlaceOK(c)') /\ (c \notin raced /\ Active(c)' => KnowsTheTable(c)')
  <2>1. CASE ReadTarget(c)
    <3>1. table' = table /\ step' = step /\ sawOpposite' = sawOpposite
          /\ step[c] = "reading"
          /\ sawTarget'[c] = Presence(Row(e, p))
      BY <2>1 DEF ReadTarget, Target, IInv, TypeOK
    <3>2. Lists(e)' = Lists(e)
      BY <1>0, <3>1 DEF Lists
    <3>3. c \notin raced => Agrees(sawTarget'[c], p, before[c])
      BY <1>1, <1>2, <1>0, <3>1 DEF KnowsTheTable, Agrees, Presence
    <3> QED
      BY <1>0, <1>1, <3>1, <3>2, <3>3 DEF PlaceOK, KnowsTheTable, Agrees
  <2>2. CASE ReadOpposite(c)
    <3>1. table' = table /\ step' = step /\ sawTarget' = sawTarget
          /\ step[c] = "reading"
          /\ sawOpposite'[c] = Presence(Row(e, Opposite(p)))
      BY <2>2 DEF ReadOpposite, OppositeRow, IInv, TypeOK
    <3>2. Lists(e)' = Lists(e)
      BY <1>0, <3>1 DEF Lists
    <3>3. c \notin raced => Agrees(sawOpposite'[c], Opposite(p), before[c])
      BY <1>1, <1>2, <1>3, <3>1 DEF KnowsTheTable, Agrees, Presence
    <3> QED
      BY <1>0, <1>1, <3>1, <3>2, <3>3 DEF PlaceOK, KnowsTheTable, Agrees
  <2>3. CASE RemoveOpposite(c)
    <3>1. /\ sawTarget' = sawTarget /\ sawOpposite' = sawOpposite
          /\ step[c] = "reading" /\ sawTarget[c] # "unread"
          /\ sawOpposite[c] = "yes" /\ ~ Unconfirmed(c)
          /\ step'[c] \in {"writing", "failed"}
          /\ table' = table \ {Row(e, Opposite(p))}
      BY <2>3 DEF RemoveOpposite, MustRemoveOpposite, Decided, OppositeRow, IInv, TypeOK
    <3>2. Lists(e)' = Lists(e) \ {Opposite(p)}
      BY <1>0, <1>3, <3>1, DeletedRow
    <3>3. c \notin raced => Lists(e)' = before[c] \ {Opposite(p)}
      BY <1>1, <3>1, <3>2 DEF KnowsTheTable
    <3>4. PlaceOK(c)'
      BY <1>0, <1>1, <3>1 DEF PlaceOK, Unconfirmed
    <3> QED
      BY <1>0, <1>1, <3>1, <3>3, <3>4 DEF KnowsTheTable, Agrees
  <2>4. CASE RejectUnconfirmed(c) \/ AddTarget(c) \/ KeepTarget(c) \/ Delete(c) \/ QueryFails(c)
    <3>1. ~ Active(c)'
      BY <2>4 DEF RejectUnconfirmed, AddTarget, KeepTarget, Delete, QueryFails, Active,
                  Running, IInv, TypeOK
    <3> QED
      BY <3>1
  <2> QED
    BY <2>1, <2>2, <2>3, <2>4 DEF Advance
<1> QED
  BY <1>4, AdvanceFrame, OwnStep DEF IInv

LEMMA NextIInv == IInv /\ [Next]_vars => IInv'
<1> SUFFICES ASSUME IInv, [Next]_vars PROVE IInv'
  OBVIOUS
<1>0. TypeOK'
  BY TypeStep DEF IInv
<1>1. CASE UNCHANGED vars
  <2>1. ASSUME NEW d \in Calls, KnowsTheTable(d) PROVE KnowsTheTable(d)'
    BY <1>1, <2>1 DEF vars, KnowsTheTable, Agrees, Lists
  <2> QED
    BY <1>0, <1>1, <2>1 DEF vars, IInv, OverlapIsMarked, Active, PlaceOK, Unconfirmed
<1> QED
  BY <1>0, <1>1, BeginIInv, AdvanceIInv, ReturnIInv DEF Next

THEOREM Inductive == Spec => []IInv
BY InitIInv, NextIInv, PTL DEF Spec

-----------------------------------------------------------------------------
(* What the inductive invariant gives for a step that ends a call.          *)

LEMMA OnlyAdvanceEnds ==
  ASSUME IInv, [Next]_vars, NEW c \in Calls, Active(c), step'[c] \in Ended
  PROVE  Advance(c)
<1>1. ASSUME NEW d \in Calls, NEW r \in Offered, Begin(d, r) PROVE FALSE
  BY <1>1 DEF Begin, Active, Running, Ended, IInv, TypeOK
<1>2. ASSUME NEW d \in Calls, Return(d) PROVE FALSE
  BY <1>2 DEF Return, Forget, Active, Running, Ended, IInv, TypeOK
<1>3. ASSUME NEW d \in Calls, Advance(d), d # c PROVE FALSE
  BY <1>3, AdvanceFrame DEF IInv, Active, Running, Ended
<1>4. ~ UNCHANGED vars
  BY DEF vars, Active, Running, Ended
<1> QED
  BY <1>1, <1>2, <1>3, <1>4 DEF Next

LEMMA ReadyOutcome ==
  ASSUME IInv, NEW c \in Calls \ raced, Active(c), ReadyToAdd(c)
  PROVE  LET p == input[c].policy  on == before[c] IN
         /\ Lists(input[c].entry) = on \ {Opposite(p)}
         /\ sawTarget[c] = "yes" <=> p \in on
         /\ sawOpposite[c] = "yes" <=> Opposite(p) \in on
         /\ sawTarget[c] # "unread"
         /\ Outcome(on, input[c]) = [lists |-> {p}, ends |-> "done", changed |-> on # {p}]
<1> DEFINE p == input[c].policy
           on == before[c]
<1>1. PlaceOK(c) /\ KnowsTheTable(c) /\ input[c] \in Requests
  BY DEF IInv, TypeOK, Active, Running
<1>2. input[c].action = "add" /\ ~ Unconfirmed(c) /\ sawTarget[c] # "unread"
  BY <1>1 DEF ReadyToAdd, Decided, PlaceOK, Requests, Unconfirmed
<1>3. /\ Lists(input[c].entry) = on \ {Opposite(p)}
      /\ sawTarget[c] = "yes" <=> p \in on
      /\ sawOpposite[c] = "yes" <=> Opposite(p) \in on
  BY <1>1, <1>2 DEF ReadyToAdd, Decided, PlaceOK, KnowsTheTable, Agrees, IInv, TypeOK, Answers
<1>4. ~ (p = "blacklist" /\ "whitelist" \in on /\ ~ input[c].confirm)
  BY <1>2, <1>3 DEF Unconfirmed, Opposite
<1>5. Outcome(on, input[c]) = [lists |-> {p}, ends |-> "done", changed |-> on # {p}]
  BY <1>2, <1>4 DEF Outcome
<1> QED
  BY <1>2, <1>3, <1>5

LEMMA AtomicStep ==
  ASSUME IInv, [Next]_vars, NEW c \in Calls
  PROVE  UnracedAtomicStep(c)
<1> SUFFICES ASSUME Active(c), step'[c] \in {"done", "rejected"}, c \notin raced
             PROVE  UnracedAtomicStep(c)
  BY DEF UnracedAtomicStep
<1> DEFINE e == input[c].entry
           p == input[c].policy
           on == before[c]
           out == Outcome(on, input[c])
<1>0. Advance(c)
  BY OnlyAdvanceEnds DEF Ended
<1>1. input[c] \in Requests /\ p \in Policies /\ input' = input
  BY <1>0, AdvanceFrame DEF IInv, TypeOK, Active, Running, Requests
<1>2. PlaceOK(c) /\ KnowsTheTable(c)
  BY DEF IInv
<1>3. Opposite(p) \in Policies /\ Opposite(p) # p /\ Policies = {p, Opposite(p)}
  BY <1>1, OppositePolicy
<1>4. Target(c) = Row(e, p)
  BY DEF Target
<1>5. on \subseteq Policies
  BY <1>2 DEF KnowsTheTable
<1> SUFFICES step'[c] = out.ends /\ changed'[c] = out.changed /\ Lists(e)' = out.lists
  BY DEF UnracedAtomicStep
<1>6. CASE RejectUnconfirmed(c)
  <2>1. /\ Lists(e)' = Lists(e) /\ Lists(e) = on /\ changed' = changed
        /\ step'[c] = "rejected" /\ input[c].action = "add"
        /\ p = "blacklist" /\ "whitelist" \in on /\ ~ input[c].confirm
    BY <1>1, <1>2, <1>6 DEF RejectUnconfirmed, Decided, Unconfirmed, KnowsTheTable, PlaceOK,
         Agrees, Opposite, Lists, IInv, TypeOK, Requests
  <2>2. out = [lists |-> on, ends |-> "rejected", changed |-> FALSE]
    BY <2>1 DEF Outcome
  <2>3. changed'[c] = FALSE
    <3>1. changed'[c] \in BOOLEAN
      BY <2>1 DEF IInv, TypeOK
    <3>2. ~ changed'[c]
      BY <2>1 DEF IInv, Active, Running
    <3> QED
      BY <3>1, <3>2
  <2>4. out.ends = "rejected" /\ out.lists = on
    BY <2>2
  <2>5. out.changed = FALSE
    BY <2>2
  <2>6. changed'[c] = out.changed
    BY <2>3, <2>5
  <2> QED
    BY <2>1, <2>4, <2>6
<1>7. ASSUME ReadyToAdd(c)
      PROVE  /\ Lists(e) = on \ {Opposite(p)}
             /\ sawTarget[c] = "yes" <=> p \in on
             /\ sawOpposite[c] = "yes" <=> Opposite(p) \in on
             /\ sawTarget[c] # "unread"
             /\ out = [lists |-> {p}, ends |-> "done", changed |-> on # {p}]
  BY <1>7, ReadyOutcome
<1>8. CASE AddTarget(c)
  <2>1. ReadyToAdd(c) /\ sawTarget[c] = "no" /\ table' = table \cup {Row(e, p)}
    BY <1>4, <1>8 DEF AddTarget
  <2>2. p \notin on /\ Row(e, p) \notin table
    BY <1>1, <1>7, <2>1 DEF Lists
  <2>3. Lists(e)' = Lists(e) \cup {p}
    BY <1>1, <2>1, InsertedRow
  <2>4. Lists(e)' = {p}
    BY <1>3, <1>5, <1>7, <2>1, <2>2, <2>3
  <2>5. step'[c] = "done" /\ changed'[c] = (sawOpposite[c] = "yes" \/ Row(e, p) \notin table)
    BY <1>4, <1>8 DEF AddTarget, IInv, TypeOK
  <2>6. changed'[c] = TRUE
    BY <2>2, <2>5
  <2>7. out.ends = "done" /\ out.lists = {p} /\ out.changed = (on # {p})
    BY <1>7, <2>1
  <2>8. (on # {p}) = TRUE
    BY <2>2
  <2>9. changed'[c] = out.changed
    BY <2>6, <2>7, <2>8
  <2> QED
    BY <2>4, <2>5, <2>7, <2>9
<1>9. CASE KeepTarget(c)
  <2>1. ReadyToAdd(c) /\ sawTarget[c] = "yes" /\ table' = table /\ step'[c] = "done"
        /\ changed'[c] = (sawOpposite[c] = "yes")
    BY <1>9 DEF KeepTarget, IInv, TypeOK
  <2>2. Lists(e)' = {p}
    <3>1. Lists(e)' = Lists(e)
      BY <1>1, <2>1 DEF Lists
    <3> QED
      BY <1>3, <1>5, <1>7, <2>1, <3>1
  <2>3. (sawOpposite[c] = "yes") = (on # {p})
    BY <1>3, <1>5, <1>7, <2>1
  <2> QED
    BY <1>7, <2>1, <2>2, <2>3
<1>10. CASE Delete(c)
  <2>1. step[c] = "deleting" /\ table' = table \ {Row(e, p)} /\ step'[c] = "done"
        /\ changed'[c] = (Row(e, p) \in table)
    BY <1>4, <1>10 DEF Delete, IInv, TypeOK
  <2>2. input[c].action = "remove" /\ Lists(e) = on
    BY <1>2, <2>1 DEF PlaceOK, KnowsTheTable
  <2>3. Lists(e)' = on \ {p}
    BY <1>1, <2>1, <2>2, DeletedRow
  <2>4. (Row(e, p) \in table) = (p \in on)
    BY <1>1, <2>2 DEF Lists
  <2>5. out = [lists |-> on \ {p}, ends |-> "done", changed |-> p \in on]
    BY <2>2 DEF Outcome
  <2> QED
    BY <2>1, <2>3, <2>4, <2>5
<1>11. ~ (ReadTarget(c) \/ ReadOpposite(c) \/ RemoveOpposite(c) \/ QueryFails(c))
  BY DEF ReadTarget, ReadOpposite, RemoveOpposite, QueryFails, Active, Running, IInv, TypeOK
<1> QED
  BY <1>0, <1>6, <1>8, <1>9, <1>10, <1>11 DEF Advance

LEMMA FailureStep ==
  ASSUME IInv, [Next]_vars, NEW c \in Calls
  PROVE  UnracedFailureStep(c)
<1> SUFFICES ASSUME Active(c), step'[c] = "failed", c \notin raced
             PROVE  UnracedFailureStep(c)
  BY DEF UnracedFailureStep
<1> DEFINE e == input[c].entry
           p == input[c].policy
           on == before[c]
           out == Outcome(on, input[c])
<1>0. Advance(c)
  BY OnlyAdvanceEnds DEF Ended
<1>1. input[c] \in Requests /\ p \in Policies /\ input' = input
  BY <1>0, AdvanceFrame DEF IInv, TypeOK, Active, Running, Requests
<1>2. PlaceOK(c) /\ KnowsTheTable(c)
  BY DEF IInv
<1>3. Opposite(p) \in Policies /\ Opposite(p) # p /\ Policies = {p, Opposite(p)}
  BY <1>1, OppositePolicy
<1> SUFFICES Lists(e)' \in {on, on \ {Opposite(p)}, out.lists}
  BY DEF UnracedFailureStep
<1>4. CASE QueryFails(c)
  <2>1. Lists(e)' = Lists(e)
    BY <1>1, <1>4 DEF QueryFails, Lists
  <2>2. Lists(e) = on \/ Lists(e) = on \ {Opposite(p)}
    BY <1>2 DEF KnowsTheTable, Active, Running
  <2> QED
    BY <2>1, <2>2
<1>5. CASE RemoveOpposite(c)
  <2>1. table' = table \ {Row(e, Opposite(p))} /\ step[c] = "reading"
    BY <1>5 DEF RemoveOpposite, MustRemoveOpposite, Decided, OppositeRow
  <2>2. Lists(e)' = Lists(e) \ {Opposite(p)} /\ Lists(e) = on
    BY <1>1, <1>2, <1>3, <2>1, DeletedRow DEF KnowsTheTable
  <2> QED
    BY <2>2
<1>6. CASE AddTarget(c)
  <2>1. ReadyToAdd(c) /\ table' = table \cup {Row(e, p)}
    BY <1>6 DEF AddTarget, Target
  <2>2. Lists(e) = on \ {Opposite(p)} /\ out.lists = {p}
    <3>1. /\ Lists(e) = on \ {Opposite(p)}
          /\ out = [lists |-> {p}, ends |-> "done", changed |-> on # {p}]
      BY <2>1, ReadyOutcome
    <3> QED
      BY <3>1
  <2>3. Lists(e)' = Lists(e) \cup {p} /\ on \subseteq Policies
    BY <1>1, <1>2, <2>1, InsertedRow DEF KnowsTheTable
  <2> QED
    BY <1>3, <2>2, <2>3
<1>7. CASE Delete(c)
  <2>1. step[c] = "deleting" /\ table' = table \ {Row(e, p)}
    BY <1>7 DEF Delete, Target
  <2>2. input[c].action = "remove" /\ Lists(e) = on
    BY <1>2, <2>1 DEF PlaceOK, KnowsTheTable
  <2>3. Lists(e)' = on \ {p} /\ out.lists = on \ {p}
    BY <1>1, <2>1, <2>2, DeletedRow DEF Outcome
  <2> QED
    BY <2>3
<1>8. ~ (ReadTarget(c) \/ ReadOpposite(c) \/ RejectUnconfirmed(c) \/ KeepTarget(c))
  BY DEF ReadTarget, ReadOpposite, RejectUnconfirmed, KeepTarget, Active, Running, IInv, TypeOK
<1> QED
  BY <1>0, <1>4, <1>5, <1>6, <1>7, <1>8 DEF Advance

\* A request that nothing overlaps and that ends without a database failure is
\* the atomic step of Outcome (addWithInvariant, remove).
THEOREM UnracedAtomicHolds == Spec => UnracedAtomic
<1>1. IInv /\ [Next]_vars => [\A c \in Calls : UnracedAtomicStep(c)]_vars
  BY AtomicStep
<1> QED
  BY <1>1, Inductive, PTL DEF Spec, UnracedAtomic

\* A request that nothing overlaps and that fails half way leaves the entry as it
\* was, without its opposite row, or as the request asked.
THEOREM UnracedFailureHolds == Spec => UnracedFailure
<1>1. IInv /\ [Next]_vars => [\A c \in Calls : UnracedFailureStep(c)]_vars
  BY FailureStep
<1> QED
  BY <1>1, Inductive, PTL DEF Spec, UnracedFailure

LEMMA OnlyAdvanceWrites ==
  ASSUME [Next]_vars, table' # table
  PROVE  \E c \in Calls : Advance(c)
BY DEF Next, Begin, Return, vars

LEMMA BothListsLemma == IInv /\ [Next]_vars => BothListsStep
<1> SUFFICES ASSUME IInv, [Next]_vars, NEW e \in Spellings,
                    Lists(e) # Policies, Lists(e)' = Policies
             PROVE  \E c \in raced : Active(c) /\ input[c].entry = e
  BY DEF BothListsStep, OnBothLists
<1>1. table' # table
  BY DEF Lists
<1>2. PICK c \in Calls : Advance(c)
  BY <1>1, OnlyAdvanceWrites
<1>3. Active(c) /\ input[c].entry = e /\ input' = input
  BY <1>2, AdvanceFrame DEF IInv
<1>4. AddTarget(c)
  <2>1. ~ (table' \subseteq table)
    BY DEF Lists
  <2> QED
    BY <1>2, <2>1 DEF Advance, ReadTarget, ReadOpposite, RejectUnconfirmed, RemoveOpposite,
                      KeepTarget, Delete, QueryFails
<1>5. input[c].policy \in Policies
  BY <1>3 DEF IInv, TypeOK, Active, Running, Requests
<1>6. ReadyToAdd(c) /\ table' = table \cup {Row(e, input[c].policy)}
  BY <1>3, <1>4 DEF AddTarget, Target
<1>7. Lists(e)' = Lists(e) \cup {input[c].policy}
  BY <1>5, <1>6, InsertedRow
<1>8. Opposite(input[c].policy) \in Policies /\ Opposite(input[c].policy) # input[c].policy
  BY <1>5, OppositePolicy
<1>9. ASSUME c \notin raced PROVE FALSE
  <2>1. Lists(e) = before[c] \ {Opposite(input[c].policy)}
    BY <1>3, <1>6, <1>9, ReadyOutcome
  <2> QED
    BY <1>7, <1>8, <2>1
<1> QED
  BY <1>3, <1>9

LEMMA DemotionLemma == IInv /\ [Next]_vars => DemotionStep
<1> SUFFICES ASSUME IInv, [Next]_vars, NEW e \in Spellings,
                    Row(e, "whitelist") \in table \ table'
             PROVE  \E c \in Calls :
                      /\ Active(c)
                      /\ input[c].entry = e
                      /\ \/ input[c].action = "remove" /\ input[c].policy = "whitelist"
                         \/ input[c].policy = "blacklist" /\ input[c].confirm
  BY DEF DemotionStep
<1>1. PICK c \in Calls : Advance(c)
  BY OnlyAdvanceWrites
<1>2. Active(c) /\ PlaceOK(c) /\ input[c] \in Requests
  BY <1>1, AdvanceFrame DEF IInv, TypeOK, Active, Running
<1>3. CASE RemoveOpposite(c)
  <2>1. Row(e, "whitelist") = Row(input[c].entry, Opposite(input[c].policy))
    BY <1>3 DEF RemoveOpposite, OppositeRow
  <2>2. input[c].entry = e /\ input[c].policy = "blacklist"
    BY <1>2, <2>1, DistinctRows DEF Opposite, Requests, Policies
  <2>3. input[c].confirm
    BY <1>3, <2>2 DEF RemoveOpposite, MustRemoveOpposite, Unconfirmed
  <2> QED
    BY <1>2, <2>2, <2>3
<1>4. CASE Delete(c)
  <2>1. Row(e, "whitelist") = Row(input[c].entry, input[c].policy) /\ step[c] = "deleting"
    BY <1>4 DEF Delete, Target
  <2>2. input[c].entry = e /\ input[c].policy = "whitelist"
    BY <2>1, DistinctRows
  <2>3. input[c].action = "remove"
    BY <1>2, <2>1 DEF PlaceOK
  <2> QED
    BY <1>2, <2>2, <2>3
<1>5. ~ (ReadTarget(c) \/ ReadOpposite(c) \/ RejectUnconfirmed(c) \/ AddTarget(c)
         \/ KeepTarget(c) \/ QueryFails(c))
  BY DEF ReadTarget, ReadOpposite, RejectUnconfirmed, AddTarget, KeepTarget, QueryFails
<1> QED
  BY <1>1, <1>3, <1>4, <1>5 DEF Advance

\* Only requests that overlap put an entry on both lists.
THEOREM BothListsOnlyByRaceHolds == Spec => BothListsOnlyByRace
BY BothListsLemma, Inductive, PTL DEF Spec, BothListsOnlyByRace

\* No interleaving takes an address off the whitelist without a removal request
\* or a confirmed blacklist request.
THEOREM DemotionNeedsConfirmationHolds == Spec => DemotionNeedsConfirmation
BY DemotionLemma, Inductive, PTL DEF Spec, DemotionNeedsConfirmation

-----------------------------------------------------------------------------
(* Rows are stored under the canonical spelling of their address.           *)

IsCanonical(s) == Canonical(s) = s

StoredCanonical ==
  /\ \A row \in table : IsCanonical(row.entry)
  /\ \A c \in Calls : step[c] # "idle" => IsCanonical(input[c].entry)

LEMMA CanonicalTwice ==
  ASSUME NEW s \in Spellings
  PROVE  IsCanonical(Canonical(s))
BY DEF IsCanonical, Canonical, Spellings

LEMMA NextCanonical == TypeOK /\ StoredCanonical /\ [Next]_vars => StoredCanonical'
<1> SUFFICES ASSUME TypeOK, StoredCanonical, [Next]_vars PROVE StoredCanonical'
  OBVIOUS
<1>1. ASSUME NEW c \in Calls, NEW r \in Offered, Begin(c, r) PROVE StoredCanonical'
  <2>1. r \in Requests /\ r.entry \in Spellings
    BY OfferedAssumption DEF Requests
  <2>2. input'[c].entry = Canonical(r.entry)
    BY <1>1, <2>1, NormalizedRequest DEF Begin, TypeOK
  <2>3. IsCanonical(input'[c].entry)
    BY <2>1, <2>2, CanonicalTwice
  <2> QED
    BY <1>1, <2>3 DEF Begin, StoredCanonical, TypeOK
<1>2. ASSUME NEW c \in Calls, Advance(c) PROVE StoredCanonical'
  <2>1. IsCanonical(input[c].entry) /\ input' = input
    BY <1>2, AdvanceFrame DEF StoredCanonical, Active, Running
  <2>2. Target(c).entry = input[c].entry
    BY DEF Target, Row
  <2>3. table' \subseteq table \cup {Target(c)}
    BY <1>2 DEF Advance, ReadTarget, ReadOpposite, RejectUnconfirmed, RemoveOpposite,
                AddTarget, KeepTarget, Delete, QueryFails
  <2>4. \A row \in table' : IsCanonical(row.entry)
    BY <2>1, <2>2, <2>3 DEF StoredCanonical
  <2>5. \A d \in Calls : step'[d] # "idle" => step[d] # "idle"
    BY <1>2, AdvanceFrame DEF Active, Running
  <2> QED
    BY <2>1, <2>4, <2>5 DEF StoredCanonical
<1>3. ASSUME NEW c \in Calls, Return(c) PROVE StoredCanonical'
  BY <1>3 DEF Return, Forget, StoredCanonical, TypeOK
<1>4. CASE UNCHANGED vars
  BY <1>4 DEF vars, StoredCanonical
<1> QED
  BY <1>1, <1>2, <1>3, <1>4 DEF Next

LEMMA SameCanonical ==
  ASSUME NEW s \in Spellings, NEW t \in Spellings,
         IsCanonical(s), IsCanonical(t), SameAddress(s, t)
  PROVE  s = t
<1>1. s.network = t.network /\ s.name = t.name
  BY DEF SameAddress
<1>2. s.mixed = t.mixed
  BY DEF SameAddress, IsCanonical, Canonical, Spellings
<1> QED
  BY <1>1, <1>2 DEF Spellings

\* Two spellings of one address never have rows of their own.
THEOREM OneRowPerAddressHolds == Spec => []OneRowPerAddress
<1>1. Init => StoredCanonical
  BY DEF Init, StoredCanonical
<1>2. TypeOK /\ StoredCanonical => OneRowPerAddress
  BY SameCanonical DEF TypeOK, StoredCanonical, OneRowPerAddress
<1> QED
  BY <1>1, <1>2, NextCanonical, TypeCorrect, PTL DEF Spec

=============================================================================
