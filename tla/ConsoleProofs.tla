---------------------------- MODULE ConsoleProofs ----------------------------
(***************************************************************************)
(* Proofs about Console, for every number of addresses, sessions, loads    *)
(* and mutations under way, and whatever happens around the page; and, in  *)
(* the last section, about the network field of its form (NetworkCombobox) *)
(* for every list of presets and every text.                               *)
(***************************************************************************)
EXTENDS Console, NetworkCombobox, FiniteSetTheorems, WellFoundedInduction, TLAPS

-----------------------------------------------------------------------------
(* The inductive invariant. *)

\* The mutations the backend may still carry out.
Unserved == {m \in Calls : calls[m] # None /\ calls[m].stage \in {"sent", "adrift"}}

\* The bounds leave room for what is under way.
RoomLeft ==
  /\ logins <= MaxSessions - issued
  /\ Cardinality(Unserved) <= MaxRows - book.history

LoadOf(l, m) == loads[l] # None /\ loads[l].call # None /\ loads[l].call = m

\* A load that ends a mutation is that mutation's own, and the mutation waits for it.
LoadsTied ==
  /\ \A l \in Loads, m \in Calls :
       LoadOf(l, m) => calls[m] # None /\ calls[m].stage = "reloading"
  /\ \A l, k \in Loads, m \in Calls : LoadOf(l, m) /\ LoadOf(k, m) => l = k

\* Until a 401 has reset it, the flag is set while a mutation is under way.
FlagHolds ==
  "kicked" \notin faults =>
    /\ \A m, n \in Calls : Listening(m) /\ Listening(n) => m = n
    /\ \A m \in Calls : Listening(m) => mutating

\* One sign-in at a time, begun with nobody signed in.
SignInsInTurn ==
  "twice" \notin faults =>
    /\ logins <= 1
    /\ logins = 1 => authenticating /\ session = None /\ ~ out
    /\ out => session = None

\* A confirmed switch was confirmed by someone who saw the address listed.
ConfirmedIsSeen == \A m \in Calls : calls[m] # None /\ calls[m].confirm => calls[m].seen

\* The load after a mutation reads the history after its row.
LoadsFollow ==
  /\ \A m \in Calls : calls[m] # None => calls[m].number <= book.history
  /\ \A l \in Loads, m \in Calls :
       LoadOf(l, m) /\ loads[l].got.history # None => loads[l].got.history >= calls[m].number

\* A mutation whose end will change what the page shows.
Pending(m) == calls[m] # None /\ calls[m].stage \in {"sent", "done", "refused", "denied"}

UpToDate(l) == \A p \in Parts : loads[l].got[p] # None => loads[l].got[p] = book[p]

\* Short of the three faults, a page without an error shows the lists as they are, or the
\* last load will bring them, or a mutation is still to be answered.
WillBeCurrent ==
  session # None /\ error = None /\ faults \cap {"overtaken", "late", "others"} = {} =>
    \/ \E m \in Calls : Pending(m)
    \/ /\ newest # 0 /\ loads[newest] # None
       /\ loads[newest].session = session => UpToDate(newest)
    \/ (newest = 0 \/ loads[newest] = None) /\ shown = book

Safe ==
  /\ LoadsTied
  /\ FlagHolds
  /\ SignInsInTurn
  /\ ConfirmedIsSeen
  /\ LoadsFollow
  /\ WillBeCurrent
  /\ SignedOutHoldsNothing

IInv == TypeOK /\ RoomLeft /\ Safe

-----------------------------------------------------------------------------
(* Steps. *)

\* What the operator asks for: an addition or a removal, confirmed where it was seen.
Asks ==
  \E p \in Policies, adds \in BOOLEAN, x \in Addresses, confirm \in BOOLEAN :
    Send(p, adds, x, confirm) /\ (confirm => x \in shown.whitelist)

LEMMA AddAsks ==
  ASSUME TypeOK, NEW p \in Policies, Add(p)
  PROVE  Asks
<1>1. Confirms(p) \in BOOLEAN
  BY DEF Confirms
<1>2. form \in Addresses /\ Send(p, TRUE, form, Confirms(p))
  BY DEF Add, TypeOK
<1>3. Confirms(p) => form \in shown.whitelist
  BY DEF Confirms
<1> QED
  BY <1>1, <1>2, <1>3 DEF Asks

LEMMA RemoveAsks ==
  ASSUME NEW p \in Policies, NEW x \in Addresses, Remove(p, x)
  PROVE  Asks
BY DEF Remove, Asks

\* The steps there are.
LEMMA Steps ==
  ASSUME TypeOK, [Next]_vars
  PROVE  \/ SignIn \/ SignInWithoutName \/ SignOut \/ Refresh \/ SignedIn \/ SignInFails
         \/ (\E x \in Addresses : Type(x)) \/ Asks
         \/ \E l \in Loads : Arrive(l) \/ LoadDenied(l) \/ LoadFails(l)
         \/ \E l \in Loads, p \in Parts : Read(l, p)
         \/ \E m \in Calls : Serve(m) \/ Saved(m) \/ Refused(m) \/ Denied(m)
         \/ \E m \in Calls : CallFails(m) \/ Drift(m)
         \/ Expire
         \/ \E p \in Policies, x \in Addresses : OtherMoves(p, x)
         \/ UNCHANGED vars
BY AddAsks, RemoveAsks DEF Next, Operate, LoadAnswered, CallAnswered

LEMMA UnservedCount ==
  /\ IsFiniteSet(Calls) /\ IsFiniteSet(Unserved) /\ Cardinality(Unserved) \in Nat
<1>1. MaxCalls \in Nat /\ IsFiniteSet(Calls)
  BY ConsoleAssumption, FS_Interval DEF Calls
<1>2. Unserved \subseteq Calls
  BY DEF Unserved
<1> QED
  BY <1>1, <1>2, FS_Subset, FS_CardinalityType

LEMMA UnservedCountNext ==
  ASSUME Unserved' \subseteq Unserved
  PROVE  Cardinality(Unserved') \in Nat /\ Cardinality(Unserved') <= Cardinality(Unserved)
BY UnservedCount, FS_Subset, FS_CardinalityType

LEMMA UnservedLess ==
  ASSUME NEW m \in Unserved, Unserved' = Unserved \ {m}
  PROVE  Cardinality(Unserved') \in Nat /\ Cardinality(Unserved') = Cardinality(Unserved) - 1
BY UnservedCount, FS_RemoveElement, FS_CardinalityType

LEMMA UnservedMore ==
  ASSUME NEW m, m \notin Unserved, Unserved' = Unserved \cup {m}
  PROVE  Cardinality(Unserved') \in Nat /\ Cardinality(Unserved') = Cardinality(Unserved) + 1
BY UnservedCount, FS_AddElement, FS_CardinalityType

\* The lists after a mutation are lists.
LEMMA MutatedBooks ==
  ASSUME TypeOK, NEW k, k.policy \in Policies, k.address \in Addresses, k.adds \in BOOLEAN,
         book.history < MaxRows
  PROVE  Mutated(k) \in Books /\ Mutated(k).history = book.history + 1
<1>1. /\ book \in Books /\ k.policy \in Policies /\ k.address \in Addresses /\ MaxRows \in Nat
      /\ book.history + 1 \in 0..MaxRows
  BY ConsoleAssumption DEF TypeOK, Books
<1>2. CASE k.adds /\ k.policy = "blacklist"
  <2>1. Mutated(k) = [book EXCEPT !["blacklist"] = @ \cup {k.address},
                                  !["whitelist"] = @ \ {k.address},
                                  !["history"] = book.history + 1]
    BY <1>2 DEF Mutated, Opposite
  <2> QED
    BY <1>1, <2>1 DEF Books
<1>3. CASE k.adds /\ k.policy = "whitelist"
  <2>1. Mutated(k) = [book EXCEPT !["whitelist"] = @ \cup {k.address},
                                  !["blacklist"] = @ \ {k.address},
                                  !["history"] = book.history + 1]
    BY <1>3 DEF Mutated, Opposite
  <2> QED
    BY <1>1, <2>1 DEF Books
<1>4. CASE ~ k.adds /\ k.policy = "blacklist"
  <2>1. Mutated(k) = [book EXCEPT !["blacklist"] = @ \ {k.address},
                                  !["history"] = book.history + 1]
    BY <1>4 DEF Mutated, Opposite
  <2> QED
    BY <1>1, <2>1 DEF Books
<1>5. CASE ~ k.adds /\ k.policy = "whitelist"
  <2>1. Mutated(k) = [book EXCEPT !["whitelist"] = @ \ {k.address},
                                  !["history"] = book.history + 1]
    BY <1>5 DEF Mutated, Opposite
  <2> QED
    BY <1>1, <2>1 DEF Books
<1> QED
  BY <1>1, <1>2, <1>3, <1>4, <1>5 DEF Policies

\* Slot l has a new load, of session s, ending mutation m if that is not None.
Begins(open, s, m, l) ==
  /\ open[l] = None
  /\ \A k \in Loads : k # l => loads'[k] = open[k]
  /\ loads'[l] # None /\ loads'[l].session = s /\ loads'[l].call = m
  /\ \A p \in Parts : loads'[l].got[p] = None
  /\ newest' = l

LEMMA LoadStarts ==
  ASSUME NEW open \in [Loads -> LoadRecords \cup {None}],
         NEW s \in Sessions, NEW m \in Calls \cup {None}, StartLoad(open, s, m)
  PROVE  /\ \E l \in Loads : Begins(open, s, m, l)
         /\ loads' \in [Loads -> LoadRecords \cup {None}]
         /\ newest' \in 1..MaxLoads
         /\ loading' = TRUE /\ error' = None
<1> DEFINE load == [session |-> s, call |-> m, got |-> Nothing]
<1>1. load \in LoadRecords /\ load.session = s /\ load.call = m
      /\ \A p \in Parts : load.got[p] = None
  BY DEF LoadRecords, Nothing, Received, Parts, Policies
<1>2. PICK l \in Loads :
        /\ open[l] = None
        /\ loads' = [open EXCEPT ![l] = load]
        /\ newest' = l /\ loading' = TRUE /\ error' = None
  BY DEF StartLoad, Free
<1> HIDE DEF load
<1>3. load # None
  BY <1>1, NoneAssumption
<1>4. Begins(open, s, m, l)
  BY <1>1, <1>2, <1>3 DEF Begins
<1> QED
  BY <1>1, <1>2, <1>4 DEF Loads
-----------------------------------------------------------------------------
(* Types, and room within the bounds. *)

LEMMA EmptyBooks == Empty \in Books
BY ConsoleAssumption DEF Empty, Books

\* A step that starts and ends no mutation.
LEMMA RoomStays ==
  ASSUME TypeOK, RoomLeft, Unserved' \subseteq Unserved, book'.history = book.history,
         logins' <= MaxSessions - issued'
  PROVE  RoomLeft'
<1>1. /\ Cardinality(Unserved') \in Nat /\ Cardinality(Unserved') <= Cardinality(Unserved)
      /\ Cardinality(Unserved) \in Nat
  BY UnservedCount, UnservedCountNext
<1>2. book.history \in Nat /\ MaxRows \in Nat
  BY ConsoleAssumption DEF TypeOK, Books
<1>3. Cardinality(Unserved') <= MaxRows - book'.history
  BY <1>1, <1>2 DEF RoomLeft
<1> QED
  BY <1>3 DEF RoomLeft

LEMMA TypedSession ==
  ASSUME TypeOK, RoomLeft,
         SignIn \/ SignInWithoutName \/ SignOut \/ Refresh \/ SignedIn \/ SignInFails
  PROVE  TypeOK' /\ RoomLeft'
<1>0. /\ issued \in Nat /\ logins \in Nat /\ book.history \in Nat
      /\ logins <= MaxSessions - issued
      /\ MaxSessions \in Nat /\ MaxRows \in Nat /\ MaxLogins \in Nat /\ MaxLoads \in Nat
  BY ConsoleAssumption DEF TypeOK, Books, RoomLeft
<1>1. CASE SignIn
  <2>3. faults' \subseteq {"overtaken", "late", "others", "kicked", "twice"}
    BY <1>1 DEF TypeOK, SignIn, Happens
  <2>4. logins' \in 0..MaxLogins
    BY <1>0, <1>1 DEF SignIn
  <2>5. error' = None /\ authenticating' = TRUE /\ out' = FALSE
        /\ UNCHANGED <<session, stored, form, shown, loading, mutating, loads, calls, newest,
                       issued, expired, book>>
    BY <1>1 DEF SignIn, gatewayVars
  <2>1. TypeOK'
    BY <2>3, <2>4, <2>5 DEF TypeOK
  <2>2. Unserved' = Unserved /\ book' = book
    BY <1>1 DEF SignIn, Unserved
  <2> QED
    BY <1>0, <1>1, <2>1, <2>2, RoomStays DEF SignIn, gatewayVars
<1>2. CASE SignInWithoutName
  <2>1. TypeOK'
    BY <1>0, <1>2 DEF TypeOK, Errors, SignInWithoutName, gatewayVars, netVars
  <2>2. Unserved' = Unserved /\ UNCHANGED <<book, issued, logins>>
    BY <1>2 DEF SignInWithoutName, Unserved, gatewayVars, netVars
  <2> QED
    BY <1>0, <2>1, <2>2, RoomStays
<1>3. CASE SignOut
  <2>1. TypeOK'
    <3>1. /\ session' = None /\ stored' = None /\ shown' = Empty /\ form' = None
          /\ error' = None
          /\ loading' = FALSE /\ out' = TRUE
          /\ UNCHANGED <<mutating, authenticating, loads, calls, logins, newest, issued,
                         expired, book, faults>>
      BY <1>3 DEF SignOut, gatewayVars, netVars
    <3> QED
      BY <3>1, EmptyBooks DEF TypeOK
  <2>2. Unserved' = Unserved /\ UNCHANGED <<book, issued, logins>>
    BY <1>3 DEF SignOut, Unserved, gatewayVars, netVars
  <2> QED
    BY <1>0, <2>1, <2>2, RoomStays
<1>4. CASE Refresh
  <2> DEFINE none == [l \in Loads |-> None]
  <2>1. /\ session' = stored /\ stored' = stored /\ form' = None /\ shown' = Empty
        /\ mutating' = FALSE /\ authenticating' = FALSE /\ logins' = 0
        /\ UNCHANGED <<issued, expired, book, out, faults>>
    BY <1>4 DEF Refresh, gatewayVars
  <2>7. calls' = [m \in Calls |->
             IF calls[m] # None /\ calls[m].stage \in {"sent", "adrift"}
               THEN [calls[m] EXCEPT !.stage = "adrift"] ELSE None]
    BY <1>4 DEF Refresh
  <2>2. none \in [Loads -> LoadRecords \cup {None}]
    OBVIOUS
  <2>3. /\ loads' \in [Loads -> LoadRecords \cup {None}]
        /\ newest' \in 0..MaxLoads /\ loading' \in BOOLEAN /\ error' = None
    <3>1. CASE stored = None
      <4>1. loads' = none /\ newest' = 0 /\ loading' = FALSE /\ error' = None
        BY <1>4, <3>1 DEF Refresh
      <4>2. loads' \in [Loads -> LoadRecords \cup {None}]
        BY <4>1, <2>2
      <4>3. newest' \in 0..MaxLoads
        BY <1>0, <4>1
      <4>4. loading' \in BOOLEAN /\ error' = None
        BY <4>1
      <4> QED
        BY <4>2, <4>3, <4>4
    <3>2. CASE stored # None
      <4>1. stored \in Sessions /\ StartLoad(none, stored, None)
        BY <1>4, <3>2 DEF Refresh, TypeOK
      <4>2. /\ loads' \in [Loads -> LoadRecords \cup {None}]
            /\ newest' \in 1..MaxLoads
            /\ loading' = TRUE /\ error' = None
        <5> HIDE DEF none
        <5> QED
          BY <4>1, <2>2, LoadStarts
      <4> QED
        BY <1>0, <4>2
    <3> QED
      BY <3>1, <3>2
  <2>4. calls' \in [Calls -> CallRecords \cup {None}]
    <3>1. \A m \in Calls : calls[m] # None =>
            [calls[m] EXCEPT !.stage = "adrift"] \in CallRecords
      BY DEF TypeOK, CallRecords, Stages
    <3> QED
      BY <2>7, <3>1
  <2>5. TypeOK'
    <3>1. /\ session' \in Sessions \cup {None} /\ stored' \in Sessions \cup {None}
          /\ stored' = session'
      BY <2>1 DEF TypeOK
    <3>2. form' \in Addresses \cup {None} /\ shown' \in Books /\ mutating' \in BOOLEAN
          /\ authenticating' \in BOOLEAN
      BY <2>1, EmptyBooks DEF TypeOK
    <3>3. logins' \in 0..MaxLogins /\ book' \in Books /\ issued' \in 0..MaxSessions
          /\ expired' \subseteq 1..issued' /\ out' \in BOOLEAN
          /\ faults' \subseteq {"overtaken", "late", "others", "kicked", "twice"}
      BY <1>0, <2>1 DEF TypeOK
    <3> QED
      BY <2>3, <2>4, <3>1, <3>2, <3>3 DEF TypeOK
  <2>6. Unserved' \subseteq Unserved
    <3>2. \A m \in Calls : m \notin Unserved => calls'[m] = None
      BY <2>7 DEF Unserved
    <3>3. Unserved' \subseteq Unserved
      BY <3>2 DEF Unserved
    <3> QED
      BY <3>3
  <2> QED
    BY <1>0, <2>1, <2>5, <2>6, RoomStays
<1>5. CASE SignedIn
  <2>1. issued' = issued + 1 /\ issued' \in Sessions /\ logins' = logins - 1 /\ logins' \in Nat
        /\ issued' <= MaxSessions
    BY <1>0, <1>5, UnservedCount DEF SignedIn, RoomLeft, Sessions
  <2>2. loads \in [Loads -> LoadRecords \cup {None}] /\ StartLoad(loads, issued', None)
    BY <1>5 DEF SignedIn, TypeOK
  <2>3. /\ loads' \in [Loads -> LoadRecords \cup {None}]
        /\ newest' \in 1..MaxLoads /\ loading' = TRUE /\ error' = None
    BY <2>1, <2>2, LoadStarts
  <2>4. TypeOK'
    <3>1. /\ stored' = issued' /\ session' = issued' /\ authenticating' = FALSE
          /\ UNCHANGED <<form, shown, mutating, calls, expired, book, out, faults>>
      BY <1>5 DEF SignedIn
    <3>2. issued' \in 0..MaxSessions /\ expired' \subseteq 1..issued'
      BY <1>0, <2>1, <3>1 DEF TypeOK
    <3>3. logins' \in 0..MaxLogins /\ newest' \in 0..MaxLoads
      BY <1>0, <2>1, <2>3 DEF TypeOK
    <3> QED
      BY <2>1, <2>3, <3>1, <3>2, <3>3 DEF TypeOK
  <2>5. Unserved' = Unserved /\ book' = book
    BY <1>5 DEF SignedIn, Unserved
  <2> QED
    BY <1>0, <2>1, <2>4, <2>5, RoomStays
<1>6. CASE SignInFails
  <2>1. TypeOK'
    <3>1. logins' \in 0..MaxLogins
      BY <1>0, <1>6 DEF SignInFails, TypeOK
    <3>2. error' = "failed" /\ authenticating' = FALSE
          /\ UNCHANGED <<session, stored, form, shown, loading, mutating, loads, calls, newest,
                         issued, expired, book, out, faults>>
      BY <1>6 DEF SignInFails, gatewayVars
    <3> QED
      BY <3>1, <3>2 DEF TypeOK, Errors
  <2>2. /\ Unserved' = Unserved /\ UNCHANGED <<book, issued>>
        /\ logins' = logins - 1 /\ logins > 0
    BY <1>6 DEF SignInFails, Unserved, gatewayVars
  <2> QED
    BY <1>0, <2>1, <2>2, RoomStays
<1> QED
  BY <1>1, <1>2, <1>3, <1>4, <1>5, <1>6

\* A load that ends.
LEMMA CallEnds ==
  ASSUME TypeOK, NEW l \in Loads, loads[l] # None, EndCallOf(l)
  PROVE  /\ form' \in Addresses \cup {None}
         /\ calls' \in [Calls -> CallRecords \cup {None}]
         /\ Unserved' \subseteq Unserved
         /\ \A n \in Calls : calls'[n] = calls[n] \/ (calls'[n] = None /\ LoadOf(l, n))
         /\ \A n \in Calls : LoadOf(l, n) => calls'[n] = None
<1>1. loads[l] \in LoadRecords /\ loads[l].call \in Calls \cup {None}
  BY DEF TypeOK, LoadRecords
<1>2. /\ form \in Addresses \cup {None}
      /\ calls \in [Calls -> CallRecords \cup {None}]
  BY DEF TypeOK
<1>3. CASE loads[l].call = None
  <2>1. form' = form /\ calls' = calls
    BY <1>3 DEF EndCallOf
  <2> QED
    BY <1>2, <1>3, <2>1 DEF Unserved, LoadOf
<1>4. CASE loads[l].call # None
  <2>1. calls' = [calls EXCEPT ![loads[l].call] = None]
        /\ form' \in Addresses \cup {None}
    BY <1>2, <1>4 DEF EndCallOf
  <2>4. loads[l].call \in Calls
    BY <1>1, <1>4
  <2>5. calls' \in [Calls -> CallRecords \cup {None}]
    BY <1>2, <2>1, <2>4
  <2>6. \A n \in Calls : n # loads[l].call => calls'[n] = calls[n]
    BY <1>2, <2>1, <2>4
  <2>7. calls'[loads[l].call] = None /\ LoadOf(l, loads[l].call)
    BY <1>2, <1>4, <2>1, <2>4 DEF LoadOf
  <2>2. /\ calls' \in [Calls -> CallRecords \cup {None}]
        /\ \A n \in Calls : calls'[n] = calls[n] \/ (calls'[n] = None /\ LoadOf(l, n))
        /\ \A n \in Calls : LoadOf(l, n) => calls'[n] = None
    BY <2>5, <2>6, <2>7 DEF LoadOf
  <2>3. Unserved' \subseteq Unserved
    BY <2>2 DEF Unserved
  <2> QED
    BY <2>1, <2>2, <2>3
<1> QED
  BY <1>3, <1>4

LEMMA LoadEnds ==
  ASSUME TypeOK, NEW l \in Loads, loads' = [loads EXCEPT ![l] = None]
  PROVE  /\ loads' \in [Loads -> LoadRecords \cup {None}]
         /\ \A k \in Loads : loads'[k] = IF k = l THEN None ELSE loads[k]
BY DEF TypeOK

\* A load that has all its answers has lists and a history.
LEMMA GotBooks ==
  ASSUME TypeOK, NEW l \in Loads, loads[l] # None, \A p \in Parts : loads[l].got[p] # None
  PROVE  loads[l].got \in Books
<1>1. loads[l].got \in Received
  BY DEF TypeOK, LoadRecords
<1>2. /\ loads[l].got.blacklist # None /\ loads[l].got.whitelist # None
      /\ loads[l].got.history # None
  BY DEF Parts, Policies
<1> QED
  BY <1>1, <1>2 DEF Received, Books

\* An answer comes in.
LEMMA ReadGets ==
  ASSUME TypeOK, NEW l \in Loads, NEW p \in Parts, Read(l, p)
  PROVE  /\ loads' \in [Loads -> LoadRecords \cup {None}]
         /\ \A k \in Loads : k # l => loads'[k] = loads[k]
         /\ loads'[l] # None /\ loads'[l].session = loads[l].session
         /\ loads'[l].call = loads[l].call
         /\ \A q \in Parts : loads'[l].got[q] = IF q = p THEN book[p] ELSE loads[l].got[q]
<1>1. /\ loads[l] \in LoadRecords /\ loads[l].got \in Received /\ book \in Books
      /\ loads \in [Loads -> LoadRecords \cup {None}]
  BY DEF TypeOK, LoadRecords, Read
<1> DEFINE got == [loads[l].got EXCEPT ![p] = book[p]]
           load == [loads[l] EXCEPT !.got = got]
<1>2. got \in Received /\ \A q \in Parts : got[q] = IF q = p THEN book[p] ELSE loads[l].got[q]
  <2>1. CASE p = "blacklist"
    BY <1>1, <2>1 DEF Received, Books, Parts, Policies
  <2>2. CASE p = "whitelist"
    BY <1>1, <2>2 DEF Received, Books, Parts, Policies
  <2>3. CASE p = "history"
    BY <1>1, <2>3 DEF Received, Books, Parts, Policies
  <2> QED
    BY <2>1, <2>2, <2>3 DEF Parts, Policies
<1>3. loads' = [loads EXCEPT ![l] = load]
  BY <1>1 DEF Read, LoadRecords
<1> HIDE DEF got
<1>4. /\ load \in LoadRecords /\ load.session = loads[l].session /\ load.call = loads[l].call
      /\ load.got = got
  BY <1>1, <1>2 DEF LoadRecords
<1> HIDE DEF load
<1>5. load # None
  BY <1>4, NoneAssumption
<1> QED
  BY <1>1, <1>2, <1>3, <1>4, <1>5

LEMMA TypedLoads ==
  ASSUME TypeOK, RoomLeft, NEW l \in Loads,
         Arrive(l) \/ LoadDenied(l) \/ LoadFails(l) \/ \E p \in Parts : Read(l, p)
  PROVE  TypeOK' /\ RoomLeft'
<1>0. logins <= MaxSessions - issued
  BY DEF RoomLeft
<1>1. CASE Arrive(l)
  <2>1. /\ shown' = loads[l].got /\ loading' = FALSE /\ mutating' = Saving(l)
        /\ loads' = [loads EXCEPT ![l] = None]
        /\ EndCallOf(l) /\ loads[l] # None
        /\ UNCHANGED <<session, stored, authenticating, error, logins, newest, issued, expired,
                       book, out>>
    BY <1>1 DEF Arrive, gatewayVars
  <2>2. shown' \in Books
    BY <1>1, <2>1, GotBooks DEF Arrive
  <2>3. mutating' \in BOOLEAN
    BY <2>1 DEF Saving
  <2>4. faults' \subseteq {"overtaken", "late", "others", "kicked", "twice"}
    BY <1>1 DEF Arrive, Happens, TypeOK
  <2>5. TypeOK'
    BY <2>1, <2>2, <2>3, <2>4, CallEnds, LoadEnds DEF TypeOK
  <2> QED
    BY <1>0, <2>1, <2>5, CallEnds, RoomStays
<1>2. CASE LoadDenied(l)
  <2>1. /\ session' = None /\ stored' = None /\ shown' = Empty /\ loading' = FALSE
        /\ mutating' = FALSE /\ error' = "expired"
        /\ loads' = [loads EXCEPT ![l] = None]
        /\ EndCallOf(l) /\ loads[l] # None
        /\ UNCHANGED <<authenticating, logins, newest, issued, expired, book, out>>
    BY <1>2 DEF LoadDenied, Unauthorized, gatewayVars
  <2>2. faults' \subseteq {"overtaken", "late", "others", "kicked", "twice"}
    BY <1>2 DEF LoadDenied, Unauthorized, Happens, TypeOK
  <2>3. TypeOK'
    BY <2>1, <2>2, CallEnds, LoadEnds, EmptyBooks DEF TypeOK, Errors
  <2> QED
    BY <1>0, <2>1, <2>3, CallEnds, RoomStays
<1>3. CASE LoadFails(l)
  <2>1. /\ loading' = FALSE /\ error' = "failed" /\ mutating' = Saving(l)
        /\ loads' = [loads EXCEPT ![l] = None]
        /\ EndCallOf(l) /\ loads[l] # None
        /\ UNCHANGED <<session, stored, shown, authenticating, logins, newest, issued, expired,
                       book, out, faults>>
    BY <1>3 DEF LoadFails, gatewayVars
  <2>2. mutating' \in BOOLEAN
    BY <2>1 DEF Saving
  <2>3. TypeOK'
    BY <2>1, <2>2, CallEnds, LoadEnds DEF TypeOK, Errors
  <2> QED
    BY <1>0, <2>1, <2>3, CallEnds, RoomStays
<1>4. ASSUME NEW p \in Parts, Read(l, p)
      PROVE  TypeOK' /\ RoomLeft'
  <2>1. UNCHANGED <<session, stored, form, shown, loading, mutating, authenticating, error,
                    calls, logins, newest, issued, expired, book, out, faults>>
    BY <1>4 DEF Read, stateVars, gatewayVars
  <2>2. TypeOK'
    BY <1>4, <2>1, ReadGets DEF TypeOK
  <2>3. Unserved' = Unserved
    BY <2>1 DEF Unserved
  <2> QED
    BY <1>0, <2>1, <2>2, <2>3, RoomStays
<1> QED
  BY <1>1, <1>2, <1>3, <1>4

\* A mutation that changes its stage, or ends.
LEMMA CallMoves ==
  ASSUME TypeOK, NEW m \in Calls, NEW k \in CallRecords \cup {None},
         calls' = [calls EXCEPT ![m] = k]
  PROVE  /\ calls' \in [Calls -> CallRecords \cup {None}]
         /\ calls'[m] = k
         /\ \A n \in Calls : n # m => calls'[n] = calls[n]
         /\ (k = None \/ k.stage \notin {"sent", "adrift"}) => Unserved' = Unserved \ {m}
         /\ k # None /\ k.stage \in {"sent", "adrift"} => Unserved' = Unserved \cup {m}
<1>1. /\ calls' \in [Calls -> CallRecords \cup {None}]
      /\ calls'[m] = k
      /\ \A n \in Calls : n # m => calls'[n] = calls[n]
  BY DEF TypeOK
<1>2. (k = None \/ k.stage \notin {"sent", "adrift"}) => Unserved' = Unserved \ {m}
  BY <1>1 DEF Unserved
<1>3. k # None /\ k.stage \in {"sent", "adrift"} => Unserved' = Unserved \cup {m}
  BY <1>1 DEF Unserved
<1> QED
  BY <1>1, <1>2, <1>3

\* The record of a call at another stage.
At(k, s) == [k EXCEPT !.stage = s]

LEMMA AtStage ==
  ASSUME NEW k \in CallRecords, NEW s \in Stages
  PROVE  /\ At(k, s) \in CallRecords /\ At(k, s) # None
         /\ At(k, s).stage = s
         /\ At(k, s).session = k.session /\ At(k, s).number = k.number
         /\ At(k, s).confirm = k.confirm /\ At(k, s).seen = k.seen
<1>1. /\ At(k, s) \in CallRecords
      /\ At(k, s).stage = s
      /\ At(k, s).session = k.session /\ At(k, s).number = k.number
      /\ At(k, s).confirm = k.confirm /\ At(k, s).seen = k.seen
  BY DEF At, CallRecords
<1> QED
  BY <1>1, NoneAssumption

\* What an answer from gateway and backend does.
LEMMA ServeMoves ==
  ASSUME TypeOK, RoomLeft, NEW m \in Calls, Serve(m)
  PROVE  /\ m \in Unserved /\ calls[m] \in CallRecords /\ calls[m].stage = "sent"
         /\ \E k \in CallRecords :
              /\ calls' = [calls EXCEPT ![m] = k]
              /\ k.confirm = calls[m].confirm /\ k.seen = calls[m].seen
              /\ \/ /\ k.stage \in {"denied", "refused"} /\ k.number = calls[m].number
                    /\ book' = book
                 \/ /\ k.stage = "done" /\ k.number = book.history + 1
                    /\ ~ NeedsConfirmation(calls[m])
                    /\ book' \in Books /\ book'.history = book.history + 1
         /\ UNCHANGED <<session, stored, form, shown, loading, mutating, authenticating, error,
                        loads, logins, newest, issued, expired, out, faults>>
<1>1. /\ m \in Unserved /\ calls[m] \in CallRecords /\ calls[m].stage = "sent"
      /\ calls \in [Calls -> CallRecords \cup {None}]
  BY DEF Serve, TypeOK, Unserved
<1>2. UNCHANGED <<session, stored, form, shown, loading, mutating, authenticating, error,
                  loads, logins, newest, issued, expired, out, faults>>
  BY DEF Serve, stateVars, gatewayVars
<1>3. book.history \in Nat /\ book.history < MaxRows /\ MaxRows \in Nat
  <2>1. Cardinality(Unserved) # 0
    BY <1>1, UnservedCount, FS_EmptySet
  <2> QED
    BY <2>1, UnservedCount, ConsoleAssumption DEF TypeOK, RoomLeft, Books
<1>4. CASE calls[m].session \in expired
  <2>1. calls' = [calls EXCEPT ![m] = At(calls[m], "denied")] /\ book' = book
    BY <1>1, <1>4 DEF Serve, At
  <2> QED
    BY <1>1, <1>2, <2>1, AtStage DEF Stages
<1>5. CASE calls[m].session \notin expired /\ NeedsConfirmation(calls[m])
  <2>1. calls' = [calls EXCEPT ![m] = At(calls[m], "refused")] /\ book' = book
    BY <1>1, <1>5 DEF Serve, At
  <2> QED
    BY <1>1, <1>2, <2>1, AtStage DEF Stages
<1>6. CASE calls[m].session \notin expired /\ ~ NeedsConfirmation(calls[m])
  <2> DEFINE k == [calls[m] EXCEPT !.stage = "done", !.number = book.history + 1]
  <2>1. calls' = [calls EXCEPT ![m] = k] /\ book' = Mutated(calls[m])
    BY <1>1, <1>6 DEF Serve
  <2>2. k \in CallRecords /\ k.confirm = calls[m].confirm /\ k.seen = calls[m].seen
        /\ k.stage = "done" /\ k.number = book.history + 1
    <3>1. book.history + 1 \in 0..MaxRows /\ "done" \in Stages
      BY <1>3 DEF Stages
    <3> QED
      BY <1>1, <3>1 DEF CallRecords
  <2>3. book' \in Books /\ book'.history = book.history + 1
    BY <1>1, <1>3, <2>1, MutatedBooks DEF CallRecords
  <2> HIDE DEF k
  <2> QED
    BY <1>1, <1>2, <1>6, <2>1, <2>2, <2>3
<1> QED
  BY <1>4, <1>5, <1>6

\* What the page sends.
LEMMA AskMoves ==
  ASSUME TypeOK, Asks
  PROVE  /\ session # None /\ ~ mutating /\ mutating' = TRUE /\ error' = None
         /\ Cardinality(Unserved) < MaxRows - book.history
         /\ \E m \in Calls, k \in CallRecords :
              /\ calls[m] = None /\ calls' = [calls EXCEPT ![m] = k]
              /\ k.stage = "sent" /\ k.number = 0 /\ (k.confirm => k.seen)
         /\ UNCHANGED <<session, stored, form, shown, loading, authenticating, loads, logins,
                        newest, issued, expired, book, out, faults>>
<1>1. PICK p \in Policies, adds \in BOOLEAN, x \in Addresses, confirm \in BOOLEAN :
        Send(p, adds, x, confirm) /\ (confirm => x \in shown.whitelist)
  BY DEF Asks
<1>2. /\ session # None /\ ~ mutating /\ mutating' = TRUE /\ error' = None
      /\ UNCHANGED <<session, stored, form, shown, loading, authenticating, loads, logins,
                     newest, issued, expired, book, out, faults>>
  BY <1>1 DEF Send, gatewayVars
<1>3. Cardinality(Unserved) < MaxRows - book.history
  <2>1. book.history + Cardinality(Unserved) < MaxRows
    BY <1>1 DEF Send, RowsLeft, Unserved
  <2> QED
    BY <2>1, UnservedCount, ConsoleAssumption DEF TypeOK, Books
<1> DEFINE k == [session |-> session, policy |-> p, adds |-> adds, address |-> x,
                 confirm |-> confirm, seen |-> x \in shown.whitelist, stage |-> "sent",
                 number |-> 0]
<1>4. /\ session \in Sessions /\ (x \in shown.whitelist) \in BOOLEAN /\ 0 \in 0..MaxRows
      /\ "sent" \in Stages
  BY <1>2, ConsoleAssumption DEF TypeOK, Stages
<1>5. k \in CallRecords /\ k.stage = "sent" /\ k.number = 0 /\ (k.confirm => k.seen)
  BY <1>1, <1>4 DEF CallRecords
<1>6. \E m \in Calls : calls[m] = None /\ calls' = [calls EXCEPT ![m] = k]
  BY <1>1 DEF Send, Free
<1> HIDE DEF k
<1> QED
  BY <1>2, <1>3, <1>5, <1>6

\* A mutation that succeeded is followed by a load of its own.
LEMMA SavedMoves ==
  ASSUME TypeOK, NEW m \in Calls, Saved(m)
  PROVE  /\ calls[m] \in CallRecords /\ calls[m].stage = "done"
         /\ calls' = [calls EXCEPT ![m] = At(calls[m], "reloading")]
         /\ StartLoad(loads, calls[m].session, m)
         /\ \E l \in Loads : Begins(loads, calls[m].session, m, l)
         /\ loads' \in [Loads -> LoadRecords \cup {None}]
         /\ newest' \in 1..MaxLoads
         /\ loading' = TRUE /\ error' = None
         /\ UNCHANGED <<session, stored, form, shown, mutating, authenticating, logins, issued,
                        expired, book, out, faults>>
<1>1. /\ calls[m] \in CallRecords /\ calls[m].stage = "done"
      /\ calls \in [Calls -> CallRecords \cup {None}]
      /\ loads \in [Loads -> LoadRecords \cup {None}]
      /\ StartLoad(loads, calls[m].session, m)
  BY DEF Saved, TypeOK
<1>2. calls' = [calls EXCEPT ![m] = At(calls[m], "reloading")]
  BY <1>1 DEF Saved, At
<1>3. UNCHANGED <<session, stored, form, shown, mutating, authenticating, logins, issued,
                  expired, book, out, faults>>
  BY DEF Saved, gatewayVars
<1>4. calls[m].session \in Sessions
  BY <1>1 DEF CallRecords
<1> QED
  BY <1>1, <1>2, <1>3, <1>4, LoadStarts

\* What a mutation given up may still do.
LEMMA DriftMoves ==
  ASSUME TypeOK, RoomLeft, NEW m \in Calls, Drift(m)
  PROVE  /\ m \in Unserved /\ calls[m] \in CallRecords /\ calls[m].stage = "adrift"
         /\ calls' = [calls EXCEPT ![m] = None]
         /\ \/ UNCHANGED <<book, faults>>
            \/ /\ faults' = faults \cup {"late"}
               /\ book' \in Books /\ book'.history = book.history + 1
         /\ UNCHANGED <<session, stored, form, shown, loading, mutating, authenticating, error,
                        loads, logins, newest, issued, expired, out>>
<1>1. /\ m \in Unserved /\ calls[m] \in CallRecords /\ calls[m].stage = "adrift"
      /\ calls' = [calls EXCEPT ![m] = None]
  BY DEF Drift, TypeOK, Unserved
<1>2. UNCHANGED <<session, stored, form, shown, loading, mutating, authenticating, error,
                  loads, logins, newest, issued, expired, out>>
  BY DEF Drift, stateVars, gatewayVars
<1>3. book.history \in Nat /\ book.history < MaxRows /\ MaxRows \in Nat
  <2>1. Cardinality(Unserved) # 0
    BY <1>1, UnservedCount, FS_EmptySet
  <2> QED
    BY <2>1, UnservedCount, ConsoleAssumption DEF TypeOK, RoomLeft, Books
<1>4. CASE UNCHANGED <<book, faults>>
  BY <1>1, <1>2, <1>4
<1>5. CASE book' = Mutated(calls[m]) /\ Happens("late", TRUE)
  <2>1. faults' = faults \cup {"late"}
    BY <1>5 DEF Happens
  <2>2. book' \in Books /\ book'.history = book.history + 1
    BY <1>1, <1>3, <1>5, MutatedBooks DEF CallRecords
  <2> QED
    BY <1>1, <1>2, <2>1, <2>2
<1> QED
  BY <1>4, <1>5 DEF Drift

\* Another operator's move.
LEMMA OtherMovesBooks ==
  ASSUME TypeOK, NEW p \in Policies, NEW x \in Addresses, OtherMoves(p, x)
  PROVE  /\ book' \in Books /\ book'.history = book.history + 1
         /\ Cardinality(Unserved) < MaxRows - book.history
         /\ faults' = faults \cup {"others"}
         /\ UNCHANGED <<session, stored, form, shown, loading, mutating, authenticating, error,
                        loads, calls, logins, newest, issued, expired, out>>
<1>1. Cardinality(Unserved) < MaxRows - book.history /\ book.history \in Nat /\ MaxRows \in Nat
  <2>1. book.history + Cardinality(Unserved) < MaxRows
    BY DEF OtherMoves, RowsLeft, Unserved
  <2> QED
    BY <2>1, UnservedCount, ConsoleAssumption DEF TypeOK, Books
<1>2. book.history < MaxRows
  BY <1>1, UnservedCount
<1>3. book' = Mutated([policy |-> p, adds |-> TRUE, address |-> x])
      /\ faults' = faults \cup {"others"}
  BY DEF OtherMoves, Happens
<1>4. book' \in Books /\ book'.history = book.history + 1
  BY <1>2, <1>3, MutatedBooks
<1>5. UNCHANGED <<session, stored, form, shown, loading, mutating, authenticating, error,
                  loads, calls, logins, newest, issued, expired, out>>
  BY DEF OtherMoves, stateVars, netVars, gatewayVars
<1> QED
  BY <1>1, <1>3, <1>4, <1>5

\* A mutation that ends with an error.
LEMMA FailMoves ==
  ASSUME TypeOK, NEW m \in Calls, Refused(m) \/ Denied(m) \/ CallFails(m)
  PROVE  /\ calls[m] \in CallRecords /\ mutating' = FALSE
         /\ \/ /\ error' = "expired" /\ session' = None /\ stored' = None
               /\ shown' = Empty /\ loading' = FALSE
            \/ /\ error' \in {"conflict", "failed"}
               /\ UNCHANGED <<session, stored, shown, loading>>
         /\ \/ /\ calls[m].stage \in {"refused", "denied", "done"}
               /\ calls' = [calls EXCEPT ![m] = None]
            \/ /\ calls[m].stage = "sent"
               /\ calls' = [calls EXCEPT ![m] = At(calls[m], "adrift")]
         /\ UNCHANGED <<form, authenticating, loads, logins, newest, issued, expired, book,
                        out, faults>>
<1>0. calls[m] # None => calls[m] \in CallRecords
  BY DEF TypeOK
<1>1. CASE Refused(m)
  BY <1>0, <1>1 DEF Refused, gatewayVars
<1>2. CASE Denied(m)
  BY <1>0, <1>2 DEF Denied, gatewayVars
<1>3. CASE CallFails(m)
  BY <1>0, <1>3 DEF CallFails, gatewayVars, At
<1> QED
  BY <1>1, <1>2, <1>3

\* A mutation that was sent, or given up, and is now served or over.
LEMMA RoomMade ==
  ASSUME TypeOK, RoomLeft, NEW m \in Unserved, Unserved' = Unserved \ {m},
         book' = book \/ book'.history = book.history + 1, UNCHANGED <<issued, logins>>
  PROVE  RoomLeft'
<1>1. /\ Cardinality(Unserved') \in Nat /\ Cardinality(Unserved') = Cardinality(Unserved) - 1
      /\ Cardinality(Unserved) \in Nat
  BY UnservedCount, UnservedLess
<1>2. book.history \in Nat /\ MaxRows \in Nat
  BY ConsoleAssumption DEF TypeOK, Books
<1>3. Cardinality(Unserved') <= MaxRows - book'.history
  BY <1>1, <1>2 DEF RoomLeft
<1> QED
  BY <1>3 DEF RoomLeft

LEMMA TypedCalls ==
  ASSUME TypeOK, RoomLeft, NEW m \in Calls,
         Serve(m) \/ Saved(m) \/ Refused(m) \/ Denied(m) \/ CallFails(m) \/ Drift(m)
  PROVE  TypeOK' /\ RoomLeft'
<1>0. logins <= MaxSessions - issued /\ MaxLoads \in Nat
  BY ConsoleAssumption DEF RoomLeft
<1>1. CASE Serve(m)
  <2>1. PICK k \in CallRecords :
          /\ calls' = [calls EXCEPT ![m] = k]
          /\ k.stage \in {"denied", "refused", "done"}
          /\ \/ book' = book
             \/ book' \in Books /\ book'.history = book.history + 1
    BY <1>1, ServeMoves
  <2>2. /\ m \in Unserved
        /\ UNCHANGED <<session, stored, form, shown, loading, mutating, authenticating, error,
                       loads, logins, newest, issued, expired, out, faults>>
    BY <1>1, ServeMoves
  <2>3. Unserved' = Unserved \ {m} /\ calls' \in [Calls -> CallRecords \cup {None}]
    BY <2>1, CallMoves, NoneAssumption
  <2>4. TypeOK'
    BY <2>1, <2>2, <2>3 DEF TypeOK
  <2> QED
    BY <2>1, <2>2, <2>3, <2>4, RoomMade
<1>2. CASE Saved(m)
  <2>1. /\ calls' \in [Calls -> CallRecords \cup {None}] /\ Unserved' = Unserved \ {m}
    <3>1. calls[m] \in CallRecords /\ calls' = [calls EXCEPT ![m] = At(calls[m], "reloading")]
      BY <1>2, SavedMoves
    <3>2. /\ At(calls[m], "reloading") \in CallRecords
          /\ At(calls[m], "reloading").stage = "reloading"
      BY <3>1, AtStage DEF Stages
    <3> QED
      BY <3>1, <3>2, CallMoves
  <2>2. /\ loads' \in [Loads -> LoadRecords \cup {None}] /\ newest' \in 1..MaxLoads
        /\ loading' = TRUE /\ error' = None
        /\ UNCHANGED <<session, stored, form, shown, mutating, authenticating, logins, issued,
                       expired, book, out, faults>>
    BY <1>2, SavedMoves
  <2>3. newest' \in 0..MaxLoads
    BY <1>0, <2>2
  <2>4. TypeOK'
    BY <2>1, <2>2, <2>3 DEF TypeOK
  <2> QED
    BY <1>0, <2>1, <2>2, <2>4, RoomStays
<1>3. CASE Refused(m) \/ Denied(m) \/ CallFails(m)
  <2>1. /\ mutating' = FALSE
        /\ UNCHANGED <<form, authenticating, loads, logins, newest, issued, expired, book, out,
                       faults>>
        /\ \/ /\ error' = "expired" /\ session' = None /\ stored' = None
              /\ shown' = Empty /\ loading' = FALSE
           \/ /\ error' \in {"conflict", "failed"}
              /\ UNCHANGED <<session, stored, shown, loading>>
    BY <1>3, FailMoves
  <2>2. calls' \in [Calls -> CallRecords \cup {None}] /\ Unserved' \subseteq Unserved
    <3>1. CASE calls' = [calls EXCEPT ![m] = None]
      <4>1. /\ calls' \in [Calls -> CallRecords \cup {None}]
            /\ Unserved' = Unserved \ {m}
        BY <3>1, CallMoves
      <4> QED
        BY <4>1
    <3>2. CASE calls[m].stage = "sent" /\ calls' = [calls EXCEPT ![m] = At(calls[m], "adrift")]
      <4>1. calls[m] \in CallRecords /\ m \in Unserved
        BY <1>3, <3>2, FailMoves, NoneAssumption DEF Unserved
      <4>2. At(calls[m], "adrift") \in CallRecords /\ At(calls[m], "adrift").stage = "adrift"
        BY <4>1, AtStage DEF Stages
      <4>3. /\ calls' \in [Calls -> CallRecords \cup {None}]
            /\ Unserved' = Unserved \cup {m}
        BY <3>2, <4>2, CallMoves, NoneAssumption
      <4> QED
        BY <4>1, <4>3
    <3> QED
      BY <1>3, <3>1, <3>2, FailMoves
  <2>3. TypeOK'
    BY <2>1, <2>2, EmptyBooks DEF TypeOK, Errors
  <2> QED
    BY <1>0, <2>1, <2>2, <2>3, RoomStays
<1>4. CASE Drift(m)
  <2>1. /\ m \in Unserved
        /\ calls' = [calls EXCEPT ![m] = None]
        /\ \/ UNCHANGED <<book, faults>>
           \/ /\ faults' = faults \cup {"late"}
              /\ book' \in Books /\ book'.history = book.history + 1
        /\ UNCHANGED <<session, stored, form, shown, loading, mutating, authenticating, error,
                       loads, logins, newest, issued, expired, out>>
    BY <1>4, DriftMoves
  <2>2. Unserved' = Unserved \ {m} /\ calls' \in [Calls -> CallRecords \cup {None}]
    BY <2>1, CallMoves
  <2>3. TypeOK'
    BY <2>1, <2>2 DEF TypeOK
  <2> QED
    BY <2>1, <2>2, <2>3, RoomMade
<1> QED
  BY <1>1, <1>2, <1>3, <1>4

LEMMA TypedRest ==
  ASSUME TypeOK, RoomLeft,
         \/ (\E x \in Addresses : Type(x)) \/ Asks \/ Expire \/ UNCHANGED vars
         \/ \E p \in Policies, x \in Addresses : OtherMoves(p, x)
  PROVE  TypeOK' /\ RoomLeft'
<1>0. /\ logins <= MaxSessions - issued /\ MaxRows \in Nat /\ book.history \in Nat
      /\ Cardinality(Unserved) \in Nat
  BY ConsoleAssumption, UnservedCount DEF RoomLeft, TypeOK, Books
<1>1. ASSUME NEW x \in Addresses, Type(x)
      PROVE  TypeOK' /\ RoomLeft'
  <2>1. form' = x
        /\ UNCHANGED <<session, stored, shown, loading, mutating, authenticating, error, loads,
                       calls, logins, newest, issued, expired, book, out, faults>>
    BY <1>1 DEF Type, netVars, gatewayVars
  <2>2. TypeOK'
    BY <2>1 DEF TypeOK
  <2> QED
    BY <1>0, <2>1, <2>2, RoomStays DEF Unserved
<1>2. CASE Asks
  <2>1. PICK m \in Calls, k \in CallRecords :
          /\ calls[m] = None /\ calls' = [calls EXCEPT ![m] = k] /\ k.stage = "sent"
    BY <1>2, AskMoves
  <2>2. m \notin Unserved /\ Unserved' = Unserved \cup {m}
        /\ calls' \in [Calls -> CallRecords \cup {None}]
    BY <2>1, CallMoves, NoneAssumption DEF Unserved
  <2>3. /\ mutating' = TRUE /\ error' = None /\ Cardinality(Unserved) < MaxRows - book.history
        /\ UNCHANGED <<session, stored, form, shown, loading, authenticating, loads, logins,
                       newest, issued, expired, book, out, faults>>
    BY <1>2, AskMoves
  <2>4. TypeOK'
    BY <2>2, <2>3 DEF TypeOK
  <2>5. Cardinality(Unserved') = Cardinality(Unserved) + 1
    BY <2>2, UnservedMore
  <2>6. Cardinality(Unserved') <= MaxRows - book'.history
    BY <1>0, <2>3, <2>5
  <2> QED
    BY <1>0, <2>3, <2>4, <2>6 DEF RoomLeft
<1>3. CASE Expire
  <2>1. /\ expired' \subseteq 1..issued
        /\ UNCHANGED <<session, stored, form, shown, loading, mutating, authenticating, error,
                       loads, calls, logins, newest, issued, book, out, faults>>
    BY <1>3 DEF Expire, TypeOK, stateVars, netVars
  <2>2. TypeOK'
    BY <2>1 DEF TypeOK
  <2> QED
    BY <1>0, <2>1, <2>2, RoomStays DEF Unserved
<1>4. CASE UNCHANGED vars
  <2>1. UNCHANGED <<session, stored, form, shown, loading, mutating, authenticating, error,
                    loads, calls, logins, newest, issued, expired, book, out, faults>>
    BY <1>4 DEF vars, stateVars, netVars, gatewayVars
  <2>2. TypeOK'
    BY <2>1 DEF TypeOK
  <2> QED
    BY <1>0, <2>1, <2>2, RoomStays DEF Unserved
<1>5. ASSUME NEW p \in Policies, NEW x \in Addresses, OtherMoves(p, x)
      PROVE  TypeOK' /\ RoomLeft'
  <2>1. /\ book' \in Books /\ book'.history = book.history + 1
        /\ Cardinality(Unserved) < MaxRows - book.history
        /\ faults' = faults \cup {"others"}
        /\ UNCHANGED <<session, stored, form, shown, loading, mutating, authenticating, error,
                       loads, calls, logins, newest, issued, expired, out>>
    BY <1>5, OtherMovesBooks
  <2>2. TypeOK'
    BY <2>1 DEF TypeOK
  <2>3. Unserved' = Unserved
    BY <2>1 DEF Unserved
  <2>4. Cardinality(Unserved') <= MaxRows - book'.history
    BY <1>0, <2>1, <2>3
  <2> QED
    BY <1>0, <2>1, <2>2, <2>4 DEF RoomLeft
<1> QED
  BY <1>1, <1>2, <1>3, <1>4, <1>5

\* Every step keeps the types.
LEMMA Typed ==
  ASSUME TypeOK, RoomLeft, [Next]_vars
  PROVE  TypeOK' /\ RoomLeft'
BY Steps, TypedSession, TypedLoads, TypedCalls, TypedRest

-----------------------------------------------------------------------------
(* The rest of the invariant. *)

\* Loads that go on keep their mutation.
LEMMA TiesStay ==
  ASSUME TypeOK, TypeOK', LoadsTied, LoadsFollow, book'.history >= book.history,
         \A l \in Loads, m \in Calls : LoadOf(l, m)' =>
           /\ LoadOf(l, m) /\ calls'[m] = calls[m]
           /\ \/ loads'[l].got.history = loads[l].got.history
              \/ loads'[l].got.history = book.history,
         \A m \in Calls : calls'[m] # None =>
           \/ calls[m] # None /\ calls'[m].number = calls[m].number
           \/ calls'[m].number <= book'.history
  PROVE  LoadsTied' /\ LoadsFollow'
<1>1. book.history \in Nat /\ book'.history \in Nat
  BY DEF TypeOK, Books
<1>2. LoadsTied'
  BY DEF LoadsTied
<1>3. \A m \in Calls : calls[m] # None => calls[m].number \in Nat
  BY DEF TypeOK, CallRecords
<1>4. \A m \in Calls : calls'[m] # None => calls'[m].number <= book'.history
  BY <1>1, <1>3 DEF LoadsFollow
<1>5. ASSUME NEW l \in Loads, NEW m \in Calls, LoadOf(l, m)', loads'[l].got.history # None
      PROVE  loads'[l].got.history >= calls'[m].number
  <2>1. calls'[m] = calls[m] /\ LoadOf(l, m) /\ calls[m] # None
    BY <1>5 DEF LoadsTied
  <2>2. CASE loads'[l].got.history = loads[l].got.history
    BY <1>5, <2>1, <2>2 DEF LoadsFollow
  <2>3. CASE loads'[l].got.history = book.history
    BY <1>1, <1>3, <2>1, <2>3 DEF LoadsFollow
  <2> QED
    BY <1>5, <2>2, <2>3
<1> QED
  BY <1>2, <1>4, <1>5 DEF LoadsFollow

\* A mutation that no load ends may move.
LEMMA TiesOfCall ==
  ASSUME TypeOK, TypeOK', LoadsTied, LoadsFollow, book'.history >= book.history,
         loads' = loads, NEW m \in Calls,
         calls[m] = None \/ calls[m].stage # "reloading",
         \A n \in Calls : n # m => calls'[n] = calls[n],
         calls'[m] # None =>
           \/ calls[m] # None /\ calls'[m].number = calls[m].number
           \/ calls'[m].number <= book'.history
  PROVE  LoadsTied' /\ LoadsFollow'
<1>1. \A l \in Loads : ~ LoadOf(l, m)
  BY DEF LoadsTied
<1>2. \A l \in Loads, n \in Calls : LoadOf(l, n)' =>
        LoadOf(l, n) /\ calls'[n] = calls[n] /\ loads'[l].got.history = loads[l].got.history
  BY <1>1 DEF LoadOf
<1> QED
  BY <1>2, TiesStay

\* What was asked stays as it was.
LEMMA SeenStays ==
  ASSUME ConfirmedIsSeen,
         \A m \in Calls : calls'[m] # None =>
           \/ /\ calls[m] # None
              /\ calls'[m].confirm = calls[m].confirm /\ calls'[m].seen = calls[m].seen
           \/ calls'[m].confirm => calls'[m].seen
  PROVE  ConfirmedIsSeen'
BY DEF ConfirmedIsSeen

LEMMA FlagStays ==
  ASSUME FlagHolds, "kicked" \notin faults' => "kicked" \notin faults,
         \A m \in Calls : Listening(m)' => Listening(m), mutating' = mutating
  PROVE  FlagHolds'
BY DEF FlagHolds

LEMMA TurnsStay ==
  ASSUME SignInsInTurn, "twice" \notin faults' => "twice" \notin faults,
         session' = session \/ session' = None, UNCHANGED <<logins, authenticating, out>>
  PROVE  SignInsInTurn'
BY DEF SignInsInTurn

\* Steps that leave the loads, the mutations and the lists alone.
LEMMA Quiet ==
  ASSUME TypeOK, TypeOK', Safe, UNCHANGED <<loads, calls, book, mutating>>,
         faults \subseteq faults'
  PROVE  LoadsTied' /\ FlagHolds' /\ ConfirmedIsSeen' /\ LoadsFollow'
<1>1. LoadsTied' /\ LoadsFollow'
  <2>1. book'.history >= book.history
    BY DEF TypeOK, Books
  <2> QED
    BY <2>1, TiesStay DEF Safe, LoadOf
<1>2. FlagHolds'
  BY FlagStays DEF Safe, Listening
<1>3. ConfirmedIsSeen'
  BY SeenStays DEF Safe
<1> QED
  BY <1>1, <1>2, <1>3

LEMMA QuietSteps ==
  ASSUME TypeOK, TypeOK', Safe,
         \/ SignIn \/ SignInWithoutName \/ SignOut \/ SignInFails \/ Expire
         \/ (\E x \in Addresses : Type(x)) \/ UNCHANGED vars
  PROVE  Safe'
<1>1. UNCHANGED <<loads, calls, book, mutating>> /\ faults \subseteq faults'
  <2>1. SignIn => UNCHANGED <<loads, calls, book, mutating>> /\ faults \subseteq faults'
    BY DEF SignIn, Happens
  <2>2. SignOut \/ SignInWithoutName \/ (\E x \in Addresses : Type(x)) =>
          UNCHANGED <<loads, calls, book, mutating, faults>>
    BY DEF SignOut, SignInWithoutName, Type, netVars
  <2>3. SignInFails \/ Expire \/ UNCHANGED vars =>
          UNCHANGED <<loads, calls, book, mutating, faults>>
    BY DEF SignInFails, Expire, vars, stateVars, netVars
  <2> QED
    BY <2>1, <2>2, <2>3
<1>2. LoadsTied' /\ FlagHolds' /\ ConfirmedIsSeen' /\ LoadsFollow'
  BY <1>1, Quiet
<1>3. /\ logins \in Nat /\ MaxLogins \in Nat
      /\ SignInsInTurn /\ WillBeCurrent /\ SignedOutHoldsNothing
  BY ConsoleAssumption DEF TypeOK, Safe
<1>4. SignInsInTurn'
  <2>1. CASE SignIn
    <3>1. /\ session = None /\ session' = None /\ authenticating' = TRUE /\ out' = FALSE
          /\ logins' = logins + 1
          /\ "twice" \notin faults' => ~ authenticating /\ "twice" \notin faults
      BY <2>1 DEF SignIn, Happens
    <3>2. "twice" \notin faults' => logins = 0
      BY <1>3, <3>1 DEF SignInsInTurn
    <3> QED
      BY <3>1, <3>2 DEF SignInsInTurn
  <2>2. CASE SignOut
    <3>1. session # None /\ session' = None /\ UNCHANGED <<logins, authenticating, faults>>
      BY <2>2 DEF SignOut, netVars
    <3>2. "twice" \notin faults' => logins = 0
      BY <1>3, <3>1 DEF SignInsInTurn
    <3> QED
      BY <3>1, <3>2 DEF SignInsInTurn
  <2>3. CASE SignInFails
    <3>1. logins > 0 /\ logins' = logins - 1 /\ UNCHANGED <<session, out, faults>>
      BY <2>3 DEF SignInFails
    <3>2. "twice" \notin faults' => logins' = 0
      BY <1>3, <3>1 DEF SignInsInTurn
    <3> QED
      BY <1>3, <3>1, <3>2 DEF SignInsInTurn
  <2>4. CASE SignInWithoutName \/ Expire \/ (\E x \in Addresses : Type(x)) \/ UNCHANGED vars
    <3>1. UNCHANGED <<session, logins, authenticating, out, faults>>
      BY <2>4 DEF SignInWithoutName, Expire, Type, vars, stateVars, netVars
    <3> QED
      BY <1>3, <3>1, TurnsStay
  <2> QED
    BY <2>1, <2>2, <2>3, <2>4
<1>5. WillBeCurrent'
  <2>1. CASE SignIn \/ SignInWithoutName \/ SignOut
    <3>1. session' = None
      BY <2>1 DEF SignIn, SignInWithoutName, SignOut
    <3> QED
      BY <3>1 DEF WillBeCurrent
  <2>2. CASE SignInFails
    <3>1. error' # None
      BY <2>2, NoneAssumption DEF SignInFails, Errors
    <3> QED
      BY <3>1 DEF WillBeCurrent
  <2>3. CASE Expire \/ (\E x \in Addresses : Type(x)) \/ UNCHANGED vars
    <3>1. UNCHANGED <<session, error, faults, calls, newest, loads, shown, book>>
      BY <2>3 DEF Expire, Type, vars, stateVars, netVars
    <3> QED
      BY <1>3, <3>1 DEF WillBeCurrent, Pending, UpToDate
  <2> QED
    BY <2>1, <2>2, <2>3
<1>6. SignedOutHoldsNothing'
  <2>1. CASE SignOut
    BY <2>1 DEF SignOut, SignedOutHoldsNothing
  <2>2. CASE ~ SignOut
    <3>1. UNCHANGED <<session, shown>>
      BY <2>2 DEF SignIn, SignInWithoutName, SignInFails, Expire, Type, vars, stateVars
    <3> QED
      BY <1>1, <1>3, <3>1 DEF SignedOutHoldsNothing
  <2> QED
    BY <2>1, <2>2
<1> QED
  BY <1>2, <1>4, <1>5, <1>6 DEF Safe

\* A load that has just begun has nothing that is old.
LEMMA BeginsCurrent ==
  ASSUME NEW open \in [Loads -> LoadRecords \cup {None}],
         NEW s \in Sessions, NEW m \in Calls \cup {None}, StartLoad(open, s, m)
  PROVE  WillBeCurrent'
<1>1. PICK l \in Loads : Begins(open, s, m, l)
  BY LoadStarts
<1> QED
  BY <1>1 DEF WillBeCurrent, UpToDate, Loads, Begins

LEMMA BeginSteps ==
  ASSUME TypeOK, TypeOK', Safe, SignedIn \/ Refresh
  PROVE  Safe'
<1>0. /\ logins \in Nat /\ book.history \in Nat
      /\ LoadsTied /\ FlagHolds /\ SignInsInTurn /\ ConfirmedIsSeen /\ LoadsFollow
      /\ SignedOutHoldsNothing
      /\ loads \in [Loads -> LoadRecords \cup {None}]
      /\ calls \in [Calls -> CallRecords \cup {None}]
  BY ConsoleAssumption DEF TypeOK, Safe, Books
<1>1. CASE SignedIn
  <2>1. /\ logins > 0 /\ logins' = logins - 1 /\ issued' \in Sessions /\ session' = issued'
        /\ StartLoad(loads, issued', None)
        /\ UNCHANGED <<shown, mutating, calls, book, out, faults>>
    <3>1. logins > 0 /\ logins' = logins - 1 /\ session' = issued'
          /\ StartLoad(loads, issued', None)
          /\ UNCHANGED <<shown, mutating, calls, book, out, faults>>
      BY <1>1 DEF SignedIn
    <3>2. session' \in Sessions
      BY <1>1, ConsoleAssumption DEF SignedIn, Sessions, TypeOK
    <3> QED
      BY <3>1, <3>2
  <2>2. PICK l \in Loads : Begins(loads, issued', None, l)
    BY <1>0, <2>1, LoadStarts
  <2>3. \A k \in Loads, m \in Calls : LoadOf(k, m)' => LoadOf(k, m) /\ loads'[k] = loads[k]
    BY <1>0, <2>2 DEF LoadOf, Begins
  <2>4. LoadsTied' /\ LoadsFollow'
    BY <1>0, <2>1, <2>3, TiesStay
  <2>5. FlagHolds'
    BY <1>0, <2>1, FlagStays DEF Listening
  <2>6. SignInsInTurn'
    BY <1>0, <2>1 DEF SignInsInTurn
  <2>7. ConfirmedIsSeen'
    BY <1>0, <2>1, SeenStays
  <2>8. WillBeCurrent'
    BY <1>0, <2>1, BeginsCurrent
  <2>9. SignedOutHoldsNothing'
    BY <2>1, ConsoleAssumption DEF SignedOutHoldsNothing, Sessions
  <2> QED
    BY <2>4, <2>5, <2>6, <2>7, <2>8, <2>9 DEF Safe
<1>2. CASE Refresh
  <2> DEFINE none == [l \in Loads |-> None]
  <2>1. /\ session' = session /\ session \in Sessions \cup {None} /\ shown' = Empty
        /\ mutating' = FALSE /\ logins' = 0 /\ UNCHANGED <<book, out, faults>>
    BY <1>2 DEF Refresh, TypeOK
  <2>2. \A m \in Calls : \/ calls'[m] = None
                         \/ calls[m] # None /\ calls'[m] = At(calls[m], "adrift")
    BY <1>2 DEF Refresh, At
  <2>3. \A m \in Calls : calls'[m] # None =>
          /\ calls[m] # None /\ calls'[m].stage = "adrift"
          /\ calls'[m].number = calls[m].number
          /\ calls'[m].confirm = calls[m].confirm /\ calls'[m].seen = calls[m].seen
    BY <1>0, <2>2, AtStage DEF Stages
  <2>4. none \in [Loads -> LoadRecords \cup {None}] /\ \A k \in Loads : none[k] = None
    OBVIOUS
  <2>5. IF session = None THEN loads' = none ELSE StartLoad(none, session, None)
    BY <1>2 DEF Refresh, TypeOK
  <2> HIDE DEF none
  <2>6. \A k \in Loads, m \in Calls : ~ LoadOf(k, m)'
    <3>1. CASE session = None
      BY <2>4, <2>5, <3>1 DEF LoadOf
    <3>2. CASE session # None
      <4>1. session \in Sessions
        BY <2>1, <3>2
      <4>2. PICK l \in Loads : Begins(none, session, None, l)
        BY <2>4, <2>5, <3>2, <4>1, LoadStarts
      <4> QED
        BY <2>4, <4>2 DEF LoadOf, Begins
    <3> QED
      BY <3>1, <3>2
  <2>7. LoadsTied' /\ LoadsFollow'
    BY <1>0, <2>1, <2>3, <2>6, TiesStay
  <2>8. FlagHolds'
    BY <2>3 DEF FlagHolds, Listening
  <2>9. SignInsInTurn'
    BY <1>0, <2>1 DEF SignInsInTurn
  <2>10. ConfirmedIsSeen'
    BY <1>0, <2>3, SeenStays
  <2>11. WillBeCurrent'
    <3>1. CASE session = None
      BY <2>1, <3>1 DEF WillBeCurrent
    <3>2. CASE session # None
      BY <2>1, <2>4, <2>5, <3>2, BeginsCurrent
    <3> QED
      BY <3>1, <3>2
  <2>12. SignedOutHoldsNothing'
    BY <2>1 DEF SignedOutHoldsNothing
  <2> QED
    BY <2>7, <2>8, <2>9, <2>10, <2>11, <2>12 DEF Safe
<1> QED
  BY <1>1, <1>2

\* One more answer of a load.
LEMMA ReadSafe ==
  ASSUME TypeOK, TypeOK', Safe, NEW l \in Loads, NEW p \in Parts, Read(l, p)
  PROVE  Safe'
<1>0. /\ LoadsTied /\ FlagHolds /\ SignInsInTurn /\ ConfirmedIsSeen /\ LoadsFollow
      /\ WillBeCurrent /\ SignedOutHoldsNothing /\ book.history \in Nat
  BY DEF Safe, TypeOK, Books
<1>1. UNCHANGED <<session, shown, mutating, authenticating, error, calls, logins, newest, book,
                  out, faults>>
  BY DEF Read, stateVars
<1>2. /\ loads[l] # None /\ \A k \in Loads : k # l => loads'[k] = loads[k]
      /\ loads'[l] # None /\ loads'[l].session = loads[l].session
      /\ loads'[l].call = loads[l].call
      /\ \A q \in Parts : loads'[l].got[q] = IF q = p THEN book[p] ELSE loads[l].got[q]
  BY ReadGets DEF Read
<1>3. loads'[l].got.history = loads[l].got.history \/ loads'[l].got.history = book.history
  BY <1>2 DEF Parts
<1>4. \A k \in Loads, m \in Calls : LoadOf(k, m)' =>
        /\ LoadOf(k, m)
        /\ \/ loads'[k].got.history = loads[k].got.history
           \/ loads'[k].got.history = book.history
  BY <1>2, <1>3 DEF LoadOf
<1>5. LoadsTied' /\ LoadsFollow'
  BY <1>0, <1>1, <1>4, TiesStay
<1>6. FlagHolds'
  BY <1>0, <1>1, FlagStays DEF Listening
<1>7. SignInsInTurn'
  BY <1>0, <1>1, TurnsStay
<1>8. ConfirmedIsSeen'
  BY <1>0, <1>1, SeenStays
<1>9. WillBeCurrent'
  <2>1. UpToDate(l) => UpToDate(l)'
    BY <1>1, <1>2 DEF UpToDate
  <2>2. \A k \in Loads : k # l => UpToDate(k)' = UpToDate(k)
    BY <1>1, <1>2 DEF UpToDate
  <2>3. newest \in Loads \cup {0}
    BY ConsoleAssumption DEF TypeOK, Loads
  <2>4. \A m \in Calls : Pending(m)' = Pending(m)
    BY <1>1 DEF Pending
  <2>5. SUFFICES ASSUME session # None, error = None,
                        faults \cap {"overtaken", "late", "others"} = {},
                        ~ \E m \in Calls : Pending(m)
                 PROVE  \/ /\ newest # 0 /\ loads'[newest] # None
                           /\ loads'[newest].session = session => UpToDate(newest)'
                        \/ (newest = 0 \/ loads'[newest] = None) /\ shown = book
    BY <1>1, <2>4 DEF WillBeCurrent
  <2>8. \/ /\ newest # 0 /\ loads[newest] # None
           /\ loads[newest].session = session => UpToDate(newest)
        \/ (newest = 0 \/ loads[newest] = None) /\ shown = book
    BY <1>0, <2>5 DEF WillBeCurrent
  <2>9. newest' = newest
    BY <1>1
  <2>6. CASE newest = l
    BY <1>2, <2>1, <2>6, <2>8, <2>9
  <2>7. CASE newest # l
    BY <1>2, <2>2, <2>3, <2>7, <2>8, <2>9
  <2> QED
    BY <2>6, <2>7
<1>10. SignedOutHoldsNothing'
  BY <1>0, <1>1 DEF SignedOutHoldsNothing
<1> QED
  BY <1>5, <1>6, <1>7, <1>8, <1>9, <1>10 DEF Safe

\* A load ends, and with it the mutation it was part of.
LEMMA EndingSafe ==
  ASSUME TypeOK, TypeOK', Safe, NEW l \in Loads, loads[l] # None, EndCallOf(l),
         loads' = [loads EXCEPT ![l] = None], UNCHANGED <<authenticating, logins, book, out>>,
         session' = session \/ session' = None,
         "twice" \notin faults' => "twice" \notin faults,
         \/ mutating' = Saving(l) /\ ("kicked" \notin faults' => "kicked" \notin faults)
         \/ "kicked" \notin faults' => "kicked" \notin faults /\ ~ mutating
  PROVE  /\ LoadsTied' /\ FlagHolds' /\ SignInsInTurn' /\ ConfirmedIsSeen' /\ LoadsFollow'
         /\ \A m \in Calls : Pending(m) => Pending(m)'
<1>0. /\ LoadsTied /\ FlagHolds /\ SignInsInTurn /\ ConfirmedIsSeen /\ LoadsFollow
      /\ book.history \in Nat
  BY DEF Safe, TypeOK, Books
<1>1. \A k \in Loads : loads'[k] = IF k = l THEN None ELSE loads[k]
  BY LoadEnds
<1>2. /\ \A n \in Calls : calls'[n] = calls[n] \/ (calls'[n] = None /\ LoadOf(l, n))
      /\ \A n \in Calls : LoadOf(l, n) => calls'[n] = None
  BY CallEnds
<1>3. \A k \in Loads, n \in Calls : LoadOf(k, n)' =>
        k # l /\ LoadOf(k, n) /\ loads'[k] = loads[k] /\ calls'[n] = calls[n]
  <2> SUFFICES ASSUME NEW k \in Loads, NEW n \in Calls, LoadOf(k, n)'
               PROVE  k # l /\ LoadOf(k, n) /\ loads'[k] = loads[k] /\ calls'[n] = calls[n]
    OBVIOUS
  <2>1. k # l /\ loads'[k] = loads[k] /\ LoadOf(k, n)
    BY <1>1 DEF LoadOf
  <2>2. ~ LoadOf(l, n)
    BY <1>0, <2>1 DEF LoadsTied
  <2> QED
    BY <1>2, <2>1, <2>2
<1>4. \A n \in Calls : calls'[n] # None => calls'[n] = calls[n] /\ ~ LoadOf(l, n)
  BY <1>2
<1>5. LoadsTied' /\ LoadsFollow'
  BY <1>0, <1>3, <1>4, TiesStay
<1>6. \A n \in Calls : Listening(n)' => Listening(n) /\ ~ LoadOf(l, n)
  BY <1>4 DEF Listening
<1>7. FlagHolds'
  <2> SUFFICES ASSUME "kicked" \notin faults'
               PROVE  /\ \A m, n \in Calls : Listening(m)' /\ Listening(n)' => m = n
                      /\ \A m \in Calls : Listening(m)' => mutating'
    BY DEF FlagHolds
  <2>1. "kicked" \notin faults
    OBVIOUS
  <2>2. /\ \A m, n \in Calls : Listening(m) /\ Listening(n) => m = n
        /\ \A m \in Calls : Listening(m) => mutating
    BY <1>0, <2>1 DEF FlagHolds
  <2>3. \A m \in Calls : Listening(m)' => mutating'
    <3> SUFFICES ASSUME NEW m \in Calls, Listening(m)'
                 PROVE  mutating'
      OBVIOUS
    <3>1. Listening(m) /\ ~ LoadOf(l, m) /\ mutating
      BY <1>6, <2>2
    <3>2. mutating' = Saving(l)
      BY <3>1
    <3>3. loads[l].call = None
      <4> SUFFICES ASSUME loads[l].call # None
                   PROVE  FALSE
        OBVIOUS
      <4>1. loads[l].call \in Calls
        BY DEF TypeOK, LoadRecords
      <4>2. LoadOf(l, loads[l].call)
        BY DEF LoadOf
      <4>3. Listening(loads[l].call)
        BY <1>0, <4>1, <4>2 DEF LoadsTied, Listening
      <4>4. loads[l].call = m
        BY <2>2, <3>1, <4>1, <4>3
      <4> QED
        BY <3>1, <4>2, <4>4
    <3> QED
      BY <3>1, <3>2, <3>3 DEF Saving
  <2> QED
    BY <1>6, <2>2, <2>3
<1>8. SignInsInTurn'
  BY <1>0, TurnsStay
<1>9. ConfirmedIsSeen'
  BY <1>0, <1>4, SeenStays
<1>10. \A m \in Calls : Pending(m) => Pending(m)'
  <2> SUFFICES ASSUME NEW m \in Calls, Pending(m)
               PROVE  Pending(m)'
    OBVIOUS
  <2>1. ~ LoadOf(l, m)
    BY <1>0 DEF LoadsTied, Pending
  <2>2. calls'[m] = calls[m]
    BY <1>2, <2>1
  <2> QED
    BY <2>2 DEF Pending
<1> QED
  BY <1>5, <1>7, <1>8, <1>9, <1>10

LEMMA EndedSafe ==
  ASSUME TypeOK, TypeOK', Safe, NEW l \in Loads, Arrive(l) \/ LoadDenied(l) \/ LoadFails(l)
  PROVE  Safe'
<1>0. WillBeCurrent /\ SignedOutHoldsNothing
  BY DEF Safe
<1>1. CASE Arrive(l)
  <2>1. /\ loads[l] # None /\ EndCallOf(l) /\ mutating' = Saving(l)
        /\ loads' = [loads EXCEPT ![l] = None]
        /\ \A p \in Parts : loads[l].got[p] # None
        /\ shown' = loads[l].got
        /\ UNCHANGED <<session, error, newest, authenticating, logins, book, out>>
    BY <1>1 DEF Arrive
  <2>2. /\ \A f \in {"twice", "kicked", "late", "others"} : f \notin faults' => f \notin faults
        /\ "overtaken" \notin faults' =>
             /\ "overtaken" \notin faults /\ loads[l].session = session
             /\ l = newest \/ (newest # 0 /\ loads[newest] # None)
    BY <1>1 DEF Arrive, Happens, Overtaken
  <2>3. /\ LoadsTied' /\ FlagHolds' /\ SignInsInTurn' /\ ConfirmedIsSeen' /\ LoadsFollow'
        /\ \A m \in Calls : Pending(m) => Pending(m)'
    BY <2>1, <2>2, EndingSafe
  <2>4. WillBeCurrent'
    <3> SUFFICES ASSUME session # None, error = None,
                        faults' \cap {"overtaken", "late", "others"} = {},
                        ~ \E m \in Calls : Pending(m)'
                 PROVE  \/ /\ newest # 0 /\ loads'[newest] # None
                           /\ loads'[newest].session = session => UpToDate(newest)'
                        \/ loads'[newest] = None /\ shown' = book
      BY <2>1 DEF WillBeCurrent
    <3>1. /\ faults \cap {"overtaken", "late", "others"} = {}
          /\ loads[l].session = session
          /\ l = newest \/ (newest # 0 /\ loads[newest] # None)
      BY <2>2
    <3>2. ~ \E m \in Calls : Pending(m)
      BY <2>3
    <3>3. \/ newest # 0 /\ loads[newest] # None
             /\ (loads[newest].session = session => UpToDate(newest))
          \/ newest = 0 \/ loads[newest] = None
      BY <1>0, <3>1, <3>2 DEF WillBeCurrent
    <3>4. CASE l = newest
      <4>1. UpToDate(l)
        <5>1. l # 0
          BY DEF Loads
        <5> QED
          BY <2>1, <3>1, <3>3, <3>4, <5>1
      <4>2. \A p \in Parts : shown'[p] = book[p]
        BY <2>1, <4>1 DEF UpToDate
      <4>3. shown' \in Books /\ book \in Books
        BY DEF TypeOK
      <4>4. shown' = book
        BY <4>2, <4>3 DEF Books, Parts, Policies
      <4>5. loads'[newest] = None
        BY <2>1, <3>4, LoadEnds
      <4> QED
        BY <4>4, <4>5
    <3>5. CASE l # newest
      <4>1. newest # 0 /\ loads[newest] # None
        BY <3>1, <3>5
      <4>2. newest \in Loads
        BY <4>1, ConsoleAssumption DEF TypeOK, Loads
      <4>3. loads'[newest] = loads[newest]
        BY <2>1, <3>5, <4>2 DEF TypeOK
      <4>4. UpToDate(newest)' <=> UpToDate(newest)
        BY <2>1, <4>3 DEF UpToDate
      <4> QED
        BY <3>3, <4>1, <4>3, <4>4
    <3> QED
      BY <3>4, <3>5
  <2>5. SignedOutHoldsNothing'
    <3>1. loads[l].session # None
      BY <2>1, ConsoleAssumption DEF TypeOK, LoadRecords, Sessions
    <3> QED
      BY <2>1, <2>2, <3>1 DEF SignedOutHoldsNothing
  <2> QED
    BY <2>3, <2>4, <2>5 DEF Safe
<1>2. CASE LoadDenied(l)
  <2>1. /\ loads[l] # None /\ EndCallOf(l) /\ loads' = [loads EXCEPT ![l] = None]
        /\ session' = None /\ shown' = Empty
        /\ UNCHANGED <<authenticating, logins, book, out>>
        /\ "twice" \notin faults' => "twice" \notin faults
        /\ "kicked" \notin faults' => "kicked" \notin faults /\ ~ mutating
    BY <1>2 DEF LoadDenied, Unauthorized, Happens
  <2>2. LoadsTied' /\ FlagHolds' /\ SignInsInTurn' /\ ConfirmedIsSeen' /\ LoadsFollow'
    BY <2>1, EndingSafe
  <2>3. WillBeCurrent' /\ SignedOutHoldsNothing'
    BY <2>1 DEF WillBeCurrent, SignedOutHoldsNothing
  <2> QED
    BY <2>2, <2>3 DEF Safe
<1>3. CASE LoadFails(l)
  <2>1. /\ loads[l] # None /\ EndCallOf(l) /\ mutating' = Saving(l)
        /\ loads' = [loads EXCEPT ![l] = None] /\ error' = "failed"
        /\ UNCHANGED <<session, shown, authenticating, logins, book, out, faults>>
    BY <1>3 DEF LoadFails
  <2>2. LoadsTied' /\ FlagHolds' /\ SignInsInTurn' /\ ConfirmedIsSeen' /\ LoadsFollow'
    BY <2>1, EndingSafe
  <2>3. error' # None
    BY <2>1, NoneAssumption DEF Errors
  <2>4. WillBeCurrent' /\ SignedOutHoldsNothing'
    BY <1>0, <2>1, <2>3 DEF WillBeCurrent, SignedOutHoldsNothing
  <2> QED
    BY <2>2, <2>4 DEF Safe
<1> QED
  BY <1>1, <1>2, <1>3

\* A mutation that is not being followed by a load moves on, or ends.
LEMMA CallSafe ==
  ASSUME TypeOK, TypeOK', Safe, NEW m \in Calls,
         Serve(m) \/ Refused(m) \/ Denied(m) \/ CallFails(m), RoomLeft
  PROVE  Safe'
<1>0. /\ LoadsTied /\ FlagHolds /\ SignInsInTurn /\ ConfirmedIsSeen /\ LoadsFollow
      /\ SignedOutHoldsNothing
      /\ book.history \in Nat /\ calls \in [Calls -> CallRecords \cup {None}]
  BY DEF Safe, TypeOK, Books
<1>1. CASE Serve(m)
  <2>1. PICK k \in CallRecords :
          /\ calls' = [calls EXCEPT ![m] = k]
          /\ k.confirm = calls[m].confirm /\ k.seen = calls[m].seen
          /\ \/ /\ k.stage \in {"denied", "refused"} /\ k.number = calls[m].number
                /\ book' = book
             \/ /\ k.stage = "done" /\ k.number = book.history + 1
                /\ book'.history = book.history + 1
    BY <1>1, ServeMoves
  <2>2. /\ calls[m] \in CallRecords /\ calls[m].stage = "sent" /\ calls[m] # None /\ k # None
        /\ UNCHANGED <<session, shown, mutating, authenticating, error, loads, logins, newest,
                       out, faults>>
    BY <1>1, ServeMoves, NoneAssumption
  <2>3. calls'[m] = k /\ \A n \in Calls : n # m => calls'[n] = calls[n]
    BY <1>0, <2>1
  <2>4. LoadsTied' /\ LoadsFollow'
    <3>1. /\ book'.history >= book.history
          /\ k.number = calls[m].number \/ k.number <= book'.history
      BY <1>0, <2>1
    <3> QED
      BY <1>0, <2>2, <2>3, <3>1, TiesOfCall
  <2>5. FlagHolds'
    <3>1. \A n \in Calls : Listening(n)' => Listening(n)
      BY <2>2, <2>3 DEF Listening
    <3> QED
      BY <1>0, <2>2, <3>1, FlagStays
  <2>6. SignInsInTurn'
    BY <1>0, <2>2, TurnsStay
  <2>7. ConfirmedIsSeen'
    BY <1>0, <2>1, <2>2, <2>3, SeenStays
  <2>8. WillBeCurrent'
    <3>1. Pending(m)'
      BY <2>1, <2>2, <2>3 DEF Pending
    <3> QED
      BY <3>1 DEF WillBeCurrent
  <2>9. SignedOutHoldsNothing'
    BY <1>0, <2>2 DEF SignedOutHoldsNothing
  <2> QED
    BY <2>4, <2>5, <2>6, <2>7, <2>8, <2>9 DEF Safe
<1>2. CASE Refused(m) \/ Denied(m) \/ CallFails(m)
  <2>1. /\ calls[m] \in CallRecords /\ calls[m] # None /\ mutating' = FALSE
        /\ UNCHANGED <<authenticating, loads, logins, book, out, faults>>
    BY <1>2, FailMoves, NoneAssumption
  <2>2. \/ error' = "expired" /\ session' = None /\ shown' = Empty
        \/ error' \in {"conflict", "failed"} /\ UNCHANGED <<session, shown>>
    BY <1>2, FailMoves
  <2>3. /\ calls[m].stage \in {"refused", "denied", "done", "sent"}
        /\ \/ calls' = [calls EXCEPT ![m] = None]
           \/ calls' = [calls EXCEPT ![m] = At(calls[m], "adrift")]
    BY <1>2, FailMoves
  <2>4. /\ \A n \in Calls : n # m => calls'[n] = calls[n]
        /\ \/ calls'[m] = None
           \/ /\ calls'[m].stage = "adrift" /\ calls'[m].number = calls[m].number
              /\ calls'[m].confirm = calls[m].confirm /\ calls'[m].seen = calls[m].seen
    <3>1. CASE calls' = [calls EXCEPT ![m] = None]
      BY <1>0, <3>1
    <3>2. CASE calls' = [calls EXCEPT ![m] = At(calls[m], "adrift")]
      <4>1. /\ calls'[m] = At(calls[m], "adrift")
            /\ \A n \in Calls : n # m => calls'[n] = calls[n]
        BY <1>0, <3>2
      <4> QED
        BY <2>1, <4>1, AtStage DEF Stages
    <3> QED
      BY <2>3, <3>1, <3>2
  <2>5. LoadsTied' /\ LoadsFollow'
    BY <1>0, <2>1, <2>3, <2>4, TiesOfCall
  <2>6. FlagHolds'
    <3>1. Listening(m) /\ ~ Listening(m)'
      BY <2>1, <2>3, <2>4 DEF Listening
    <3>2. \A n \in Calls : Listening(n)' => Listening(n) /\ n # m
      BY <2>4, <3>1 DEF Listening
    <3> QED
      BY <1>0, <2>1, <3>1, <3>2 DEF FlagHolds
  <2>7. SignInsInTurn'
    BY <1>0, <2>1, <2>2, TurnsStay
  <2>8. ConfirmedIsSeen'
    BY <1>0, <2>1, <2>4, SeenStays
  <2>9. WillBeCurrent'
    <3>1. error' # None
      BY <2>2, NoneAssumption DEF Errors
    <3> QED
      BY <3>1 DEF WillBeCurrent
  <2>10. SignedOutHoldsNothing'
    BY <1>0, <2>1, <2>2 DEF SignedOutHoldsNothing
  <2> QED
    BY <2>5, <2>6, <2>7, <2>8, <2>9, <2>10 DEF Safe
<1> QED
  BY <1>1, <1>2

\* A mutation that succeeded has its load begin.
LEMMA SavedSafe ==
  ASSUME TypeOK, TypeOK', Safe, NEW m \in Calls, Saved(m)
  PROVE  Safe'
<1>0. /\ LoadsTied /\ FlagHolds /\ SignInsInTurn /\ ConfirmedIsSeen /\ LoadsFollow
      /\ SignedOutHoldsNothing
      /\ loads \in [Loads -> LoadRecords \cup {None}]
      /\ calls \in [Calls -> CallRecords \cup {None}]
  BY DEF Safe, TypeOK
<1>1. /\ calls[m] \in CallRecords /\ calls[m] # None /\ calls[m].stage = "done"
      /\ calls[m].session \in Sessions
      /\ calls' = [calls EXCEPT ![m] = At(calls[m], "reloading")]
      /\ StartLoad(loads, calls[m].session, m)
      /\ UNCHANGED <<session, shown, mutating, authenticating, logins, book, out, faults>>
  BY SavedMoves, NoneAssumption DEF CallRecords
<1>2. PICK l \in Loads : Begins(loads, calls[m].session, m, l)
  BY SavedMoves
<1>3. /\ \A n \in Calls : n # m => calls'[n] = calls[n]
      /\ calls'[m] # None /\ calls'[m].stage = "reloading"
      /\ calls'[m].number = calls[m].number
      /\ calls'[m].confirm = calls[m].confirm /\ calls'[m].seen = calls[m].seen
  <2>1. calls'[m] = At(calls[m], "reloading") /\ \A n \in Calls : n # m => calls'[n] = calls[n]
    BY <1>0, <1>1
  <2> QED
    BY <1>1, <2>1, AtStage DEF Stages
<1>4. \A k \in Loads, n \in Calls : LoadOf(k, n)' =>
        \/ k = l /\ n = m
        \/ k # l /\ n # m /\ LoadOf(k, n) /\ loads'[k] = loads[k] /\ calls'[n] = calls[n]
  BY <1>0, <1>1, <1>2, <1>3 DEF LoadOf, LoadsTied, Begins
<1>5. LoadsTied'
  BY <1>0, <1>3, <1>4 DEF LoadsTied
<1>6. LoadsFollow'
  <2>1. \A n \in Calls : calls'[n] # None => calls'[n].number <= book'.history
    BY <1>0, <1>1, <1>3 DEF LoadsFollow
  <2>2. loads'[l].got.history = None
    BY <1>2 DEF Begins, Parts
  <2> QED
    BY <1>0, <1>4, <2>1, <2>2 DEF LoadsFollow
<1>7. FlagHolds'
  <2>1. \A n \in Calls : Listening(n)' => Listening(n)
    BY <1>1, <1>3 DEF Listening
  <2> QED
    BY <1>0, <1>1, <2>1, FlagStays
<1>8. SignInsInTurn'
  BY <1>0, <1>1, TurnsStay
<1>9. ConfirmedIsSeen'
  BY <1>0, <1>1, <1>3, SeenStays
<1>10. WillBeCurrent'
  BY <1>0, <1>1, BeginsCurrent
<1>11. SignedOutHoldsNothing'
  BY <1>0, <1>1 DEF SignedOutHoldsNothing
<1> QED
  BY <1>5, <1>6, <1>7, <1>8, <1>9, <1>10, <1>11 DEF Safe

LEMMA AskSafe ==
  ASSUME TypeOK, TypeOK', Safe, Asks
  PROVE  Safe'
<1>0. /\ LoadsTied /\ FlagHolds /\ SignInsInTurn /\ ConfirmedIsSeen /\ LoadsFollow
      /\ book.history \in Nat /\ calls \in [Calls -> CallRecords \cup {None}]
  BY DEF Safe, TypeOK, Books
<1>1. PICK m \in Calls, k \in CallRecords :
        /\ calls[m] = None /\ calls' = [calls EXCEPT ![m] = k]
        /\ k.stage = "sent" /\ k.number = 0 /\ (k.confirm => k.seen)
  BY AskMoves
<1>2. /\ session # None /\ ~ mutating /\ mutating' = TRUE
      /\ UNCHANGED <<session, authenticating, loads, logins, book, out, faults>>
  BY AskMoves
<1>3. calls'[m] = k /\ k # None /\ \A n \in Calls : n # m => calls'[n] = calls[n]
  BY <1>0, <1>1, NoneAssumption
<1>4. LoadsTied' /\ LoadsFollow'
  <2>1. book'.history >= book.history /\ k.number <= book'.history
    BY <1>0, <1>1, <1>2
  <2> QED
    BY <1>0, <1>1, <1>2, <1>3, <2>1, TiesOfCall
<1>5. FlagHolds'
  <2>1. "kicked" \notin faults' => \A n \in Calls : Listening(n)' => n = m
    BY <1>0, <1>2, <1>3 DEF FlagHolds, Listening
  <2> QED
    BY <1>2, <2>1 DEF FlagHolds
<1>6. SignInsInTurn'
  BY <1>0, <1>2, TurnsStay
<1>7. ConfirmedIsSeen'
  BY <1>0, <1>1, <1>3, SeenStays
<1>8. WillBeCurrent'
  <2>1. Pending(m)'
    BY <1>1, <1>3 DEF Pending
  <2> QED
    BY <2>1 DEF WillBeCurrent
<1>9. SignedOutHoldsNothing'
  BY <1>2 DEF SignedOutHoldsNothing
<1> QED
  BY <1>4, <1>5, <1>6, <1>7, <1>8, <1>9 DEF Safe

\* What goes on outside the page.
LEMMA OutsideSafe ==
  ASSUME TypeOK, TypeOK', Safe, RoomLeft,
         \/ \E m \in Calls : Drift(m)
         \/ \E p \in Policies, x \in Addresses : OtherMoves(p, x)
  PROVE  Safe'
<1>0. /\ LoadsTied /\ FlagHolds /\ SignInsInTurn /\ ConfirmedIsSeen /\ LoadsFollow
      /\ WillBeCurrent /\ SignedOutHoldsNothing
      /\ book.history \in Nat /\ calls \in [Calls -> CallRecords \cup {None}]
  BY DEF Safe, TypeOK, Books
<1>1. ASSUME NEW m \in Calls, Drift(m)
      PROVE  Safe'
  <2>1. /\ calls[m].stage = "adrift" /\ calls' = [calls EXCEPT ![m] = None]
        /\ \/ UNCHANGED <<book, faults>>
           \/ faults' = faults \cup {"late"} /\ book'.history = book.history + 1
        /\ UNCHANGED <<session, shown, mutating, authenticating, error, loads, logins, newest,
                       out>>
    BY <1>1, DriftMoves
  <2>2. calls'[m] = None /\ \A n \in Calls : n # m => calls'[n] = calls[n]
    BY <1>0, <2>1
  <2>3. LoadsTied' /\ LoadsFollow'
    <3>1. book'.history >= book.history
      BY <1>0, <2>1
    <3> QED
      BY <1>0, <2>1, <2>2, <3>1, TiesOfCall
  <2>4. FlagHolds'
    <3>1. \A n \in Calls : Listening(n)' => Listening(n)
      BY <2>2 DEF Listening
    <3> QED
      BY <1>0, <2>1, <3>1, FlagStays
  <2>5. SignInsInTurn'
    BY <1>0, <2>1, TurnsStay
  <2>6. ConfirmedIsSeen'
    BY <1>0, <2>2, SeenStays
  <2>7. WillBeCurrent'
    <3>1. CASE faults' = faults \cup {"late"}
      BY <3>1 DEF WillBeCurrent
    <3>2. CASE UNCHANGED <<book, faults>>
      <4>1. \A n \in Calls : Pending(n) => Pending(n)'
        BY <2>1, <2>2 DEF Pending
      <4> QED
        BY <1>0, <2>1, <3>2, <4>1 DEF WillBeCurrent, UpToDate
    <3> QED
      BY <2>1, <3>1, <3>2
  <2>8. SignedOutHoldsNothing'
    BY <1>0, <2>1 DEF SignedOutHoldsNothing
  <2> QED
    BY <2>3, <2>4, <2>5, <2>6, <2>7, <2>8 DEF Safe
<1>2. ASSUME NEW p \in Policies, NEW x \in Addresses, OtherMoves(p, x)
      PROVE  Safe'
  <2>1. /\ book'.history = book.history + 1 /\ faults' = faults \cup {"others"}
        /\ UNCHANGED <<session, shown, mutating, authenticating, error, loads, calls, logins,
                       newest, out>>
    BY <1>2, OtherMovesBooks
  <2>2. LoadsTied' /\ LoadsFollow'
    <3>1. book'.history >= book.history
      BY <1>0, <2>1
    <3> QED
      BY <1>0, <2>1, <3>1, TiesStay DEF LoadOf
  <2>3. FlagHolds'
    BY <1>0, <2>1, FlagStays DEF Listening
  <2>4. SignInsInTurn'
    BY <1>0, <2>1, TurnsStay
  <2>5. ConfirmedIsSeen'
    BY <1>0, <2>1, SeenStays
  <2>6. WillBeCurrent' /\ SignedOutHoldsNothing'
    BY <1>0, <2>1 DEF WillBeCurrent, SignedOutHoldsNothing
  <2> QED
    BY <2>2, <2>3, <2>4, <2>5, <2>6 DEF Safe
<1> QED
  BY <1>1, <1>2

\* Every step keeps the rest.
LEMMA SafeKept ==
  ASSUME TypeOK, TypeOK', Safe, RoomLeft, [Next]_vars
  PROVE  Safe'
BY Steps, QuietSteps, BeginSteps, ReadSafe, EndedSafe, CallSafe, SavedSafe, AskSafe,
   OutsideSafe

LEMMA Started ==
  ASSUME Init
  PROVE  IInv
<1>0. /\ MaxSessions \in Nat /\ MaxLoads \in Nat /\ MaxCalls \in Nat /\ MaxLogins \in Nat
      /\ MaxRows \in Nat
  BY ConsoleAssumption
<1>1. book \in Books /\ book.history = 0
  <2> PICK p \in Policies, s \in SUBSET Addresses : book = [Empty EXCEPT ![p] = s]
    BY DEF Init
  <2>1. CASE p = "blacklist"
    BY <1>0, <2>1 DEF Books, Empty
  <2>2. CASE p = "whitelist"
    BY <1>0, <2>2 DEF Books, Empty
  <2> QED
    BY <2>1, <2>2 DEF Policies
<1>2. TypeOK
  <2>1. shown \in Books
    BY EmptyBooks DEF Init
  <2>2. /\ loads \in [Loads -> LoadRecords \cup {None}]
        /\ calls \in [Calls -> CallRecords \cup {None}]
    BY DEF Init
  <2>3. /\ session = None /\ stored = None /\ form = None /\ error = None /\ out = FALSE
        /\ loading = FALSE /\ mutating = FALSE /\ authenticating = FALSE
        /\ logins = 0 /\ issued = 0 /\ expired = {} /\ newest = 0 /\ faults = {}
    BY DEF Init
  <2>4. /\ logins \in 0..MaxLogins /\ issued \in 0..MaxSessions /\ newest \in 0..MaxLoads
        /\ expired \subseteq 1..issued
        /\ faults \subseteq {"overtaken", "late", "others", "kicked", "twice"}
    BY <1>0, <2>3
  <2>5. out \in BOOLEAN /\ loading \in BOOLEAN /\ mutating \in BOOLEAN
        /\ authenticating \in BOOLEAN
    BY <2>3
  <2> QED
    BY <1>1, <2>1, <2>2, <2>3, <2>4, <2>5 DEF TypeOK
<1>3. RoomLeft
  <2>1. Unserved = {}
    BY DEF Init, Unserved
  <2>2. Cardinality(Unserved) = 0
    BY <2>1, FS_EmptySet
  <2> QED
    BY <1>0, <1>1, <2>2 DEF Init, RoomLeft
<1>4. (\A l \in Loads : loads[l] = None) /\ (\A m \in Calls : calls[m] = None)
  BY DEF Init
<1>5. LoadsTied /\ FlagHolds /\ ConfirmedIsSeen /\ LoadsFollow
  BY <1>4 DEF LoadsTied, LoadOf, FlagHolds, Listening, ConfirmedIsSeen, LoadsFollow
<1>6. SignInsInTurn /\ WillBeCurrent /\ SignedOutHoldsNothing
  BY DEF Init, SignInsInTurn, WillBeCurrent, SignedOutHoldsNothing
<1> QED
  BY <1>2, <1>3, <1>5, <1>6 DEF IInv, Safe

\* The inductive invariant holds in every run of the page.
THEOREM Inductive == Spec => []IInv
<1>1. Init => IInv
  BY Started
<1>2. IInv /\ [Next]_vars => IInv'
  BY Typed, SafeKept DEF IInv
<1> QED
  BY <1>1, <1>2, PTL DEF Spec

-----------------------------------------------------------------------------
(* What follows from it. *)

\* The variables have their types, and the page's token is the stored one, whatever network,
\* gateway and other operators do.
THEOREM TypeCorrect == Spec => []TypeOK
<1>1. IInv => TypeOK
  BY DEF IInv
<1> QED
  BY <1>1, Inductive, PTL

\* A page that has settled without an error shows the backend's lists, unless an answer
\* came after that of a later load, or somebody else moved an address.
THEOREM SettledIsCurrentHolds == Spec => []SettledIsCurrent
<1>1. IInv => SettledIsCurrent
  <2> SUFFICES ASSUME IInv, Settled, faults \cap {"overtaken", "late", "others"} = {}
               PROVE  shown = book
    BY DEF SettledIsCurrent
  <2>1. newest \in Loads \cup {0}
    BY ConsoleAssumption DEF IInv, TypeOK, Loads
  <2>2. newest = 0 \/ loads[newest] = None
    BY <2>1 DEF Settled
  <2>3. ~ \E m \in Calls : Pending(m)
    BY DEF Settled, Pending
  <2> QED
    BY <2>2, <2>3 DEF IInv, Safe, WillBeCurrent, Settled
<1> QED
  BY <1>1, Inductive, PTL

\* A signed-out page holds nobody's lists, unless an answer for an earlier session came late.
THEOREM SignedOutHoldsNothingHolds == Spec => []SignedOutHoldsNothing
<1>1. IInv => SignedOutHoldsNothing
  BY DEF IInv, Safe
<1> QED
  BY <1>1, Inductive, PTL

\* Who signs out stays signed out, through reloads and late answers, short of a second
\* sign-in begun with the Enter key.
THEOREM SignedOutStaysHolds == Spec => []SignedOutStays
<1>1. IInv => SignedOutStays
  BY DEF IInv, TypeOK, Safe, SignInsInTurn, SignedOutStays
<1> QED
  BY <1>1, Inductive, PTL

\* The flag lets one mutation of the page be under way, until a 401 resets it.
THEOREM OneCallAtATimeHolds == Spec => []OneCallAtATime
<1>1. IInv => OneCallAtATime
  <2> SUFFICES ASSUME IInv, "kicked" \notin faults
               PROVE  Cardinality({m \in Calls : Listening(m)}) <= 1
    BY DEF OneCallAtATime
  <2>1. \A m, n \in Calls : Listening(m) /\ Listening(n) => m = n
    BY DEF IInv, Safe, FlagHolds
  <2>2. CASE {m \in Calls : Listening(m)} = {}
    BY <2>2, FS_EmptySet
  <2>3. CASE \E n \in Calls : Listening(n)
    <3>1. PICK n \in Calls : Listening(n)
      BY <2>3
    <3>2. {m \in Calls : Listening(m)} = {n}
      BY <2>1, <3>1
    <3>3. Cardinality({n}) = 1
      BY FS_Singleton
    <3> QED
      BY <3>2, <3>3
  <2> QED
    BY <2>2, <2>3
<1> QED
  BY <1>1, Inductive, PTL

\* A mutation that ends without an error has the page show its audit row, whatever else is
\* loading: its load begins after the answer, and ends nothing but its own mutation.
THEOREM SavedMeansShownHolds == Spec => SavedMeansShown
<1>1. ASSUME IInv, [Next]_vars, NEW l \in Loads, loads[l] # None, loads[l].call # None,
             loads' = [loads EXCEPT ![l] = None], session' # None, error' = None, ~ loading'
      PROVE  shown'.history >= calls[loads[l].call].number
  <2> USE <1>1
  <2>0. /\ TypeOK /\ LoadsTied /\ LoadsFollow /\ loads[l].call \in Calls
        /\ loads \in [Loads -> LoadRecords \cup {None}] /\ loads'[l] = None
    BY DEF IInv, Safe, TypeOK, LoadRecords
  <2>1. CASE \E k \in Loads : Arrive(k)
    <3>1. PICK k \in Loads : Arrive(k)
      BY <2>1
    <3>2. loads[k] # None /\ loads'[k] = None /\ \A j \in Loads : j # k => loads'[j] = loads[j]
      BY <2>0, <3>1 DEF Arrive
    <3>3. k = l
      BY <2>0, <3>2
    <3>4. shown' = loads[l].got /\ loads[l].got.history # None
      BY <3>1, <3>3 DEF Arrive, Parts
    <3>5. LoadOf(l, loads[l].call)
      BY DEF LoadOf
    <3> QED
      BY <2>0, <3>4, <3>5 DEF LoadsFollow
  <2>2. ASSUME NEW k \in Loads, NEW p \in Parts, Read(k, p)
        PROVE  FALSE
    BY <2>0, <2>2, ReadGets
  <2>3. ASSUME NEW k \in Loads, LoadDenied(k) \/ LoadFails(k)
        PROVE  FALSE
    BY <2>3, NoneAssumption DEF LoadDenied, Unauthorized, LoadFails, Errors
  <2>4. CASE SignedIn \/ Refresh
    BY <2>4 DEF SignedIn, Refresh, StartLoad
  <2>5. ASSUME NEW m \in Calls, Saved(m)
        PROVE  FALSE
    BY <2>5 DEF Saved, StartLoad
  <2>6. CASE loads' = loads
    BY <2>0, <2>6
  <2>7. SignIn \/ SignInWithoutName \/ SignOut \/ SignInFails \/ (\E x \in Addresses : Type(x))
          \/ Expire \/ UNCHANGED vars => loads' = loads
    BY DEF SignIn, SignInWithoutName, SignOut, SignInFails, Type, Expire, vars, netVars
  <2>8. Asks => loads' = loads
    BY AskMoves, <2>0
  <2>9. \A m \in Calls : Serve(m) \/ Refused(m) \/ Denied(m) \/ CallFails(m) \/ Drift(m) =>
          loads' = loads
    BY DEF Serve, Refused, Denied, CallFails, Drift
  <2>10. \A p \in Policies, x \in Addresses : OtherMoves(p, x) => loads' = loads
    BY DEF OtherMoves, netVars
  <2> QED
    BY <2>0, <2>1, <2>2, <2>3, <2>4, <2>5, <2>6, <2>7, <2>8, <2>9, <2>10, Steps
<1>2. IInv /\ [Next]_vars =>
        [\A l \in Loads :
           /\ loads[l] # None /\ loads[l].call # None
           /\ loads' = [loads EXCEPT ![l] = None]
           /\ session' # None /\ error' = None /\ ~ loading'
           => shown'.history >= calls[loads[l].call].number]_vars
  BY <1>1
<1> QED
  BY <1>2, Inductive, PTL DEF Spec, SavedMeansShown

\* An address changes sides, from the whitelist to the blacklist, only where the page showed
\* it listed when the operator asked for the move.
THEOREM MovesAreSeenHolds == Spec => MovesAreSeen
<1>1. ASSUME IInv, [Next]_vars, NEW m \in Calls,
             calls[m] # None, calls[m].policy = "blacklist", calls[m].adds,
             calls[m].stage = "sent", calls'[m] # None, calls'[m].stage = "done",
             calls[m].address \in book.whitelist
      PROVE  calls[m].seen
  <2> USE <1>1
  <2>0. /\ TypeOK /\ RoomLeft /\ ConfirmedIsSeen
        /\ calls \in [Calls -> CallRecords \cup {None}]
    BY DEF IInv, Safe, TypeOK
  <2>1. ASSUME NEW n \in Calls, Serve(n)
        PROVE  calls[m].seen
    <3>1. CASE n # m
      <4>1. calls'[m] = calls[m]
        BY <2>0, <2>1, <3>1 DEF Serve
      <4> QED
        BY <4>1
    <3>2. CASE n = m
      <4>1. PICK k \in CallRecords :
              /\ calls' = [calls EXCEPT ![m] = k]
              /\ k.stage = "done" => ~ NeedsConfirmation(calls[m])
        BY <2>0, <2>1, <3>2, ServeMoves
      <4>2. ~ NeedsConfirmation(calls[m])
        BY <2>0, <4>1
      <4>3. calls[m].confirm
        BY <4>2 DEF NeedsConfirmation
      <4> QED
        BY <2>0, <4>3 DEF ConfirmedIsSeen
    <3> QED
      BY <3>1, <3>2
  <2>3. SignIn \/ SignInWithoutName \/ SignOut \/ SignInFails \/ SignedIn
          \/ (\E x \in Addresses : Type(x)) \/ Expire \/ UNCHANGED vars => calls' = calls
    BY DEF SignIn, SignInWithoutName, SignOut, SignInFails, SignedIn, Type, Expire, vars,
           netVars
  <2>4. CASE Refresh
    <3>1. calls'[m] = At(calls[m], "adrift") /\ calls[m] \in CallRecords
      BY <2>0, <2>4 DEF Refresh, At
    <3> QED
      BY <3>1, AtStage DEF Stages
  <2>5. Asks => calls'[m] = calls[m]
    <3> SUFFICES ASSUME Asks PROVE calls'[m] = calls[m]
      OBVIOUS
    <3>1. PICK n \in Calls, k \in CallRecords :
            calls[n] = None /\ calls' = [calls EXCEPT ![n] = k]
      BY <2>0, AskMoves
    <3> QED
      BY <2>0, <3>1
  <2>6. ASSUME NEW l \in Loads,
               Arrive(l) \/ LoadDenied(l) \/ LoadFails(l) \/ \E p \in Parts : Read(l, p)
        PROVE  calls'[m] = calls[m]
    <3>1. CASE \E p \in Parts : Read(l, p)
      BY <3>1 DEF Read
    <3>2. CASE Arrive(l) \/ LoadDenied(l) \/ LoadFails(l)
      <4>1. loads[l] # None /\ EndCallOf(l)
        BY <3>2 DEF Arrive, LoadDenied, LoadFails
      <4> QED
        BY <2>0, <4>1, CallEnds
    <3> QED
      BY <2>6, <3>1, <3>2
  <2>7. ASSUME NEW n \in Calls, Saved(n) \/ Refused(n) \/ Denied(n) \/ CallFails(n) \/ Drift(n)
        PROVE  calls'[m] = calls[m]
    <3>1. n # m
      <4> SUFFICES ASSUME n = m PROVE FALSE
        OBVIOUS
      <4>1. CallFails(n)
        BY <2>7 DEF Saved, Refused, Denied, Drift
      <4>2. calls'[m] = At(calls[m], "adrift") /\ calls[m] \in CallRecords
        BY <2>0, <4>1 DEF CallFails, At
      <4> QED
        BY <4>2, AtStage DEF Stages
    <3> QED
      BY <2>0, <2>7, <3>1 DEF Saved, Refused, Denied, CallFails, Drift
  <2>8. \A p \in Policies, x \in Addresses : OtherMoves(p, x) => calls' = calls
    BY DEF OtherMoves, netVars
  <2>9. calls'[m] # calls[m]
    OBVIOUS
  <2>10. (\E n \in Calls : Serve(n)) \/ Refresh
    <3>1. TypeOK /\ [Next]_vars
      BY <2>0
    <3> QED
      BY <2>3, <2>5, <2>6, <2>7, <2>8, <2>9, <3>1, Steps
  <2> QED
    BY <2>1, <2>4, <2>10
<1>2. IInv /\ [Next]_vars =>
        [\A m \in Calls :
           /\ calls[m] # None /\ calls[m].policy = "blacklist" /\ calls[m].adds
           /\ calls[m].stage = "sent" /\ calls'[m] # None /\ calls'[m].stage = "done"
           /\ calls[m].address \in book.whitelist
           => calls[m].seen]_vars
  BY <1>1
<1> QED
  BY <1>2, Inductive, PTL DEF Spec, MovesAreSeen

-----------------------------------------------------------------------------
(* The network field.  Its search answers with a CHOOSE, so that first it has to be      *)
(* shown that there is one best preset: any set of presets has one of least rank, and no *)
(* two have the same.                                                                   *)

LEMMA LeastNatural ==
  ASSUME NEW S, S \subseteq Nat, S # {}
  PROVE  \E m \in S : \A n \in S : m <= n
<1>1. PICK m \in S : \A n \in S : <<n, m>> \notin OpToRel(<, Nat)
  BY WFMin, NatLessThanWellFounded
<1>2. \A n \in S : ~(n < m)
  BY <1>1 DEF OpToRel
<1> QED
  BY <1>2

LEMMA LeastOption ==
  ASSUME NEW T, T # {}, NEW f \in [T -> Nat]
  PROVE  \E x \in T : \A y \in T : f[x] <= f[y]
<1>1. PICK m \in {f[x] : x \in T} : \A n \in {f[x] : x \in T} : m <= n
  BY LeastNatural
<1> QED
  BY <1>1

\* A preset that is found has a score, 0 for one of its own texts.
LEMMA FoundScores ==
  ASSUME NEW text, text # Blank, NEW o \in Options
  PROVE  /\ o \in Found(text) <=> Score(o, text) \in {0, 1, 2}
         /\ Score(o, text) = 0 <=> Lower[text] \in Terms[o]
<1>1. Null # 0 /\ Null # 1 /\ Null # 2
  BY ComboboxAssumption
<1>2. Score(o, text) \in {0, 1, 2, Null}
  BY DEF Score
<1>3. Score(o, text) = 0 <=> Lower[text] \in Terms[o]
  BY <1>1 DEF Score
<1> QED
  BY <1>1, <1>2, <1>3 DEF Found

\* The presets a text finds have a first one, and it is the one the field takes.
LEMMA FirstIsBest ==
  ASSUME NEW text, Found(text) # {}
  PROVE  /\ First(text) \in Found(text)
         /\ \A p \in Found(text) \ {First(text)} : Before(First(text), p, text)
<1> SUFFICES \E o \in Found(text) : \A p \in Found(text) \ {o} : Before(o, p, text)
  BY DEF First
<1>0. /\ Found(text) \subseteq Options
      /\ Place \in [Options -> Nat] /\ Rank \in [Options -> Nat]
      /\ \A o, p \in Options : o # p => Place[o] # Place[p] /\ Rank[o] # Rank[p]
  BY ComboboxAssumption DEF Found
<1>1. CASE text = Blank
  <2>1. PICK o \in Found(text) :
          \A p \in Found(text) :
            [x \in Found(text) |-> Place[x]][o] <= [x \in Found(text) |-> Place[x]][p]
    BY <1>0, LeastOption
  <2>2. \A p \in Found(text) : Place[o] <= Place[p]
    BY <2>1
  <2>3. \A p \in Found(text) \ {o} : Place[o] < Place[p]
    BY <1>0, <2>2
  <2> QED
    BY <1>1, <2>3 DEF Before
<1>2. CASE text # Blank
  <2> DEFINE score == [x \in Found(text) |-> Score(x, text)]
  <2>0. score \in [Found(text) -> Nat]
    BY <1>0, <1>2, FoundScores
  <2>1. PICK best \in Found(text) : \A p \in Found(text) : score[best] <= score[p]
    BY <2>0, LeastOption
  <2> DEFINE T == {x \in Found(text) : Score(x, text) = Score(best, text)}
             rank == [x \in T |-> Rank[x]]
  <2>2. T # {} /\ rank \in [T -> Nat]
    BY <1>0
  <2>3. PICK o \in T : \A p \in T : rank[o] <= rank[p]
    BY <2>2, LeastOption
  <2>4. \A p \in T : Rank[o] <= Rank[p]
    BY <2>3
  <2>5. \A p \in Found(text) : Score(o, text) <= Score(p, text)
    BY <2>1
  <2>6. ASSUME NEW p \in Found(text) \ {o}
        PROVE  \/ Score(o, text) < Score(p, text)
               \/ Score(o, text) = Score(p, text) /\ Rank[o] < Rank[p]
    <3>1. Score(o, text) \in Nat /\ Score(p, text) \in Nat
      BY <2>0
    <3>2. CASE Score(o, text) = Score(p, text)
      <4>1. p \in T /\ o \in Options /\ p \in Options /\ o # p
        BY <1>0, <3>2
      <4>2. Rank[o] <= Rank[p] /\ Rank[o] # Rank[p]
        BY <1>0, <2>4, <4>1
      <4>3. Rank[o] \in Nat /\ Rank[p] \in Nat
        BY <1>0, <4>1
      <4>4. Rank[o] < Rank[p]
        BY <4>2, <4>3
      <4> QED
        BY <3>2, <4>4
    <3>3. CASE Score(o, text) # Score(p, text)
      BY <2>5, <3>1, <3>3
    <3> QED
      BY <3>2, <3>3
  <2> QED
    BY <1>2, <2>6 DEF Before
<1> QED
  BY <1>1, <1>2

\* The id of a preset is that preset's alone.
LEMMA PresetOfId ==
  /\ \A o \in Options : Preset(Caip2[o]) = o
  /\ \A text : Preset(text) # Null =>
                 Preset(text) \in Options /\ Caip2[Preset(text)] = text
<1>1. \A o, p \in Options : Caip2[o] = Caip2[p] => o = p
  BY ComboboxAssumption
<1> QED
  BY <1>1 DEF Preset, Caip2s

\* The text that is a preset's id finds that preset first: nothing else has it as a text.
LEMMA IdFindsItsPreset ==
  ASSUME NEW o \in Options
  PROVE  o \in Found(Caip2[o]) /\ First(Caip2[o]) = o
<1>1. /\ Caip2[o] # Blank /\ Lower[Caip2[o]] = Caip2[o] /\ Caip2[o] \in Terms[o]
      /\ \A p \in Options \ {o} : Caip2[o] \notin Terms[p]
  BY ComboboxAssumption
<1>2. /\ Score(o, Caip2[o]) = 0 /\ o \in Found(Caip2[o])
      /\ \A p \in Options \ {o} : Score(p, Caip2[o]) # 0
  BY <1>1, FoundScores
<1>3. ASSUME First(Caip2[o]) # o
      PROVE  FALSE
  <2> DEFINE first == First(Caip2[o])
  <2>1. first \in Found(Caip2[o]) /\ Before(first, o, Caip2[o])
    BY <1>2, <1>3, FirstIsBest
  <2>2. first \in Options \ {o}
    BY <1>3, <2>1 DEF Found
  <2>3. Score(first, Caip2[o]) \in {1, 2}
    BY <1>1, <1>2, <2>1, <2>2, FoundScores
  <2> HIDE DEF first
  <2> QED
    BY <1>1, <1>2, <2>1, <2>3 DEF Before
<1> QED
  BY <1>2, <1>3

LEMMA BaselineIsText ==
  ASSUME NEW network \in Texts
  PROVE  Baseline(network) \in Texts
BY PresetOfId, ComboboxAssumption DEF Baseline

\* A search that finds nothing is no preset's name.
LEMMA LabelIsFound ==
  ASSUME NEW o \in Options
  PROVE  o \in Found(Label[o]) /\ Label[o] \in Texts /\ Preset(Label[o]) = Null
<1>1. /\ Label[o] \in Texts \ Colon /\ Lower[Label[o]] \in Terms[o]
      /\ \A p \in Options : Caip2[p] \in Colon
  BY ComboboxAssumption
<1>2. o \in Found(Label[o])
  <2>1. CASE Label[o] = Blank
    BY <2>1 DEF Found
  <2>2. CASE Label[o] # Blank
    BY <1>1, <2>2, FoundScores
  <2> QED
    BY <2>1, <2>2
<1> QED
  BY <1>1, <1>2, PresetOfId

\* A text that has found a preset is not itself taken for the network, unless it has the
\* colon of an id: Enter chooses the preset, and only a text that finds none, or one with a
\* colon, can be used as it was typed; a blank one never (network-combobox.tsx:65-69 and
\* 135-147).
MatchIsNoNetwork == value # Blank /\ (value \in Colon \/ Found(value) = {})

ComboboxInv ==
  /\ value \in Texts /\ query \in Texts
  /\ isOpen \in BOOLEAN
  /\ MatchIsNoNetwork

LEMMA PresetIsNetwork ==
  ASSUME NEW o \in Options
  PROVE  Caip2[o] \in Texts /\ Caip2[o] \in Colon /\ Caip2[o] # Blank
BY ComboboxAssumption

LEMMA CommitKeepsInv ==
  ASSUME NEW text \in Texts, text # Blank, text \in Colon \/ Found(text) = {},
         CommitSelection(text)
  PROVE  ComboboxInv'
BY BaselineIsText DEF CommitSelection, ComboboxInv, MatchIsNoNetwork

\* `Use custom CAIP-2' is offered for what may be a network only.
LEMMA CustomIsNetwork ==
  ASSUME ComboboxInv, ShowsCustom
  PROVE  Field \in Texts /\ Field # Blank /\ (Field \in Colon \/ Found(Field) = {})
<1>1. Field \in Texts
  BY BaselineIsText DEF ComboboxInv, Field
<1>2. Field # Blank /\ (Field \in Colon \/ Found(Search) = {})
  BY DEF ShowsCustom
<1>3. Found(Search) = {} => Found(Field) = {}
  <2>1. Search = Blank \/ Search = Field
    BY DEF Search
  <2>2. Found(Blank) = Options /\ Found(Field) \subseteq Options
    BY DEF Found
  <2> QED
    BY <2>1, <2>2
<1> QED
  BY <1>1, <1>2, <1>3

LEMMA InitComboboxInv == InitCombobox => ComboboxInv
<1> SUFFICES ASSUME InitCombobox PROVE ComboboxInv
  OBVIOUS
<1>1. PICK o \in Options : value = Caip2[o]
  BY DEF InitCombobox
<1>2. Blank \in Texts
  BY ComboboxAssumption
<1> QED
  BY <1>1, <1>2, PresetIsNetwork DEF InitCombobox, ComboboxInv, MatchIsNoNetwork

LEMMA NextComboboxInv ==
  ASSUME ComboboxInv, [NextCombobox]_comboboxVars
  PROVE  ComboboxInv'
<1>0. Baseline(value) \in Texts
  BY BaselineIsText DEF ComboboxInv
<1>1. ASSUME UNCHANGED value, query' \in {query, Baseline(value)}, isOpen' \in BOOLEAN
      PROVE  ComboboxInv'
  BY <1>0, <1>1 DEF ComboboxInv, MatchIsNoNetwork
<1>2. CASE Focus \/ Escape \/ Toggle \/ PressElsewhere \/ TabAway \/ SendByMouse
             \/ SendByKey \/ Answered \/ UNCHANGED comboboxVars
  <2>1. UNCHANGED value /\ query' \in {query, Baseline(value)}
    BY <1>2 DEF Focus, Escape, Toggle, PressElsewhere, TabAway, SendByMouse, SendByKey,
                Answered, comboboxVars, OpenCombobox, CloseCombobox, PressOutside
  <2>2. isOpen' \in BOOLEAN
    BY <1>2 DEF Focus, Escape, Toggle, PressElsewhere, TabAway, SendByMouse, SendByKey,
                Answered, comboboxVars, OpenCombobox, CloseCombobox, PressOutside,
                ComboboxInv
  <2> QED
    BY <1>1, <2>1, <2>2
<1>3. ASSUME NEW text \in Texts, Change(text)
      PROVE  ComboboxInv'
  BY <1>3 DEF Change, ComboboxInv, MatchIsNoNetwork
<1>4. ASSUME NEW o \in Options, CommitSelection(Caip2[o])
      PROVE  ComboboxInv'
  BY <1>4, PresetIsNetwork, CommitKeepsInv
<1>5. ASSUME ShowsCustom, CommitSelection(Field)
      PROVE  ComboboxInv'
  BY <1>5, CustomIsNetwork, CommitKeepsInv
<1>6. CASE Enter
  <2>1. CASE Found(Search) # {}
    <3>1. First(Search) \in Options
      BY <2>1, FirstIsBest DEF Found
    <3> QED
      BY <1>4, <1>6, <2>1, <3>1 DEF Enter
  <2>2. CASE Found(Search) = {}
    BY <1>5, <1>6, <2>2 DEF Enter
  <2> QED
    BY <2>1, <2>2
<1>7. CASE Pick
  BY <1>4, <1>5, <1>7 DEF Pick, Found
<1> QED
  BY <1>2, <1>3, <1>6, <1>7 DEF NextCombobox

\* Whatever is typed, and however the field is left: a text without a colon that finds a
\* preset is never the network.
THEOREM MatchIsNoNetworkHolds == SpecCombobox => []MatchIsNoNetwork
<1>1. InitCombobox => ComboboxInv
  BY InitComboboxInv
<1>2. ComboboxInv /\ [NextCombobox]_comboboxVars => ComboboxInv'
  BY NextComboboxInv
<1>3. ComboboxInv => MatchIsNoNetwork
  BY DEF ComboboxInv
<1> QED
  BY <1>1, <1>2, <1>3, PTL DEF SpecCombobox

\* The network sent is the one the field shows, unless the Tab key left a search behind.
THEOREM SentIsShownHolds == SpecCombobox => []SentIsShown
<1>1. InitCombobox => SentIsShown
  BY DEF InitCombobox, SentIsShown
<1>2. ASSUME SentIsShown, [NextCombobox]_comboboxVars
      PROVE  SentIsShown'
  <2>1. CASE UNCHANGED sent
    BY <1>2, <2>1 DEF SentIsShown
  <2>2. CASE SendByMouse
    <3>1. Field' = Baseline(value)
      BY <2>2 DEF SendByMouse, PressOutside, CloseCombobox, Field
    <3>2. sent' = [network |-> value, field |-> Field', aside |-> FALSE]
      BY <2>2 DEF SendByMouse, SendForm
    <3> QED
      BY <3>1, <3>2 DEF SentIsShown
  <2>3. CASE SendByKey
    <3>1. Field' = Field /\ (isOpen \/ Field = Baseline(value))
      BY <2>3 DEF SendByKey, Field
    <3>2. sent' = [network |-> value, field |-> Field', aside |-> isOpen]
      BY <2>3 DEF SendByKey, SendForm
    <3> QED
      BY <3>1, <3>2 DEF SentIsShown
  <2>4. UNCHANGED sent \/ SendByMouse \/ SendByKey
    BY <1>2 DEF NextCombobox, comboboxVars, Focus, Change, Escape, Enter, Pick,
                CommitSelection, Toggle, PressElsewhere, TabAway, Answered
  <2> QED
    BY <2>1, <2>2, <2>3, <2>4
<1> QED
  BY <1>1, <1>2, PTL DEF SpecCombobox

\* The Enter key takes the network whose picture stands beside the search, and what was
\* typed where there is none, whatever the presets are and however they are sorted.
THEOREM EnterTakesPreviewedHolds == SpecCombobox => EnterTakesPreviewed
<1>1. ASSUME Enter, isOpen, Search # Blank
      PROVE  value' = IF Leading = Null THEN Field ELSE Caip2[Leading]
  <2>1. /\ Search = Field
        /\ Leading = IF Preset(Field) # Null THEN Preset(Field)
                     ELSE IF Found(Field) # {} THEN First(Field) ELSE Null
    BY <1>1 DEF Search, Leading
  <2>2. CASE Found(Field) # {}
    <3>1. value' = Caip2[First(Field)]
      BY <1>1, <2>1, <2>2 DEF Enter, CommitSelection
    <3>2. First(Field) # Null
      BY <2>2, FirstIsBest, ComboboxAssumption DEF Found
    <3>3. Preset(Field) # Null => First(Field) = Preset(Field)
      BY PresetOfId, IdFindsItsPreset
    <3> QED
      BY <2>1, <2>2, <3>1, <3>2, <3>3
  <2>3. CASE Found(Field) = {}
    <3>1. value' = Field
      BY <1>1, <2>1, <2>3 DEF Enter, CommitSelection
    <3>2. Preset(Field) = Null
      BY <2>3, PresetOfId, IdFindsItsPreset
    <3> QED
      BY <2>1, <2>3, <3>1, <3>2
  <2> QED
    BY <2>2, <2>3
<1>2. [NextCombobox]_comboboxVars =>
        [(Enter /\ isOpen /\ Search # Blank)
           => value' = IF Leading = Null THEN Field ELSE Caip2[Leading]]_comboboxVars
  BY <1>1
<1> QED
  BY <1>2, PTL DEF SpecCombobox, EnterTakesPreviewed
=============================================================================
