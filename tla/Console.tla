------------------------------- MODULE Console -------------------------------
(***************************************************************************)
(* The operators' page (frontend/app/page.tsx) in one browser tab, with    *)
(* the API routes and policy-api behind it, against the backend's lists.   *)
(*                                                                         *)
(* The page keeps a session, the lists it shows, three flags and an error. *)
(* Signing in loads the two lists and the audit history with three         *)
(* requests; a mutation is one request and then another load.  Nothing     *)
(* says whose answer an answer is: one that arrives is applied, whatever   *)
(* was started, signed out or signed in since.                             *)
(*                                                                         *)
(* The backend is what PolicyMutation shows of one call at a time: an      *)
(* addition moves an address, to the blacklist only when confirmed.  Each  *)
(* mutation has a fresh idempotency key and leaves one audit row.          *)
(*                                                                         *)
(* `newest', `out' and `faults' are history variables, and so are the      *)
(* fields `seen' and `number' of a call: no guard reads them.              *)
(***************************************************************************)
EXTENDS Naturals, FiniteSets

CONSTANTS
  Addresses,    \* with their network
  Env,          \* what may happen around the page, of Events
  MaxSessions,  \* bound: tokens issued
  MaxLoads,     \* bound: loads under way
  MaxCalls,     \* bound: mutations under way
  MaxLogins,    \* bound: sign-ins under way
  MaxRows,      \* bound: audit rows
  None

Events == {"network", "expiry", "refresh", "twice", "others"}

Sessions == 1..MaxSessions
Loads == 1..MaxLoads
Calls == 1..MaxCalls
Policies == {"blacklist", "whitelist"}

ASSUME ConsoleAssumption ==
  /\ Env \subseteq Events
  /\ MaxSessions \in Nat /\ MaxLoads \in Nat /\ MaxCalls \in Nat
  /\ MaxLogins \in Nat /\ MaxRows \in Nat
  /\ None \notin Nat \cup Addresses

VARIABLES
  session, stored,                   \* the token of the page, and of local storage
  form,                              \* the address typed
  shown,                             \* lists and history of the page
  loading, mutating, authenticating, \* flags of the page
  error,                             \* the message it shows
  loads, calls, logins,              \* requests whose answer the page waits for
  book,                              \* lists and history of the backend
  issued, expired,                   \* tokens of the gateway
  newest,                            \* history: the load started last
  out,                               \* history: signed out, and no sign-in begun since
  faults                             \* history: what has gone wrong

stateVars == <<session, stored, form, shown, loading, mutating, authenticating, error>>
netVars == <<loads, calls, logins, newest>>
gatewayVars == <<issued, expired>>
vars == <<stateVars, netVars, gatewayVars, book, out, faults>>

Parts == Policies \cup {"history"}

Books == [blacklist : SUBSET Addresses, whitelist : SUBSET Addresses, history : 0..MaxRows]

Empty == [blacklist |-> {}, whitelist |-> {}, history |-> 0]

\* What a load has received, part by part.
Received == [blacklist : {None} \cup SUBSET Addresses,
             whitelist : {None} \cup SUBSET Addresses,
             history : {None} \cup 0..MaxRows]

Nothing == [blacklist |-> None, whitelist |-> None, history |-> None]

LoadRecords == [session : Sessions, call : Calls \cup {None}, got : Received]

\* A call is sent, carried out, refused, then followed by a load; adrift, nobody waits for it.
Stages == {"sent", "done", "refused", "denied", "reloading", "adrift"}

CallRecords == [session : Sessions, policy : Policies, adds : BOOLEAN, address : Addresses,
                confirm : BOOLEAN, seen : BOOLEAN, stage : Stages, number : 0..MaxRows]

Errors == {"expired", "failed", "conflict", "username"}

ASSUME NoneAssumption ==
  None \notin LoadRecords /\ None \notin CallRecords /\ None \notin Errors

TypeOK ==
  /\ session \in Sessions \cup {None} /\ stored \in Sessions \cup {None}
  /\ form \in Addresses \cup {None}
  /\ shown \in Books
  /\ loading \in BOOLEAN /\ mutating \in BOOLEAN /\ authenticating \in BOOLEAN
  /\ error \in {None} \cup Errors
  /\ loads \in [Loads -> LoadRecords \cup {None}]
  /\ calls \in [Calls -> CallRecords \cup {None}]
  /\ logins \in 0..MaxLogins
  /\ book \in Books
  /\ issued \in 0..MaxSessions /\ expired \subseteq 1..issued
  /\ newest \in 0..MaxLoads /\ out \in BOOLEAN
  /\ faults \subseteq {"overtaken", "late", "others", "kicked", "twice"}
  /\ stored = session

-----------------------------------------------------------------------------

Init ==
  /\ session = None /\ stored = None
  /\ form = None
  /\ shown = Empty
  /\ loading = FALSE /\ mutating = FALSE /\ authenticating = FALSE
  /\ error = None
  /\ loads = [l \in Loads |-> None]
  /\ calls = [m \in Calls |-> None]
  /\ logins = 0
  /\ \E p \in Policies, s \in SUBSET Addresses : book = [Empty EXCEPT ![p] = s]
  /\ issued = 0 /\ expired = {}
  /\ newest = 0 /\ out = FALSE
  /\ faults = {}

Happens(fault, condition) == faults' = IF condition THEN faults \cup {fault} ELSE faults

Free(slots, i) == slots[i] = None /\ \A k \in 1..(i - 1) : slots[k] # None

\* loadData begins: three requests with the token of one session.
StartLoad(open, s, m) ==
  \E l \in Loads :
    /\ Free(open, l)
    /\ loads' = [open EXCEPT ![l] = [session |-> s, call |-> m, got |-> Nothing]]
    /\ newest' = l
    /\ loading' = TRUE
    /\ error' = None

\* handleUnauthorized, whoever is signed in by now.
Unauthorized ==
  /\ session' = None /\ stored' = None
  /\ shown' = Empty
  /\ loading' = FALSE /\ mutating' = FALSE
  /\ error' = "expired"
  /\ Happens("kicked", mutating)

-----------------------------------------------------------------------------
(* Signing in and out. *)

\* The button is disabled while a sign-in is under way, the Enter key is not.
SignIn ==
  /\ session = None
  /\ logins < MaxLogins /\ issued + logins < MaxSessions
  /\ authenticating => "twice" \in Env
  /\ Happens("twice", authenticating)
  /\ error' = None
  /\ authenticating' = TRUE
  /\ logins' = logins + 1
  /\ out' = FALSE
  /\ UNCHANGED <<session, stored, form, shown, loading, mutating, loads, calls, newest,
                 gatewayVars, book>>

SignInWithoutName ==
  /\ session = None
  /\ error' = "username"
  /\ UNCHANGED <<session, stored, form, shown, loading, mutating, authenticating, netVars,
                 gatewayVars, book, out, faults>>

\* The session is stored and set, which loads the page's data.
SignedIn ==
  /\ logins > 0
  /\ issued' = issued + 1
  /\ stored' = issued' /\ session' = issued'
  /\ StartLoad(loads, issued', None)
  /\ authenticating' = FALSE
  /\ logins' = logins - 1
  /\ UNCHANGED <<form, shown, mutating, calls, expired, book, out, faults>>

SignInFails ==
  /\ logins > 0
  /\ "network" \in Env
  /\ error' = "failed"
  /\ authenticating' = FALSE
  /\ logins' = logins - 1
  /\ UNCHANGED <<session, stored, form, shown, loading, mutating, loads, calls, newest,
                 gatewayVars, book, out, faults>>

\* Mutant of SignOut: the lists stay with the page.
SignOutWithLists ==
  /\ session # None
  /\ session' = None /\ stored' = None
  /\ form' = None /\ error' = None /\ loading' = FALSE
  /\ out' = TRUE
  /\ UNCHANGED <<shown, mutating, authenticating, netVars, gatewayVars, book, faults>>

\* Mutant of SignOut: the session stays in local storage.
SignOutOfPage ==
  /\ session # None
  /\ session' = None
  /\ shown' = Empty /\ form' = None /\ error' = None /\ loading' = FALSE
  /\ out' = TRUE
  /\ UNCHANGED <<stored, mutating, authenticating, netVars, gatewayVars, book, faults>>

SignOut ==
  /\ session # None
  /\ session' = None /\ stored' = None
  /\ shown' = Empty /\ form' = None /\ error' = None /\ loading' = FALSE
  /\ out' = TRUE
  /\ UNCHANGED <<mutating, authenticating, netVars, gatewayVars, book, faults>>

\* The page is reloaded: its state is gone, and the session comes back from the storage.
\* A mutation that was sent is carried out or not.
Refresh ==
  /\ "refresh" \in Env
  /\ session' = stored
  /\ form' = None /\ shown' = Empty /\ mutating' = FALSE /\ authenticating' = FALSE
  /\ calls' = [m \in Calls |->
                 IF calls[m] # None /\ calls[m].stage \in {"sent", "adrift"}
                   THEN [calls[m] EXCEPT !.stage = "adrift"] ELSE None]
  /\ logins' = 0
  /\ LET none == [l \in Loads |-> None]
     IN  IF stored # None
           THEN StartLoad(none, stored, None)
           ELSE loads' = none /\ newest' = 0 /\ loading' = FALSE /\ error' = None
  /\ UNCHANGED <<stored, gatewayVars, book, out, faults>>

-----------------------------------------------------------------------------
(* Loading. *)

\* The gateway answers one of the three requests.
Read(l, p) ==
  /\ loads[l] # None
  /\ loads[l].got[p] = None
  /\ loads[l].session \notin expired
  /\ loads' = [loads EXCEPT ![l].got[p] = book[p]]
  /\ UNCHANGED <<stateVars, calls, logins, newest, gatewayVars, book, out, faults>>

\* A load that was part of a mutation ends it, with success even if the load failed.
EndCallOf(l) ==
  LET m == loads[l].call
  IN  IF m = None
        THEN UNCHANGED <<form, calls>>
        ELSE /\ calls' = [calls EXCEPT ![m] = None]
             /\ form' = IF calls[m].adds THEN None ELSE form

\* Mutant of Saving: whichever load ends, the flag of the mutation is reset.
SavingNever(l) == FALSE

\* The flag of a mutation comes down with the load that was part of it.
Saving(l) == loads[l].call = None /\ mutating

\* The answer comes after that of a later load, or after its session.
Overtaken(l) ==
  \/ l # newest /\ (newest = 0 \/ loads[newest] = None)
  \/ loads[l].session # session

\* Mutant of Arrive: the flag of the page is not reset.
ArriveStillLoading(l) ==
  /\ loads[l] # None
  /\ \A p \in Parts : loads[l].got[p] # None
  /\ shown' = loads[l].got
  /\ loads' = [loads EXCEPT ![l] = None]
  /\ EndCallOf(l)
  /\ mutating' = Saving(l)
  /\ Happens("overtaken", Overtaken(l))
  /\ UNCHANGED <<session, stored, loading, authenticating, error, logins, newest, gatewayVars,
                 book, out>>

Arrive(l) ==
  /\ loads[l] # None
  /\ \A p \in Parts : loads[l].got[p] # None
  /\ shown' = loads[l].got
  /\ loads' = [loads EXCEPT ![l] = None]
  /\ loading' = FALSE
  /\ EndCallOf(l)
  /\ mutating' = Saving(l)
  /\ Happens("overtaken", Overtaken(l))
  /\ UNCHANGED <<session, stored, authenticating, error, logins, newest, gatewayVars,
                   book, out>>

\* The first answer is 401.
LoadDenied(l) ==
  /\ loads[l] # None
  /\ loads[l].session \in expired
  /\ \E p \in Parts : loads[l].got[p] = None
  /\ loads' = [loads EXCEPT ![l] = None]
  /\ EndCallOf(l)
  /\ Unauthorized
  /\ UNCHANGED <<authenticating, logins, newest, gatewayVars, book, out>>

LoadFails(l) ==
  /\ loads[l] # None
  /\ "network" \in Env
  /\ loads' = [loads EXCEPT ![l] = None]
  /\ loading' = FALSE
  /\ error' = "failed"
  /\ EndCallOf(l)
  /\ mutating' = Saving(l)
  /\ UNCHANGED <<session, stored, shown, authenticating, logins, newest, gatewayVars, book,
                 out, faults>>

-----------------------------------------------------------------------------
(* Mutating. *)

Type(x) ==
  /\ session # None
  /\ form # x
  /\ form' = x
  /\ UNCHANGED <<session, stored, shown, loading, mutating, authenticating, error, netVars,
                 gatewayVars, book, out, faults>>

\* Bound: the rows there are, and those that requests under way may add.
RowsLeft ==
  book.history
    + Cardinality({m \in Calls : calls[m] # None /\ calls[m].stage \in {"sent", "adrift"}})
    < MaxRows

\* The buttons are disabled while the page is saving.
Send(policy, adds, x, confirm) ==
  /\ session # None /\ ~ mutating
  /\ RowsLeft
  /\ error' = None
  /\ mutating' = TRUE
  /\ \E m \in Calls :
       /\ Free(calls, m)
       /\ calls' = [calls EXCEPT ![m] =
            [session |-> session, policy |-> policy, adds |-> adds, address |-> x,
             confirm |-> confirm, seen |-> x \in shown.whitelist, stage |-> "sent",
             number |-> 0]]
  /\ UNCHANGED <<session, stored, form, shown, loading, authenticating, loads, logins, newest,
                 gatewayVars, book, out, faults>>

\* Mutant of Confirms: the switch is always confirmed.
ConfirmsAll(policy) == policy = "blacklist"

\* The page asks only about what it shows; without a yes nothing is sent.
Confirms(policy) == policy = "blacklist" /\ form \in shown.whitelist

Add(policy) == form # None /\ Send(policy, TRUE, form, Confirms(policy))

Remove(policy, x) == x \in shown[policy] /\ Send(policy, FALSE, x, FALSE)

Opposite(policy) == IF policy = "blacklist" THEN "whitelist" ELSE "blacklist"

\* The lists after a mutation, with its audit row.
Mutated(k) ==
  LET row == book.history + 1
      other == Opposite(k.policy)
  IN  IF k.adds
        THEN [book EXCEPT ![k.policy] = @ \cup {k.address}, ![other] = @ \ {k.address},
                          !.history = row]
        ELSE [book EXCEPT ![k.policy] = @ \ {k.address}, !.history = row]

NeedsConfirmation(k) ==
  k.adds /\ k.policy = "blacklist" /\ k.address \in book.whitelist /\ ~ k.confirm

\* The gateway and the backend answer the request.
Serve(m) ==
  /\ calls[m] # None /\ calls[m].stage = "sent"
  /\ IF calls[m].session \in expired
       THEN calls' = [calls EXCEPT ![m].stage = "denied"] /\ UNCHANGED book
       ELSE IF NeedsConfirmation(calls[m])
         THEN calls' = [calls EXCEPT ![m].stage = "refused"] /\ UNCHANGED book
         ELSE /\ book' = Mutated(calls[m])
              /\ calls' = [calls EXCEPT ![m].stage = "done", ![m].number = book.history + 1]
  /\ UNCHANGED <<stateVars, loads, logins, newest, gatewayVars, out, faults>>

\* Mutant of Saved: a load already under way is waited for instead of a new one.
SavedJoining(m) ==
  /\ calls[m] # None /\ calls[m].stage = "done"
  /\ calls' = [calls EXCEPT ![m].stage = "reloading"]
  /\ IF newest # 0 /\ loads[newest] # None /\ loads[newest].call = None
       THEN /\ loads' = [loads EXCEPT ![newest].call = m]
            /\ loading' = TRUE /\ error' = None /\ UNCHANGED newest
       ELSE StartLoad(loads, calls[m].session, m)
  /\ UNCHANGED <<session, stored, form, shown, mutating, authenticating, logins, gatewayVars,
                 book, out, faults>>

\* The mutation succeeded; the data are loaded again, with the session of the mutation.
Saved(m) ==
  /\ calls[m] # None /\ calls[m].stage = "done"
  /\ calls' = [calls EXCEPT ![m].stage = "reloading"]
  /\ StartLoad(loads, calls[m].session, m)
  /\ UNCHANGED <<session, stored, form, shown, mutating, authenticating, logins, gatewayVars,
                 book, out, faults>>

Refused(m) ==
  /\ calls[m] # None /\ calls[m].stage = "refused"
  /\ calls' = [calls EXCEPT ![m] = None]
  /\ error' = "conflict"
  /\ mutating' = FALSE
  /\ UNCHANGED <<session, stored, form, shown, loading, authenticating, loads, logins, newest,
                 gatewayVars, book, out, faults>>

Denied(m) ==
  /\ calls[m] # None /\ calls[m].stage = "denied"
  /\ calls' = [calls EXCEPT ![m] = None]
  /\ session' = None /\ stored' = None
  /\ shown' = Empty
  /\ loading' = FALSE /\ mutating' = FALSE
  /\ error' = "expired"
  /\ UNCHANGED <<form, authenticating, loads, logins, newest, gatewayVars, book, out, faults>>

\* The answer is lost; the request may be carried out yet.
CallFails(m) ==
  /\ calls[m] # None /\ calls[m].stage \in {"sent", "done"}
  /\ "network" \in Env
  /\ calls' = [calls EXCEPT ![m] =
       IF calls[m].stage = "sent" THEN [calls[m] EXCEPT !.stage = "adrift"] ELSE None]
  /\ error' = "failed"
  /\ mutating' = FALSE
  /\ UNCHANGED <<session, stored, form, shown, loading, authenticating, loads, logins, newest,
                 gatewayVars, book, out, faults>>

Drift(m) ==
  /\ calls[m] # None /\ calls[m].stage = "adrift"
  /\ calls' = [calls EXCEPT ![m] = None]
  /\ \/ UNCHANGED <<book, faults>>
     \/ /\ calls[m].session \notin expired /\ ~ NeedsConfirmation(calls[m])
        /\ book' = Mutated(calls[m])
        /\ Happens("late", TRUE)
  /\ UNCHANGED <<stateVars, loads, logins, newest, gatewayVars, out>>

-----------------------------------------------------------------------------
(* Around the page. *)

Expire ==
  /\ "expiry" \in Env
  /\ \E s \in 1..issued : s \notin expired /\ expired' = expired \cup {s}
  /\ UNCHANGED <<stateVars, netVars, issued, book, out, faults>>

\* Another operator moves an address.
OtherMoves(policy, x) ==
  /\ "others" \in Env
  /\ RowsLeft
  /\ book' = Mutated([policy |-> policy, adds |-> TRUE, address |-> x])
  /\ Happens("others", TRUE)
  /\ UNCHANGED <<stateVars, netVars, gatewayVars, out>>

Operate ==
  \/ SignIn \/ SignInWithoutName \/ SignOut \/ Refresh
  \/ \E x \in Addresses : Type(x)
  \/ \E p \in Policies : Add(p) \/ \E x \in Addresses : Remove(p, x)

LoadAnswered(l) == Arrive(l) \/ LoadDenied(l) \/ LoadFails(l) \/ \E p \in Parts : Read(l, p)

CallAnswered(m) == Serve(m) \/ Saved(m) \/ Refused(m) \/ Denied(m) \/ CallFails(m)

Next ==
  \/ Operate
  \/ SignedIn \/ SignInFails
  \/ \E l \in Loads : LoadAnswered(l)
  \/ \E m \in Calls : CallAnswered(m) \/ Drift(m)
  \/ Expire
  \/ \E p \in Policies, x \in Addresses : OtherMoves(p, x)

Spec == Init /\ [][Next]_vars

\* Every request of the page ends, with an answer or an error.
Fairness ==
  /\ \A l \in Loads : WF_vars(LoadAnswered(l))
  /\ \A m \in Calls : WF_vars(CallAnswered(m))
  /\ WF_vars(SignedIn \/ SignInFails)

FairSpec == Spec /\ Fairness

-----------------------------------------------------------------------------
(* What an operator can rely on. *)

Listening(m) == calls[m] # None /\ calls[m].stage # "adrift"

Settled ==
  /\ session # None /\ error = None
  /\ \A l \in Loads : loads[l] = None
  /\ \A m \in Calls : calls[m] = None

\* A page that has settled shows the lists as they are, unless an answer came after that of a
\* later load, or a request the page had given up, or another operator, changed them.
SettledIsCurrent ==
  Settled /\ faults \cap {"overtaken", "late", "others"} = {} => shown = book

\* A page that is signed out holds nobody's lists, unless an answer for an earlier session
\* has come late, a mutation's own load included.
SignedOutHoldsNothing ==
  session = None /\ "overtaken" \notin faults => shown = Empty

\* Who signs out stays signed out, through reloads of the page and late answers, unless a
\* second sign-in was begun with the Enter key.
SignedOutStays == out /\ "twice" \notin faults => session = None /\ stored = None

\* One mutation at a time: two overlap only after a 401 has reset the flag that keeps the
\* buttons disabled, under the mutation it belongs to.
OneCallAtATime ==
  "kicked" \notin faults => Cardinality({m \in Calls : Listening(m)}) <= 1

\* A mutation that ends without an error has the page show it, whatever else is loading.
SavedMeansShown ==
  [][\A l \in Loads :
       /\ loads[l] # None /\ loads[l].call # None
       /\ loads' = [loads EXCEPT ![l] = None]
       /\ session' # None /\ error' = None /\ ~ loading'
       => shown'.history >= calls[loads[l].call].number]_vars

\* An address leaves the whitelist for the blacklist only if the page showed it there when
\* the operator asked for the move.
MovesAreSeen ==
  [][\A m \in Calls :
       /\ calls[m] # None /\ calls[m].policy = "blacklist" /\ calls[m].adds
       /\ calls[m].stage = "sent" /\ calls'[m] # None /\ calls'[m].stage = "done"
       /\ calls[m].address \in book.whitelist
       => calls[m].seen]_vars

\* `Saving...' and `Loading...' do not stay for ever.
WaitingEnds ==
  /\ mutating ~> ~ mutating
  /\ loading ~> ~ loading
  /\ authenticating ~> ~ authenticating
=============================================================================
