---------------------------- MODULE GatewayProofs ----------------------------
(***************************************************************************)
(* Proofs about Gateway, for any requests, users, secrets, deployments and *)
(* clocks.                                                                 *)
(***************************************************************************)
EXTENDS Gateway, TLAPS

-----------------------------------------------------------------------------
(* Tables and canonical forms. *)

\* A status as it leaves the gateway is the one that entered gRPC at the backend.
LEMMA StatusComesBack ==
  ASSUME NEW status \in {400, 401, 409, 500, 503}
  PROVE  HttpStatus(GrpcCode(status)) = status /\ GrpcCode(status) # "OK"
BY DEF HttpStatus, GrpcCode

\* What the gateway writes as a number the backend reads as the same name.
LEMMA NamesComeBack ==
  /\ \A name \in {"blacklist", "whitelist"} :
       NameOf(BackendPolicy, GatewayPolicy[name]) = name
  /\ \A name \in {"add", "remove"} : NameOf(BackendAction, GatewayAction[name]) = name
<1>1. /\ DOMAIN BackendPolicy = {"blacklist", "whitelist"}
      /\ BackendPolicy["blacklist"] = 1 /\ BackendPolicy["whitelist"] = 2
      /\ GatewayPolicy["blacklist"] = 1 /\ GatewayPolicy["whitelist"] = 2
  BY DEF BackendPolicy, GatewayPolicy
<1>2. /\ DOMAIN BackendAction = {"add", "remove"}
      /\ BackendAction["add"] = 1 /\ BackendAction["remove"] = 2
      /\ GatewayAction["add"] = 1 /\ GatewayAction["remove"] = 2
  BY DEF BackendAction, GatewayAction
<1> QED
  BY <1>1, <1>2 DEF NameOf

\* A request in its canonical form.
Canonical(asked, user) == NormalizeTrustedMutationInput(Requested(asked, user))

LEMMA LowerTwice == \A address : Lower(Lower(address)) = Lower(address)
BY DEF Lower

\* Fields of a request, before and after.
LEMMA RequestFields ==
  ASSUME NEW asked, NEW user
  PROVE  Canonical(asked, user) =
           [address |-> IF asked.body.network \in EvmNetworks
                          THEN Lower(asked.body.address) ELSE asked.body.address,
            network |-> asked.body.network, policy |-> asked.policy,
            action |-> asked.action, confirm |-> asked.body.confirm = "true",
            key |-> asked.key, requestedBy |-> user]
BY DEF Canonical, NormalizeTrustedMutationInput, Requested

\* The backend brings a message to the form the gateway signed, whether the gateway had
\* brought it to that form or had passed it on.
LEMMA CanonicalAtBothEnds ==
  ASSUME NEW asked \in Asks, asked.kind \in Mutations, NEW user, NEW method, NEW time,
         NEW signature
  PROVE  /\ ValidateAndNormalizeInput(
              Message(method, Canonical(asked, user), time, signature).request)
              = Canonical(asked, user)
         /\ ValidateAndNormalizeInput(
              Message(method, Requested(asked, user), time, signature).request)
              = Canonical(asked, user)
<1>1. /\ NameOf(BackendPolicy, GatewayPolicy[asked.policy]) = asked.policy
      /\ NameOf(BackendAction, GatewayAction[asked.action]) = asked.action
  BY GatewayAssumption, NamesComeBack
<1>2. ASSUME NEW address, NEW network, NEW confirm, NEW key, NEW by
      PROVE  LET request == [address |-> address, network |-> network,
                             policy |-> asked.policy, action |-> asked.action,
                             confirm |-> confirm, key |-> key, requestedBy |-> by]
             IN  ValidateAndNormalizeInput(Message(method, request, time, signature).request) =
                   [request EXCEPT !.address = IF network \in EvmNetworks
                                               THEN Lower(address) ELSE address]
  <2> DEFINE request == [address |-> address, network |-> network,
                         policy |-> asked.policy, action |-> asked.action,
                         confirm |-> confirm, key |-> key, requestedBy |-> by]
             sent == [address |-> address, network |-> network,
                      policy |-> GatewayPolicy[asked.policy],
                      action |-> GatewayAction[asked.action],
                      confirm |-> confirm, key |-> key, requestedBy |-> by]
  <2>1. Message(method, request, time, signature).request = sent
    BY DEF Message
  <2>2. ValidateAndNormalizeInput(sent) =
          [address |-> IF network \in EvmNetworks THEN Lower(address) ELSE address,
           network |-> network, policy |-> NameOf(BackendPolicy, sent.policy),
           action |-> NameOf(BackendAction, sent.action), confirm |-> confirm,
           key |-> key, requestedBy |-> by]
    BY DEF ValidateAndNormalizeInput
  <2>3. sent.policy = GatewayPolicy[asked.policy] /\ sent.action = GatewayAction[asked.action]
    OBVIOUS
  <2> QED
    BY <1>1, <2>1, <2>2, <2>3
<1>3. ValidateAndNormalizeInput(
        Message(method, Canonical(asked, user), time, signature).request)
        = Canonical(asked, user)
  BY <1>2, RequestFields, LowerTwice
<1>4. ValidateAndNormalizeInput(
        Message(method, Requested(asked, user), time, signature).request)
        = Canonical(asked, user)
  BY <1>2, RequestFields DEF Requested
<1> QED
  BY <1>3, <1>4

-----------------------------------------------------------------------------
(* The inductive invariant.  Each property speaks of the end of a call; what makes it   *)
(* true was decided on the way.  So the invariant says what a message under way is: the *)
(* request that was asked for, in the name of the token, signed, and sent off while the *)
(* token was good; that what was let in for it is what was asked for, let in in time,   *)
(* for as long as it is worked on; and that what came of it fits.                       *)

Signer(c) == IF ask[c].kind = "admin" THEN token[c].user ELSE ask[c].user

\* The message of an administrator: canonical, signed and stamped before the token ended.
AdminMessage(c) ==
  LET request == Canonical(ask[c], token[c].user)
  IN \E time \in Nat :
       /\ token[c] # None /\ time < token[c].exp
       /\ wire[c] = Message("trusted", request, time, GatewaySignature(request, time))

\* A message on its way to the backend is what was asked for, and nothing came of it yet.
UnderWay(c) ==
  stage[c] = "rpc" =>
    /\ ask[c] \in Asks /\ did[c] = {} /\ work[c] = None
    /\ ask[c].kind = "admin" => AdminMessage(c)
    /\ ask[c].kind = "signed" =>
         wire[c] = Message("secure", Requested(ask[c], ask[c].user), sentAt[c],
                           CallerSignature(c))
    /\ ask[c].kind \notin Mutations => wire[c].method \in {"list", "history", "check"}

\* Before that there is nothing but the question.
Early(c) ==
  /\ stage[c] \in {"idle", "http"} => did[c] = {} /\ work[c] = None /\ reply[c] = None
  /\ stage[c] = "http" => ask[c] \in Asks /\ ask[c].kind # "check"

\* What the backend let in is what was asked for, and it let it in in time.
Admissible(c, admitted) ==
  /\ admitted.request = Canonical(ask[c], Signer(c))
  /\ admitted.since + skew < (IF ask[c].kind = "admin" THEN token[c].exp ELSE sentAt[c] + 1)
                               + Past

\* What was carried out was let in.
InTime(c) == \A admitted \in did[c] : Admissible(c, admitted)

\* So was what is worked on, whoever still waits for it.
WorkFits(c) ==
  work[c] # None =>
    /\ ask[c] \in Asks /\ ask[c].kind \in Mutations /\ Mutates(wire[c])
    /\ Admissible(c, work[c])

\* Who is to blame for a refused signature.
Disagreeing(c) ==
  IF ask[c].kind = "admin" THEN deployment.gateway # deployment.backend
  ELSE \/ deployment.callers # deployment.shared
       \/ ask[c].key # None /\ ~ask[c].withKey

\* An error under way keeps its status, and a signature is refused for a reason.
ReplyFits(c) ==
  /\ (reply[c] # None /\ reply[c].code # "OK") =>
       HttpStatus(reply[c].code) = reply[c].raised
  /\ (stage[c] = "returning" /\ ask[c].kind \in Mutations
        /\ reply[c].code = "UNAUTHENTICATED" /\ reply[c].why = "signature") =>
       Disagreeing(c)

\* What the answer under way says was carried out was, and nothing else.
EffectFits(c) ==
  ask[c].kind \in Mutations =>
    /\ stage[c] = "returning" =>
         /\ HttpStatus(reply[c].code) \in {400, 401, 409} => did[c] = {} /\ work[c] = None
         /\ reply[c].code = "OK" =>
              /\ Mutates(wire[c]) /\ work[c] = None
              /\ did[c] = {} <=> reply[c].response.replayed
    /\ stage[c] = "answered" =>
         /\ answer[c].status \in {400, 401, 409} => did[c] = {} /\ work[c] = None
         /\ answer[c].status = 200 =>
              work[c] = None /\ (did[c] = {} <=> answer[c].body.replayed)

\* What the client got fits the reply.
AnswerFits(c) ==
  stage[c] = "answered" =>
    /\ (ask[c].kind # "check" /\ reply[c] # None /\ reply[c].code # "OK") =>
         answer[c].status = HttpStatus(reply[c].code)
    /\ (ask[c].kind \in Mutations /\ answer[c].status = 401 /\ answer[c].why = "signature") =>
         Disagreeing(c)

CallInv(c) ==
  /\ Early(c) /\ UnderWay(c) /\ WorkFits(c) /\ InTime(c)
  /\ ReplyFits(c) /\ AnswerFits(c) /\ EffectFits(c)
  /\ sentAt[c] \in Nat
  /\ token[c] = None \/ token[c].exp \in Nat

IInv ==
  /\ clock \in Nat /\ skew \in Int
  /\ session = None \/ session.exp \in Nat
  /\ \A f \in {stage, ask, token, sentAt, wire, work, did, reply, answer} : DOMAIN f = Calls
  /\ \A c \in Calls : CallInv(c)

-----------------------------------------------------------------------------

\* A step leaves the calls alone that it is not about.
Same(c) ==
  UNCHANGED <<skew, deployment, stage[c], ask[c], token[c], sentAt[c], wire[c], work[c],
              did[c], reply[c], answer[c]>>

LEMMA Untouched ==
  ASSUME NEW c \in Calls, CallInv(c), Same(c)
  PROVE  CallInv(c)'
BY DEF CallInv, Same, Early, UnderWay, AdminMessage, Admissible, InTime, WorkFits, Mutates,
       Signer, ReplyFits, AnswerFits, EffectFits, Disagreeing, CallerSignature,
       GatewaySignature

LEMMA InitIInv == Init => IInv
<1> SUFFICES ASSUME Init PROVE IInv
  OBVIOUS
<1>1. clock \in Nat /\ skew \in Int /\ session = None
  BY GatewayAssumption DEF Init
<1>2. \A f \in {stage, ask, token, sentAt, wire, work, did, reply, answer} : DOMAIN f = Calls
  BY DEF Init, Nothing
<1>3. ASSUME NEW c \in Calls PROVE CallInv(c)
  <2>1. /\ stage[c] = "idle" /\ did[c] = {} /\ reply[c] = None /\ token[c] = None
        /\ work[c] = None /\ sentAt[c] = 0
    BY DEF Init, Nothing
  <2> QED
    BY <2>1 DEF CallInv, Early, UnderWay, InTime, WorkFits, ReplyFits, AnswerFits, EffectFits
<1> QED
  BY <1>1, <1>2, <1>3 DEF IInv

LEMMA RefusalIsSome ==
  /\ Refused(401, "missing") # None /\ Refused(500, "unconfigured") # None
  /\ Refused(401, "invalid") # None /\ Refused(401, "expired") # None
  /\ Refused(400, "enum") # None /\ Refused(400, "input") # None
  /\ Refused(401, "window") # None
  /\ Refused(409, "conflict") # None /\ Refused(500, "failed") # None
  /\ Refused(500, "provider") # None
<1>1. \A status \in Statuses, why \in Reasons : Refused(status, why) # None
  BY GatewayAssumption DEF Refused
<1>2. {400, 401, 409, 500} \subseteq Statuses
  BY DEF Statuses
<1>3. /\ "missing" \in Reasons /\ "unconfigured" \in Reasons
      /\ "invalid" \in Reasons /\ "expired" \in Reasons
      /\ "enum" \in Reasons /\ "input" \in Reasons /\ "window" \in Reasons
      /\ "conflict" \in Reasons /\ "failed" \in Reasons /\ "provider" \in Reasons
  BY DEF Reasons
<1> QED
  BY <1>1, <1>2, <1>3

LEMMA SendIInv ==
  ASSUME IInv, NEW c \in Calls, NEW asked \in Asks, Send(c, asked)
  PROVE  CallInv(c)'
<1>1. /\ stage[c] = "idle" /\ did[c] = {} /\ reply[c] = None
      /\ stage'[c] = IF asked.kind = "check" THEN "rpc" ELSE "http"
      /\ ask'[c] = asked /\ did'[c] = {} /\ reply'[c] = None /\ work'[c] = None
      /\ sentAt'[c] \in Nat
      /\ token'[c] = None \/ token'[c].exp \in Nat
      /\ asked.kind = "check" => wire'[c].method = "check"
  BY DEF IInv, CallInv, Early, Send
<1>2. asked.kind = "check" => asked.kind \notin Mutations /\ asked.kind # "admin"
  BY DEF Mutations
<1> QED
  BY <1>1, <1>2
     DEF CallInv, Early, UnderWay, InTime, WorkFits, ReplyFits, AnswerFits, EffectFits,
         Mutations

LEMMA RefusesIInv ==
  ASSUME IInv, NEW c \in Calls, GatewayRefuses(c)
  PROVE  CallInv(c)'
<1>1. /\ stage'[c] = "answered" /\ reply'[c] = None /\ did'[c] = {}
      /\ work'[c] = None /\ sentAt'[c] \in Nat
      /\ answer'[c] = GatewayRefusal(c)
      /\ token'[c] = None \/ token'[c].exp \in Nat
  BY DEF IInv, CallInv, Early, GatewayRefuses
<1>2. GatewayRefusal(c) # None =>
        GatewayRefusal(c).why # "signature" /\ GatewayRefusal(c).status # 200
  BY DEF GatewayRefusal, GuardRefusal, TokenRefusal, BodyRefusal, HeaderRefusal, Refused
<1> QED
  BY <1>1, <1>2
     DEF GatewayRefuses, CallInv, Early, UnderWay, InTime, WorkFits, ReplyFits, AnswerFits,
         EffectFits

LEMMA ForwardsIInv ==
  ASSUME IInv, NEW c \in Calls, GatewayForwards(c)
  PROVE  CallInv(c)'
<1>1. /\ stage'[c] = "rpc" /\ reply'[c] = None /\ did'[c] = {} /\ work'[c] = None
      /\ sentAt'[c] \in Nat
      /\ ask'[c] = ask[c] /\ ask[c] \in Asks /\ ask[c].kind # "check"
      /\ token'[c] = token[c]
      /\ sentAt'[c] = sentAt[c] /\ wire'[c] = Forwarded(c)
      /\ UNCHANGED <<skew, deployment, clock>>
      /\ token'[c] = None \/ token'[c].exp \in Nat
      /\ GatewayRefusal(c) = None /\ clock \in Nat
  BY DEF IInv, CallInv, Early, GatewayForwards, setting
<1>2. ask[c].kind = "admin" => AdminMessage(c)'
  <2> SUFFICES ASSUME ask[c].kind = "admin" PROVE AdminMessage(c)'
    OBVIOUS
  <2>2. GuardRefusal(c) = None /\ ask[c].kind \in Behind
    BY <1>1 DEF GatewayRefusal, Behind
  <2>3. token[c] # None /\ TokenRefusal(token[c]) = None
    BY RefusalIsSome, <2>2 DEF GuardRefusal
  <2>4. ~(token[c].exp <= clock)
    BY RefusalIsSome, <2>3 DEF TokenRefusal
  <2>5. clock < token[c].exp
    BY <1>1, <2>3, <2>4
  <2>6. wire'[c] = LET request == Canonical(ask[c], token[c].user)
                   IN  Message("trusted", request, clock, GatewaySignature(request, clock))
    BY <1>1 DEF Forwarded, TrustedMutatePolicy, Canonical
  <2> QED
    BY <1>1, <2>3, <2>5, <2>6 DEF AdminMessage, GatewaySignature
<1>3. ask[c].kind = "signed" =>
        wire'[c] = Message("secure", Requested(ask[c], ask[c].user), sentAt[c],
                           CallerSignature(c))
  BY <1>1 DEF Forwarded, SecureMutatePolicy
<1>4. ask[c].kind \notin Mutations => wire'[c].method \in {"list", "history", "check"}
  <2>1. ask[c].kind \notin Mutations => ask[c].kind \in {"list", "history"}
    BY <1>1, GatewayAssumption DEF Mutations, Behind
  <2> QED
    BY <1>1, <2>1 DEF Forwarded
<1>5. CallerSignature(c)' = CallerSignature(c)
  BY <1>1 DEF CallerSignature
<1>6. UnderWay(c)'
  BY <1>1, <1>2, <1>3, <1>4, <1>5 DEF UnderWay
<1> QED
  BY <1>1, <1>6 DEF CallInv, Early, InTime, WorkFits, ReplyFits, AnswerFits, EffectFits

\* A mutation the backend was sent is read by it as the gateway wrote it.
LEMMA MutationArrives ==
  ASSUME IInv, NEW c \in Calls, stage[c] = "rpc", ask[c].kind \in Mutations
  PROVE  /\ wire[c].method = IF ask[c].kind = "admin" THEN "trusted" ELSE "secure"
         /\ ValidateAndNormalizeInput(wire[c].request) = Canonical(ask[c], Signer(c))
         /\ ask[c].kind = "admin" =>
              /\ wire[c].timestamp \in Nat /\ wire[c].timestamp < token[c].exp
              /\ token[c].exp \in Nat
              /\ wire[c].signature =
                   GatewaySignature(Canonical(ask[c], token[c].user), wire[c].timestamp)
         /\ ask[c].kind = "signed" =>
              wire[c].timestamp = sentAt[c] /\ wire[c].signature = CallerSignature(c)
<1>1. UnderWay(c) /\ (token[c] = None \/ token[c].exp \in Nat)
  BY DEF IInv, CallInv
<1>2. CASE ask[c].kind = "admin"
  <2>1. PICK time \in Nat :
          /\ token[c] # None /\ time < token[c].exp
          /\ wire[c] = Message("trusted", Canonical(ask[c], token[c].user), time,
                         GatewaySignature(Canonical(ask[c], token[c].user), time))
    BY <1>1, <1>2 DEF UnderWay, AdminMessage
  <2>2. /\ wire[c].method = "trusted" /\ wire[c].timestamp = time
        /\ wire[c].signature = GatewaySignature(Canonical(ask[c], token[c].user), time)
    BY <2>1 DEF Message
  <2>3. ValidateAndNormalizeInput(wire[c].request) = Canonical(ask[c], Signer(c))
    BY <1>1, <1>2, <2>1, CanonicalAtBothEnds DEF Signer, UnderWay
  <2>4. token[c].exp \in Nat
    BY <1>1, <2>1
  <2> QED
    BY <1>2, <2>1, <2>2, <2>3, <2>4
<1>3. CASE ask[c].kind = "signed"
  <2>1. wire[c] = Message("secure", Requested(ask[c], ask[c].user), sentAt[c],
                          CallerSignature(c))
    BY <1>1, <1>3 DEF UnderWay
  <2>2. /\ wire[c].method = "secure" /\ wire[c].signature = CallerSignature(c)
        /\ wire[c].timestamp = sentAt[c]
    BY <2>1 DEF Message
  <2>3. ValidateAndNormalizeInput(wire[c].request) = Canonical(ask[c], Signer(c))
    BY <1>1, <1>3, <2>1, CanonicalAtBothEnds DEF Signer, UnderWay
  <2> QED
    BY <1>3, <2>2, <2>3
<1> QED
  BY <1>2, <1>3 DEF Mutations

\* A signature is refused only where the two sides have different secrets, or the key was
\* left out of it.
LEMMA RefusedSignature ==
  ASSUME IInv, NEW c \in Calls, stage[c] = "rpc", ask[c].kind \in Mutations,
         wire[c].signature # None,
         wire[c].signature \notin
           Expected(wire[c].method, ValidateAndNormalizeInput(wire[c].request),
                    wire[c].timestamp)
  PROVE  Disagreeing(c)
<1>1. CASE ask[c].kind = "admin"
  <2> DEFINE request == Canonical(ask[c], token[c].user)
  <2>1. /\ wire[c].method = "trusted"
        /\ ValidateAndNormalizeInput(wire[c].request) = request
        /\ wire[c].signature = GatewaySignature(request, wire[c].timestamp)
    BY <1>1, MutationArrives DEF Signer
  <2>2. GatewaySignature(request, wire[c].timestamp)
          # TrustedSignature(request, wire[c].timestamp)
    BY <2>1 DEF Expected
  <2> HIDE DEF request
  <2> QED
    BY <1>1, <2>2 DEF GatewaySignature, TrustedSignature, Disagreeing
<1>2. CASE ask[c].kind = "signed"
  <2> DEFINE request == Canonical(ask[c], ask[c].user)
             Signed(withKey) ==
               SecureSignature(deployment.callers, request, sentAt[c], withKey)
  <2>1. /\ wire[c].method = "secure" /\ wire[c].timestamp = sentAt[c]
        /\ ValidateAndNormalizeInput(wire[c].request) = request
        /\ wire[c].signature = Signed(ask[c].withKey)
    BY <1>2, MutationArrives DEF Signer, CallerSignature, Canonical
  <2>2. request.key = ask[c].key
    BY RequestFields
  <2> HIDE DEF request
  <2>3. Signed(ask[c].withKey) = IF ask[c].withKey THEN Signed(TRUE) ELSE Signed(FALSE)
    BY DEF SecureSignature
  <2> HIDE DEF Signed
  <2>4. ASSUME deployment.callers = deployment.shared,
               ask[c].key = None \/ ask[c].withKey
        PROVE  FALSE
    <3>1. Expected("secure", request, sentAt[c]) =
            {Signed(withKey) : withKey \in IF ask[c].key = None THEN BOOLEAN ELSE {TRUE}}
      BY <2>2, <2>4 DEF Expected, Signed
    <3>2. CASE ask[c].withKey
      <4>1. Signed(ask[c].withKey) = Signed(TRUE)
        BY <2>3, <3>2
      <4> QED
        BY <2>1, <3>1, <4>1
    <3>3. CASE ~ask[c].withKey
      <4>1. Signed(ask[c].withKey) = Signed(FALSE) /\ ask[c].key = None
        BY <2>3, <2>4, <3>3
      <4> QED
        BY <2>1, <3>1, <4>1
    <3> QED
      BY <3>2, <3>3
  <2> QED
    BY <1>2, <2>4 DEF Disagreeing
<1> QED
  BY <1>1, <1>2 DEF Mutations

\* The outcomes of a mutation, and what the client hears of the refused ones.
LEMMA MutationEnds ==
  ASSUME NEW admitted, NEW outcome \in MutationOutcomes(admitted)
  PROVE  /\ outcome.did \in {{}, {admitted}}
         /\ outcome.error # None =>
              /\ outcome.error.status \in {409, 500}
              /\ outcome.error.why \in {"conflict", "failed"}
              /\ outcome.error.status = 409 => outcome.did = {}
         /\ outcome.error = None =>
              /\ outcome.did = {} <=> outcome.result.replayed
              /\ outcome.result \in [policy : {admitted.request.policy},
                                     action : {admitted.request.action}, changed : BOOLEAN,
                                     key : {admitted.request.key}, replayed : BOOLEAN]
<1> DEFINE request == admitted.request
           made == {admitted}
           Results == [policy : {request.policy}, action : {request.action},
                       changed : BOOLEAN, key : {request.key},
                       replayed : IF request.key = None THEN {FALSE} ELSE BOOLEAN]
<1>0. None # Refused(409, "conflict") /\ None # Refused(500, "failed")
  BY RefusalIsSome
<1>1. CASE outcome \in {[did |-> {}, error |-> Refused(409, "conflict"), result |-> None]}
  BY <1>0, <1>1 DEF Refused
<1>2. CASE outcome \in {[did |-> effect, error |-> Refused(500, "failed"), result |-> None] :
                         effect \in {{}, made}}
  BY <1>0, <1>2 DEF Refused
<1>3. CASE \E result \in Results :
             outcome = [did |-> IF result.replayed THEN {} ELSE made,
                        error |-> None, result |-> result]
  <2>1. PICK result \in Results :
          outcome = [did |-> IF result.replayed THEN {} ELSE made,
                     error |-> None, result |-> result]
    BY <1>3
  <2>2. result \in [policy : {request.policy}, action : {request.action},
                    changed : BOOLEAN, key : {request.key}, replayed : BOOLEAN]
    <3>1. CASE request.key = None
      BY <3>1
    <3>2. CASE request.key # None
      BY <3>2
    <3> QED
      BY <3>1, <3>2
  <2>3. result.replayed \in BOOLEAN
    BY <2>2
  <2>4. /\ outcome.error = None /\ outcome.result = result
        /\ outcome.did = IF result.replayed THEN {} ELSE made
    BY <2>1
  <2>5. made # {}
    OBVIOUS
  <2> HIDE DEF made
  <2>6. outcome.did \in {{}, made} /\ (outcome.did = {} <=> outcome.result.replayed)
    BY <2>3, <2>4, <2>5
  <2> QED
    BY <2>2, <2>4, <2>6 DEF made
<1>4. MutationOutcomes(admitted) =
        {[did |-> IF result.replayed THEN {} ELSE made, error |-> None, result |-> result] :
           result \in Results}
        \cup {[did |-> {}, error |-> Refused(409, "conflict"), result |-> None]}
        \cup {[did |-> effect, error |-> Refused(500, "failed"), result |-> None] :
                effect \in {{}, made}}
  BY DEF MutationOutcomes
<1>5. \/ outcome \in {[did |-> {}, error |-> Refused(409, "conflict"), result |-> None]}
      \/ outcome \in {[did |-> effect, error |-> Refused(500, "failed"), result |-> None] :
                        effect \in {{}, made}}
      \/ \E result \in Results :
           outcome = [did |-> IF result.replayed THEN {} ELSE made,
                      error |-> None, result |-> result]
  <2> HIDE DEF made, Results
  <2> QED
    BY <1>4
<1> QED
  BY <1>1, <1>2, <1>3, <1>5

LEMMA MutationRefused ==
  ASSUME NEW message, MutationRefusal(message) # None
  PROVE  /\ MutationRefusal(message).status \in {400, 401, 500}
         /\ MutationRefusal(message).why = "signature" =>
              /\ message.signature # None
              /\ message.signature \notin
                   Expected(message.method, ValidateAndNormalizeInput(message.request),
                            message.timestamp)
<1> DEFINE request == ValidateAndNormalizeInput(message.request)
           secret  == IF message.method = "trusted" THEN deployment.backend
                      ELSE deployment.shared
<1>1. MutationRefusal(message) =
        IF Unsupported \in {request.policy, request.action} THEN Refused(400, "enum")
        ELSE IF secret = None THEN Refused(500, "unconfigured")
        ELSE IF request.key \in TooLong \/ request.requestedBy \in TooLong
                  \/ message.signature = None
          THEN Refused(400, "input")
        ELSE IF ~InWindow(message.timestamp) THEN Refused(401, "window")
        ELSE IF message.signature \notin
                  Expected(message.method, request, message.timestamp)
          THEN Refused(401, "signature")
        ELSE None
  BY DEF MutationRefusal
<1> HIDE DEF request, secret
<1>2. /\ MutationRefusal(message).status \in {400, 401, 500}
      /\ MutationRefusal(message).why = "signature" =>
           /\ message.signature # None
           /\ message.signature \notin Expected(message.method, request, message.timestamp)
  <2>1. CASE MutationRefusal(message) = Refused(400, "enum")
    BY <2>1 DEF Refused
  <2>2. CASE MutationRefusal(message) = Refused(500, "unconfigured")
    <3>1. /\ MutationRefusal(message).status = 500
          /\ MutationRefusal(message).why = "unconfigured"
      BY <2>2 DEF Refused
    <3> QED
      BY <3>1
  <2>3. CASE MutationRefusal(message) = Refused(400, "input")
    BY <2>3 DEF Refused
  <2>4. CASE MutationRefusal(message) = Refused(401, "window")
    BY <2>4 DEF Refused
  <2>5. CASE /\ MutationRefusal(message) = Refused(401, "signature")
             /\ message.signature # None
             /\ message.signature \notin
                  Expected(message.method, request, message.timestamp)
    BY <2>5 DEF Refused
  <2> QED
    BY <1>1, <2>1, <2>2, <2>3, <2>4, <2>5
<1> QED
  BY <1>2 DEF request

\* A mutation that passed the checks was in the window of its signature.
LEMMA AcceptedInWindow ==
  ASSUME NEW message, MutationRefusal(message) = None
  PROVE  InWindow(message.timestamp)
BY RefusalIsSome DEF MutationRefusal

\* What comes at once of a message: of a mutation an error only, and nothing is done.
LEMMA RepliedAtOnce ==
  ASSUME IInv, NEW c \in Calls, stage[c] = "rpc", NEW outcome \in Outcomes(wire[c])
  PROVE  /\ outcome.error # None => outcome.error.status \in {400, 401, 500}
         /\ ask[c].kind \in Mutations =>
              /\ outcome.error # None
              /\ outcome.error.why = "signature" => Disagreeing(c)
<1>1. CASE ask[c].kind \in Mutations
  <2>1. Mutates(wire[c])
    BY <1>1, MutationArrives DEF Mutates
  <2>2. outcome.error = MutationRefusal(wire[c]) /\ outcome.error # None
    BY <2>1 DEF Outcomes, Mutates
  <2> QED
    BY <1>1, <2>2, MutationRefused, RefusedSignature
<1>2. CASE ask[c].kind \notin Mutations
  <2>1. wire[c].method \in {"list", "history", "check"}
    BY <1>2 DEF IInv, CallInv, UnderWay
  <2>2. outcome.error # None => outcome.error.status \in {400, 500}
    BY <2>1 DEF Outcomes, Mutates, ReadOutcomes, CheckOutcomes, Refused
  <2> QED
    BY <1>2, <2>2
<1> QED
  BY <1>1, <1>2

LEMMA RepliesIInv ==
  ASSUME IInv, NEW c \in Calls, BackendReplies(c)
  PROVE  CallInv(c)'
<1>1. PICK outcome \in Outcomes(wire[c]) :
        reply' = [reply EXCEPT ![c] = ReplyTo(wire[c], outcome)]
  BY DEF BackendReplies
<1>2. /\ stage[c] = "rpc" /\ stage'[c] = "returning" /\ did'[c] = {} /\ work'[c] = None
      /\ UNCHANGED <<skew, deployment, ask, token, sentAt, wire>>
      /\ reply'[c] = ReplyTo(wire[c], outcome)
      /\ token[c] = None \/ token[c].exp \in Nat
      /\ sentAt[c] \in Nat
  BY <1>1 DEF BackendReplies, IInv, CallInv, UnderWay, setting
<1>3. /\ outcome.error # None => outcome.error.status \in {400, 401, 500}
      /\ ask[c].kind \in Mutations =>
           /\ outcome.error # None
           /\ outcome.error.why = "signature" => Disagreeing(c)
  BY <1>2, RepliedAtOnce
<1>4. CASE outcome.error = None
  <2>1. reply'[c].code = "OK" /\ ask'[c].kind \notin Mutations
    BY <1>2, <1>3, <1>4 DEF ReplyTo
  <2> QED
    BY <1>2, <2>1
       DEF CallInv, Early, UnderWay, InTime, WorkFits, ReplyFits, AnswerFits, EffectFits
<1>5. CASE outcome.error # None
  <2>1. /\ reply'[c].code = GrpcCode(outcome.error.status)
        /\ reply'[c].why = outcome.error.why /\ reply'[c].raised = outcome.error.status
    BY <1>2, <1>5 DEF ReplyTo
  <2>2. HttpStatus(reply'[c].code) = reply'[c].raised /\ reply'[c].code # "OK"
    BY <1>3, <1>5, <2>1, StatusComesBack
  <2>3. Disagreeing(c)' = Disagreeing(c)
    BY <1>2 DEF Disagreeing
  <2>4. ReplyFits(c)'
    BY <1>2, <1>3, <2>1, <2>2, <2>3 DEF ReplyFits
  <2> QED
    BY <1>2, <2>2, <2>4
       DEF CallInv, Early, UnderWay, InTime, WorkFits, AnswerFits, EffectFits
<1> QED
  BY <1>4, <1>5

LEMMA AdmitsIInv ==
  ASSUME IInv, NEW c \in Calls, BackendAdmits(c)
  PROVE  CallInv(c)'
<1>1. /\ stage[c] = "rpc" /\ stage'[c] = "working" /\ Mutates(wire[c])
      /\ MutationRefusal(wire[c]) = None
      /\ UNCHANGED <<skew, deployment, ask, token, sentAt, wire, did, reply, answer>>
      /\ work'[c].request = ValidateAndNormalizeInput(wire[c].request)
      /\ work'[c].since = clock
      /\ did[c] = {} /\ ask[c] \in Asks /\ sentAt[c] \in Nat
      /\ token[c] = None \/ token[c].exp \in Nat
      /\ clock \in Nat /\ skew \in Int /\ Past \in Nat
      /\ ReplyFits(c)
  BY GatewayAssumption DEF BackendAdmits, IInv, CallInv, UnderWay, setting
<1>2. ask[c].kind \in Mutations
  BY <1>1 DEF IInv, CallInv, UnderWay, Mutates
<1>3. /\ ValidateAndNormalizeInput(wire[c].request) = Canonical(ask[c], Signer(c))
      /\ ask[c].kind = "admin" =>
           /\ wire[c].timestamp \in Nat /\ wire[c].timestamp < token[c].exp
           /\ token[c].exp \in Nat
      /\ ask[c].kind = "signed" => wire[c].timestamp = sentAt[c]
  BY <1>1, <1>2, MutationArrives
<1>4. wire[c].timestamp >= clock + skew - Past
  BY <1>1, AcceptedInWindow DEF InWindow
<1>5. clock + skew < (IF ask[c].kind = "admin" THEN token[c].exp ELSE sentAt[c] + 1) + Past
  <2>1. CASE ask[c].kind = "admin"
    BY <1>1, <1>3, <1>4, <2>1
  <2>2. CASE ask[c].kind # "admin"
    <3>1. ask[c].kind = "signed"
      BY <1>2, <2>2 DEF Mutations
    <3>2. sentAt[c] >= clock + skew - Past
      BY <1>3, <1>4, <3>1
    <3> QED
      BY <1>1, <2>2, <3>2
  <2> QED
    BY <2>1, <2>2
<1>6. Admissible(c, work[c])'
  <2>1. Signer(c)' = Signer(c)
    BY <1>1 DEF Signer
  <2>2. work'[c].request = Canonical(ask[c], Signer(c))
    BY <1>1, <1>3
  <2>3. work'[c].request = Canonical(ask[c], Signer(c))'
    BY <1>1, <2>1, <2>2
  <2>4. (work'[c].since + skew <
           (IF ask[c].kind = "admin" THEN token[c].exp ELSE sentAt[c] + 1) + Past)
    BY <1>1, <1>5
  <2> QED
    BY <1>1, <2>3, <2>4 DEF Admissible
<1>7. WorkFits(c)'
  BY <1>1, <1>2, <1>6 DEF WorkFits, Mutates
<1>8. ReplyFits(c)'
  BY <1>1 DEF ReplyFits
<1> QED
  BY <1>1, <1>7, <1>8 DEF CallInv, Early, UnderWay, InTime, AnswerFits, EffectFits

LEMMA EndsIInv ==
  ASSUME IInv, NEW c \in Calls, BackendEnds(c)
  PROVE  CallInv(c)'
<1>1. PICK outcome \in MutationOutcomes(work[c]) :
        /\ did' = [did EXCEPT ![c] = outcome.did]
        /\ IF stage[c] = "working"
           THEN /\ stage' = [stage EXCEPT ![c] = "returning"]
                /\ reply' = [reply EXCEPT ![c] = ReplyTo(wire[c], outcome)]
           ELSE UNCHANGED <<stage, reply>>
  BY DEF BackendEnds
<1>2. /\ work[c] # None /\ work'[c] = None /\ did'[c] = outcome.did
      /\ UNCHANGED <<skew, deployment, ask, token, sentAt, wire, answer>>
      /\ sentAt[c] \in Nat /\ (token[c] = None \/ token[c].exp \in Nat)
      /\ ask[c].kind \in Mutations /\ Mutates(wire[c]) /\ Admissible(c, work[c])
      /\ stage[c] \notin {"idle", "http", "rpc"}
  BY <1>1 DEF BackendEnds, IInv, CallInv, WorkFits, Early, UnderWay, setting
<1>3. outcome.did \in {{}, {work[c]}}
  BY <1>1, MutationEnds
<1>4. InTime(c)'
  <2> SUFFICES ASSUME NEW admitted \in did'[c] PROVE Admissible(c, admitted)'
    BY DEF InTime
  <2>1. Admissible(c, admitted)
    BY <1>2, <1>3
  <2>2. Signer(c)' = Signer(c)
    BY <1>2 DEF Signer
  <2> QED
    BY <1>2, <2>1, <2>2 DEF Admissible
<1>5. Disagreeing(c)' = Disagreeing(c)
  BY <1>2 DEF Disagreeing
<1>6. CASE stage[c] # "working"
  <2>1. stage'[c] = stage[c] /\ reply'[c] = reply[c] /\ CallInv(c)
    BY <1>1, <1>6 DEF IInv
  <2>2. EffectFits(c)'
    BY <1>2, <2>1 DEF CallInv, EffectFits, Mutates
  <2> QED
    BY <1>2, <1>4, <1>5, <2>1, <2>2
       DEF CallInv, Early, UnderWay, WorkFits, ReplyFits, AnswerFits
<1>7. CASE stage[c] = "working"
  <2>1. stage'[c] = "returning" /\ reply'[c] = ReplyTo(wire[c], outcome)
    BY <1>1, <1>7 DEF IInv
  <2>2. CASE outcome.error = None
    <3>1. /\ reply'[c].code = "OK"
          /\ reply'[c].response = Response(wire[c].method, outcome.result)
      BY <2>1, <2>2 DEF ReplyTo
    <3>2. HttpStatus("OK") = 500
      BY DEF HttpStatus
    <3>3. outcome.did = {} <=> Response(wire[c].method, outcome.result).replayed
      <4> DEFINE policy == work[c].request.policy
                 action == work[c].request.action
                 key == work[c].request.key
      <4>1. /\ outcome.did = {} <=> outcome.result.replayed
            /\ outcome.result \in [policy : {policy}, action : {action},
                                   changed : BOOLEAN, key : {key}, replayed : BOOLEAN]
        BY <1>1, <2>2, MutationEnds
      <4> HIDE DEF policy, action, key
      <4>2. Response(wire[c].method, outcome.result) =
              [outcome.result EXCEPT !.policy = BackendPolicy[@], !.action = BackendAction[@]]
        BY <1>2 DEF Response, Mutates
      <4>3. Response(wire[c].method, outcome.result).replayed = outcome.result.replayed
        BY <4>1, <4>2
      <4> QED
        BY <4>1, <4>3
    <3>4. EffectFits(c)'
      BY <1>2, <2>1, <3>1, <3>2, <3>3 DEF EffectFits, Mutates
    <3> QED
      BY <1>2, <1>4, <2>1, <3>1, <3>4
         DEF CallInv, Early, UnderWay, WorkFits, ReplyFits, AnswerFits
  <2>3. CASE outcome.error # None
    <3>1. /\ outcome.error.status \in {409, 500}
          /\ outcome.error.why \in {"conflict", "failed"}
          /\ outcome.error.status = 409 => outcome.did = {}
      BY <1>1, <2>3, MutationEnds
    <3>2. /\ reply'[c].code = GrpcCode(outcome.error.status)
          /\ reply'[c].why = outcome.error.why /\ reply'[c].raised = outcome.error.status
      BY <2>1, <2>3 DEF ReplyTo
    <3>3. /\ HttpStatus(reply'[c].code) = outcome.error.status
          /\ reply'[c].code # "OK" /\ reply'[c].why # "signature"
      BY <3>1, <3>2, StatusComesBack
    <3>4. ReplyFits(c)'
      BY <3>2, <3>3 DEF ReplyFits
    <3>5. EffectFits(c)'
      BY <1>2, <2>1, <3>1, <3>3 DEF EffectFits
    <3> QED
      BY <1>2, <1>4, <2>1, <3>4, <3>5 DEF CallInv, Early, UnderWay, WorkFits, AnswerFits
  <2> QED
    BY <2>2, <2>3
<1> QED
  BY <1>6, <1>7

LEMMA BreaksIInv ==
  ASSUME IInv, NEW c \in Calls, ConnectionBreaks(c)
  PROVE  CallInv(c)'
<1>1. /\ stage'[c] = "returning" /\ reply'[c].code = "UNAVAILABLE"
      /\ reply'[c].raised = 503 /\ InTime(c) /\ WorkFits(c) /\ sentAt[c] \in Nat
      /\ token[c] = None \/ token[c].exp \in Nat
      /\ UNCHANGED <<skew, deployment, ask, token, sentAt, wire, work, did>>
  BY DEF IInv, CallInv, ConnectionBreaks, setting
<1>2. InTime(c)' /\ WorkFits(c)'
  BY <1>1 DEF InTime, WorkFits, Admissible, Mutates, Signer
<1>3. HttpStatus("UNAVAILABLE") = 503
  BY DEF HttpStatus
<1> QED
  BY <1>1, <1>2, <1>3 DEF CallInv, Early, UnderWay, ReplyFits, AnswerFits, EffectFits

LEMMA AnswerIInv ==
  ASSUME IInv, NEW c \in Calls, Answer(c)
  PROVE  CallInv(c)'
<1>1. /\ stage[c] = "returning" /\ stage'[c] = "answered" /\ answer'[c] = Answered(c)
      /\ UNCHANGED <<skew, deployment, ask, token, sentAt, wire, work, did, reply>>
      /\ CallInv(c)
  BY DEF IInv, Answer, setting
<1>2. InTime(c)' /\ WorkFits(c)'
  BY <1>1 DEF CallInv, InTime, WorkFits, Admissible, Mutates, Signer
<1>3. /\ (reply[c].code # "OK" /\ ask[c].kind # "check") =>
           Answered(c) = Refused(HttpStatus(reply[c].code), reply[c].why)
      /\ "check" \notin Mutations
  BY DEF Answered, Mutations
<1>4. reply[c].code = "OK" => Answered(c).status # 401
  BY DEF Answered, Refused
<1>5. HttpStatus(reply[c].code) = 401 => reply[c].code = "UNAUTHENTICATED"
  BY DEF HttpStatus
<1>6. AnswerFits(c)'
  <2>1. (ask[c].kind # "check" /\ reply[c] # None /\ reply[c].code # "OK") =>
          Answered(c).status = HttpStatus(reply[c].code)
    BY <1>3 DEF Refused
  <2>2. (ask[c].kind \in Mutations /\ Answered(c).status = 401
           /\ Answered(c).why = "signature") => Disagreeing(c)
    <3> SUFFICES ASSUME ask[c].kind \in Mutations
                 PROVE  (Answered(c).status = 401 /\ Answered(c).why = "signature")
                          => Disagreeing(c)
      OBVIOUS
    <3>1. CASE reply[c].code # "OK"
      <4>1. Answered(c).status = HttpStatus(reply[c].code) /\ Answered(c).why = reply[c].why
        BY <1>3, <3>1 DEF Refused
      <4> QED
        BY <1>1, <1>5, <4>1 DEF CallInv, ReplyFits
    <3> QED
      BY <1>4, <3>1
  <2>3. Disagreeing(c)' = Disagreeing(c)
    BY <1>1 DEF Disagreeing
  <2> QED
    BY <1>1, <2>1, <2>2, <2>3 DEF AnswerFits
<1>7. ReplyFits(c)'
  BY <1>1 DEF CallInv, ReplyFits
<1>8. EffectFits(c)'
  <2> SUFFICES ASSUME ask[c].kind \in Mutations
               PROVE  /\ Answered(c).status \in {400, 401, 409} =>
                           did[c] = {} /\ work[c] = None
                      /\ Answered(c).status = 200 =>
                           work[c] = None /\ (did[c] = {} <=> Answered(c).body.replayed)
    BY <1>1 DEF EffectFits
  <2>1. /\ HttpStatus(reply[c].code) \in {400, 401, 409} => did[c] = {} /\ work[c] = None
        /\ reply[c].code = "OK" =>
             /\ wire[c].method \in {"trusted", "secure"} /\ work[c] = None
             /\ did[c] = {} <=> reply[c].response.replayed
    BY <1>1 DEF CallInv, EffectFits, Mutates
  <2>2. CASE reply[c].code # "OK"
    <3>1. Answered(c).status = HttpStatus(reply[c].code)
      BY <1>3, <2>2 DEF Refused
    <3>2. HttpStatus(reply[c].code) # 200
      BY DEF HttpStatus
    <3> QED
      BY <2>1, <3>1, <3>2
  <2>3. CASE reply[c].code = "OK"
    <3>1. Answered(c).status \in {200, 500}
      BY <2>3 DEF Answered, Refused
    <3>2. Answered(c).status = 200 =>
            Answered(c).body = ReadBack(wire[c].method, reply[c].response)
      BY <2>3 DEF Answered, Refused
    <3>3. ReadBack(wire[c].method, reply[c].response).replayed = reply[c].response.replayed
      BY <2>1, <2>3 DEF ReadBack
    <3> QED
      BY <2>1, <2>3, <3>1, <3>2, <3>3
  <2> QED
    BY <2>2, <2>3
<1> QED
  BY <1>1, <1>2, <1>6, <1>7, <1>8 DEF CallInv, Early, UnderWay

\* A step about one call keeps the others, the clocks and the domains.
Elsewhere(c) ==
  /\ UNCHANGED <<clock, skew, session>>
  /\ DOMAIN stage' = Calls /\ DOMAIN ask' = Calls /\ DOMAIN token' = Calls
  /\ DOMAIN sentAt' = Calls /\ DOMAIN wire' = Calls /\ DOMAIN work' = Calls
  /\ DOMAIN did' = Calls
  /\ DOMAIN reply' = Calls /\ DOMAIN answer' = Calls
  /\ \A d \in Calls \ {c} : Same(d)

LEMMA OneCallMoves ==
  ASSUME IInv, NEW c \in Calls, Elsewhere(c), CallInv(c)'
  PROVE  IInv'
<1>1. \A d \in Calls : CallInv(d)'
  <2>1. ASSUME NEW d \in Calls \ {c} PROVE CallInv(d)'
    BY <2>1, Untouched DEF IInv, Elsewhere
  <2> QED
    BY <2>1
<1>2. \A f \in {stage, ask, token, sentAt, wire, work, did, reply, answer}' : DOMAIN f = Calls
  BY DEF Elsewhere
<1> QED
  BY <1>1, <1>2 DEF IInv, Elsewhere

LEMMA NextIInv ==
  ASSUME IInv, [Next]_vars
  PROVE  IInv'
<1>1. CASE Tick \/ Redeploy \/ (\E user \in Users : Login(user)) \/ UNCHANGED vars
  <2>1. /\ clock' \in Nat /\ UNCHANGED <<skew, ask, token, sentAt, stage, wire, work, did,
                                         reply, answer, deployment>>
        /\ session' = None \/ session'.exp \in Nat
    <3>1. CASE Tick \/ Redeploy \/ UNCHANGED vars
      BY <3>1 DEF IInv, Tick, Redeploy, vars, setting
    <3>2. ASSUME NEW user \in Users, Login(user)
          PROVE  /\ session'.exp = clock + Ttl
                 /\ UNCHANGED <<clock, skew, ask, token, sentAt, stage, wire, work, did,
                                reply, answer, deployment>>
      BY <3>2 DEF Login, IssueToken, setting
    <3> QED
      BY <1>1, <3>1, <3>2, GatewayAssumption DEF IInv
  <2>2. \A c \in Calls : CallInv(c)'
    BY <2>1, Untouched DEF IInv, Same
  <2> QED
    BY <2>1, <2>2 DEF IInv
<1>2. ASSUME NEW c \in Calls, NEW asked \in Asks, Send(c, asked) PROVE IInv'
  <2>1. Elsewhere(c)
    BY <1>2 DEF Send, Elsewhere, Same, IInv, setting
  <2> QED
    BY <1>2, <2>1, SendIInv, OneCallMoves
<1>3. ASSUME NEW c \in Calls, GatewayRefuses(c) PROVE IInv'
  <2>1. Elsewhere(c)
    BY <1>3 DEF GatewayRefuses, Elsewhere, Same, IInv, setting
  <2> QED
    BY <1>3, <2>1, RefusesIInv, OneCallMoves
<1>4. ASSUME NEW c \in Calls, GatewayForwards(c) PROVE IInv'
  <2>1. Elsewhere(c)
    BY <1>4 DEF GatewayForwards, Elsewhere, Same, IInv, setting
  <2> QED
    BY <1>4, <2>1, ForwardsIInv, OneCallMoves
<1>5. ASSUME NEW c \in Calls, BackendReplies(c) PROVE IInv'
  <2>1. Elsewhere(c)
    BY <1>5 DEF BackendReplies, Elsewhere, Same, IInv, setting
  <2> QED
    BY <1>5, <2>1, RepliesIInv, OneCallMoves
<1>8. ASSUME NEW c \in Calls, BackendAdmits(c) PROVE IInv'
  <2>1. Elsewhere(c)
    BY <1>8 DEF BackendAdmits, Elsewhere, Same, IInv, setting
  <2> QED
    BY <1>8, <2>1, AdmitsIInv, OneCallMoves
<1>9. ASSUME NEW c \in Calls, BackendEnds(c) PROVE IInv'
  <2>1. Elsewhere(c)
    BY <1>9 DEF BackendEnds, Elsewhere, Same, IInv, setting
  <2> QED
    BY <1>9, <2>1, EndsIInv, OneCallMoves
<1>6. ASSUME NEW c \in Calls, ConnectionBreaks(c) PROVE IInv'
  <2>1. Elsewhere(c)
    BY <1>6 DEF ConnectionBreaks, Elsewhere, Same, IInv, setting
  <2> QED
    BY <1>6, <2>1, BreaksIInv, OneCallMoves
<1>7. ASSUME NEW c \in Calls, Answer(c) PROVE IInv'
  <2>1. Elsewhere(c)
    BY <1>7 DEF Answer, Elsewhere, Same, IInv, setting
  <2> QED
    BY <1>7, <2>1, AnswerIInv, OneCallMoves
<1> QED
  BY <1>1, <1>2, <1>3, <1>4, <1>5, <1>6, <1>7, <1>8, <1>9 DEF Next

-----------------------------------------------------------------------------
(* What the client reads.  The tables of numbers, a repeated field without elements and *)
(* an int32 each lose something on the wire; these facts say what comes back.           *)

\* What the backend writes as a number the gateway, or a gRPC caller, reads as its name.
LEMMA NamesReadBack ==
  /\ \A name \in {"blacklist", "whitelist"} :
       NameOf(GatewayPolicy, BackendPolicy[name]) = name
  /\ \A name \in {"add", "remove"} : NameOf(GatewayAction, BackendAction[name]) = name
  /\ \A name \in DOMAIN CheckStatus : NameOf(CheckStatus, CheckStatus[name]) = name
  /\ \A name \in DOMAIN AssessmentSource :
       NameOf(AssessmentSource, AssessmentSource[name]) = name
  /\ \A name \in DOMAIN RetrievalSource :
       NameOf(RetrievalSource, RetrievalSource[name]) = name
<1>1. /\ DOMAIN GatewayPolicy = {"blacklist", "whitelist"}
      /\ BackendPolicy["blacklist"] = 1 /\ BackendPolicy["whitelist"] = 2
      /\ GatewayPolicy["blacklist"] = 1 /\ GatewayPolicy["whitelist"] = 2
  BY DEF BackendPolicy, GatewayPolicy
<1>2. /\ DOMAIN GatewayAction = {"add", "remove"}
      /\ BackendAction["add"] = 1 /\ BackendAction["remove"] = 2
      /\ GatewayAction["add"] = 1 /\ GatewayAction["remove"] = 2
  BY DEF BackendAction, GatewayAction
<1>3. /\ DOMAIN CheckStatus = {"ready", "in_progress"}
      /\ CheckStatus["ready"] = 1 /\ CheckStatus["in_progress"] = 2
  BY DEF CheckStatus
<1>4. /\ DOMAIN AssessmentSource = {"provider", "blacklist", "whitelist"}
      /\ AssessmentSource["provider"] = 1 /\ AssessmentSource["blacklist"] = 2
      /\ AssessmentSource["whitelist"] = 3
  BY DEF AssessmentSource
<1>5. /\ DOMAIN RetrievalSource = {"provider", "cache", "policy"}
      /\ RetrievalSource["provider"] = 1 /\ RetrievalSource["cache"] = 2
      /\ RetrievalSource["policy"] = 3
  BY DEF RetrievalSource
<1> QED
  BY <1>1, <1>2, <1>3, <1>4, <1>5 DEF NameOf

\* A list is read with as many elements as were written, none included.
LEMMA ElementsReadBack ==
  ASSUME NEW n \in Nat
  PROVE  NormalizeRepeatedField(OnWire(n)) = n
BY GatewayAssumption DEF NormalizeRepeatedField, OnWire

\* An int32 is what it was, and any other number becomes some int32.
LEMMA Int32Fits ==
  ASSUME NEW n \in Int
  PROVE  /\ ToInt32(n, Half) \in Int
         /\ n \in (-Half)..(Half - 1) => ToInt32(n, Half) = n
<1>1. Half \in Nat /\ Half > 0
  BY GatewayAssumption
<1>2. ASSUME NEW m \in Nat, m > 0, NEW k \in Int
      PROVE  k % m \in Nat /\ (0 <= k /\ k < m => k % m = k)
  BY <1>2
<1>3. 2 * Half \in Nat /\ 2 * Half > 0 /\ n + Half \in Int
  BY <1>1
<1>4. /\ (n + Half) % (2 * Half) \in Nat
      /\ 0 <= n + Half /\ n + Half < 2 * Half => (n + Half) % (2 * Half) = n + Half
  BY <1>2, <1>3
<1> QED
  BY <1>1, <1>4 DEF ToInt32

\* The limit of the history as it is on the wire.
WireLimit(limit) ==
  IF limit = None THEN None ELSE IF limit = NaN THEN 0 ELSE ToInt32(limit, Half)

\* As many rows as the client asked for, and never more than the most.
LEMMA RowsAsAskedFor ==
  ASSUME NEW limit \in Int \cup {None, NaN}, NEW stored \in Nat
  PROVE  /\ Rows(stored, SafeLimit(WireLimit(limit))) \in Nat
         /\ Rows(stored, SafeLimit(WireLimit(limit))) \in HistoryRows(limit, stored)
<1>1. /\ {DefaultLimit, MaxLimit, Half} \subseteq Nat \ {0}
      /\ DefaultLimit <= MaxLimit /\ MaxLimit < Half /\ None \notin Int
  BY GatewayAssumption
<1>2. \A l \in Int \cup {None} : SafeLimit(l) \in 1..MaxLimit
  BY <1>1 DEF SafeLimit
<1>3. \A l \in 1..MaxLimit : Rows(stored, l) \in 0..MaxLimit
  BY <1>1 DEF Rows
<1>4. WireLimit(limit) \in Int \cup {None}
  BY Int32Fits DEF WireLimit
<1>5. Rows(stored, SafeLimit(WireLimit(limit))) \in 0..MaxLimit
  BY <1>2, <1>3, <1>4
<1>6. CASE limit \in {None, NaN} \/ limit \in (-Half)..0
  <2>1. WireLimit(limit) = None \/ (WireLimit(limit) \in Int /\ WireLimit(limit) <= 0)
    BY <1>1, <1>6, Int32Fits DEF WireLimit
  <2>2. SafeLimit(WireLimit(limit)) = DefaultLimit
    BY <2>1 DEF SafeLimit
  <2> QED
    BY <1>1, <1>5, <1>6, <2>2 DEF HistoryRows
<1>7. CASE limit \notin {None, NaN} /\ limit \in 1..(Half - 1)
  <2>1. WireLimit(limit) = limit /\ limit \in Int /\ limit # None /\ limit > 0
    BY <1>1, <1>7, Int32Fits DEF WireLimit
  <2>2. SafeLimit(WireLimit(limit)) = IF limit < MaxLimit THEN limit ELSE MaxLimit
    BY <1>1, <2>1 DEF SafeLimit
  <2>3. limit \notin (-Half)..0
    BY <1>1, <1>7
  <2> QED
    BY <1>5, <1>7, <2>2, <2>3 DEF HistoryRows
<1>8. CASE limit \notin {None, NaN} /\ limit \notin (-Half)..0 /\ limit \notin 1..(Half - 1)
  BY <1>5, <1>8 DEF HistoryRows
<1> QED
  BY <1>5, <1>6, <1>7, <1>8

\* What the client reads is what the use case returned: AnswerReadsBack, of one body.
ReadsAs(asked, result, body) ==
  CASE asked.kind \in Mutations -> body = result
    [] asked.kind = "check" -> body = [result EXCEPT !.signals = IF @ = None THEN 0 ELSE @]
    [] asked.kind = "list" -> body = result.stored
    [] asked.kind = "history" -> body \in HistoryRows(asked.limit, result.stored)

Reads(c, body) == ReadsAs(ask[c], reply[c].result, body)

\* The message that asks for a list, the history or a check.
Query(c) ==
  CASE ask[c].kind = "list" -> [method |-> "list", policy |-> GatewayPolicy[ask[c].policy]]
    [] ask[c].kind = "history" -> [method |-> "history", limit |-> WireLimit(ask[c].limit)]
    [] ask[c].kind = "check" -> [method |-> "check"]

\* A message on its way asks what the client asked; the response on its way back, and
\* then the answer, read as what was found.
CallReads(c) ==
  /\ (stage[c] = "rpc" /\ ask[c].kind \notin Mutations) => wire[c] = Query(c)
  /\ (stage[c] = "returning" /\ reply[c].code = "OK") =>
       Reads(c, ReadBack(wire[c].method, reply[c].response))
  /\ (stage[c] = "answered" /\ answer[c].status = 200) => Reads(c, answer[c].body)

ReadsInv == \A c \in Calls : CallReads(c)

\* The result of a mutation, through the tables of both sides.
LEMMA MutationReadsBack ==
  ASSUME NEW policy \in {"blacklist", "whitelist"}, NEW action \in {"add", "remove"},
         NEW key, NEW method \in {"trusted", "secure"},
         NEW result \in [policy : {policy}, action : {action}, changed : BOOLEAN,
                         key : {key}, replayed : BOOLEAN]
  PROVE  ReadBack(method, Response(method, result)) = result
<1> DEFINE sent == [policy |-> BackendPolicy[policy], action |-> BackendAction[action],
                    changed |-> result.changed, key |-> key, replayed |-> result.replayed]
<1>1. result = [policy |-> policy, action |-> action, changed |-> result.changed,
                key |-> key, replayed |-> result.replayed]
  OBVIOUS
<1>2. Response(method, result) = sent
  BY <1>1 DEF Response
<1>3. ReadBack(method, sent) =
        [sent EXCEPT !.policy = NameOf(GatewayPolicy, @), !.action = NameOf(GatewayAction, @)]
  BY DEF ReadBack
<1>4. ReadBack(method, sent) =
        [policy |-> NameOf(GatewayPolicy, BackendPolicy[policy]),
         action |-> NameOf(GatewayAction, BackendAction[action]),
         changed |-> result.changed, key |-> key, replayed |-> result.replayed]
  BY <1>3
<1> QED
  BY <1>1, <1>2, <1>4, NamesReadBack

\* The result of a check, through its three tables and the repeated field of its signals.
LEMMA CheckReadsBack ==
  ASSUME NEW status \in DOMAIN CheckStatus, NEW assessment \in DOMAIN AssessmentSource,
         NEW retrieval \in DOMAIN RetrievalSource, NEW signals \in {None} \cup 0..MaxStored
  PROVE  LET result == [status |-> status, assessment |-> assessment,
                        retrieval |-> retrieval, signals |-> signals]
         IN  ReadBack("check", Response("check", result)) =
               [result EXCEPT !.signals = IF @ = None THEN 0 ELSE @]
<1> DEFINE result == [status |-> status, assessment |-> assessment,
                      retrieval |-> retrieval, signals |-> signals]
           onWire == IF signals = None THEN None ELSE OnWire(signals)
           sent == [status |-> CheckStatus[status],
                    assessment |-> AssessmentSource[assessment],
                    retrieval |-> RetrievalSource[retrieval], signals |-> onWire]
<1>1. Response("check", result) = sent
  BY DEF Response
<1>2. ReadBack("check", sent) =
        [status |-> NameOf(CheckStatus, CheckStatus[status]),
         assessment |-> NameOf(AssessmentSource, AssessmentSource[assessment]),
         retrieval |-> NameOf(RetrievalSource, RetrievalSource[retrieval]),
         signals |-> NormalizeRepeatedField(onWire)]
  BY DEF ReadBack
<1>3. NormalizeRepeatedField(onWire) = IF signals = None THEN 0 ELSE signals
  <2>1. MaxStored \in Nat
    BY GatewayAssumption
  <2> QED
    BY <2>1, ElementsReadBack DEF NormalizeRepeatedField
<1> QED
  BY <1>1, <1>2, <1>3, NamesReadBack

\* The result of a mutation is read by the client as what it is.
LEMMA WorkReadsBack ==
  ASSUME IInv, NEW c \in Calls, work[c] # None,
         NEW outcome \in MutationOutcomes(work[c]), outcome.error = None
  PROVE  ReadsAs(ask[c], outcome.result,
                 ReadBack(wire[c].method, Response(wire[c].method, outcome.result)))
<1> DEFINE request == Canonical(ask[c], Signer(c))
           read == ReadBack(wire[c].method, Response(wire[c].method, outcome.result))
<1>1. /\ ask[c] \in Asks /\ ask[c].kind \in Mutations
      /\ wire[c].method \in {"trusted", "secure"} /\ work[c].request = request
  BY DEF IInv, CallInv, WorkFits, Admissible, Mutates
<1>2. /\ request.policy \in {"blacklist", "whitelist"}
      /\ request.action \in {"add", "remove"}
  BY <1>1, RequestFields, GatewayAssumption
<1>3. outcome.result \in [policy : {request.policy}, action : {request.action},
                          changed : BOOLEAN, key : {request.key}, replayed : BOOLEAN]
  BY <1>1, MutationEnds
<1> HIDE DEF request
<1>4. read = outcome.result
  BY <1>1, <1>2, <1>3, MutationReadsBack
<1> QED
  BY <1>1, <1>4 DEF ReadsAs, Mutations

\* And so is every other result.
LEMMA OutcomeReadsBack ==
  ASSUME IInv, NEW c \in Calls, stage[c] = "rpc", CallReads(c),
         NEW outcome \in Outcomes(wire[c]), outcome.error = None
  PROVE  ReadsAs(ask[c], outcome.result,
                 ReadBack(wire[c].method, Response(wire[c].method, outcome.result)))
<1> DEFINE read == ReadBack(wire[c].method, Response(wire[c].method, outcome.result))
<1>1. ask[c].kind \notin Mutations
  BY RepliedAtOnce
<1>2. CASE ask[c].kind = "list"
  <2>1. wire[c].method = "list" /\ ask[c].kind \notin Mutations
    BY <1>2 DEF CallReads, Query, Mutations
  <2>2. PICK stored \in 0..MaxStored : outcome.result = [rows |-> stored, stored |-> stored]
    BY <2>1, RefusalIsSome DEF Outcomes, Mutates, ReadOutcomes
  <2>3. stored \in Nat
    BY GatewayAssumption
  <2>4. read = stored
    BY <2>1, <2>2, <2>3, ElementsReadBack DEF Response, ReadBack
  <2> QED
    BY <1>2, <2>1, <2>2, <2>4 DEF ReadsAs
<1>3. CASE ask[c].kind = "history"
  <2>1. /\ wire[c].method = "history" /\ wire[c].limit = WireLimit(ask[c].limit)
        /\ ask[c].kind \notin Mutations
    BY <1>3 DEF CallReads, Query, Mutations
  <2>2. PICK stored \in 0..MaxStored :
          outcome.result = [rows |-> Rows(stored, SafeLimit(wire[c].limit)),
                            stored |-> stored]
    BY <2>1, RefusalIsSome DEF Outcomes, Mutates, ReadOutcomes
  <2>3. stored \in Nat /\ ask[c].limit \in Int \cup {None, NaN}
    BY <1>3, GatewayAssumption DEF IInv, CallInv, UnderWay
  <2>4. /\ outcome.result.rows \in Nat
        /\ outcome.result.rows \in HistoryRows(ask[c].limit, stored)
    <3>1. outcome.result.rows = Rows(stored, SafeLimit(WireLimit(ask[c].limit)))
      BY <2>1, <2>2
    <3> QED
      BY <2>3, <3>1, RowsAsAskedFor
  <2>5. read = outcome.result.rows
    BY <2>1, <2>4, ElementsReadBack DEF Response, ReadBack
  <2> QED
    BY <1>3, <2>1, <2>2, <2>4, <2>5 DEF ReadsAs
<1>4. CASE ask[c].kind = "check"
  <2>1. wire[c].method = "check" /\ ask[c].kind \notin Mutations
    BY <1>4 DEF CallReads, Query, Mutations
  <2>2. outcome \in CheckOutcomes
    BY <2>1 DEF Outcomes, Mutates
  <2>3. PICK status \in DOMAIN CheckStatus, assessment \in DOMAIN AssessmentSource,
             retrieval \in DOMAIN RetrievalSource, signals \in {None} \cup 0..MaxStored :
          outcome.result = [status |-> status, assessment |-> assessment,
                            retrieval |-> retrieval, signals |-> signals]
    <3> DEFINE Result(status, assessment, retrieval, signals) ==
                 [status |-> status, assessment |-> assessment, retrieval |-> retrieval,
                  signals |-> signals]
               failed == [error |-> Refused(500, "provider"), result |-> None]
    <3>1. failed.error # None
      BY RefusalIsSome
    <3>2. CheckOutcomes =
            {[error |-> None,
              result |-> Result(status, assessment, retrieval, signals)] :
                status \in DOMAIN CheckStatus, assessment \in DOMAIN AssessmentSource,
                retrieval \in DOMAIN RetrievalSource, signals \in {None} \cup 0..MaxStored}
              \cup {failed}
      BY DEF CheckOutcomes
    <3> HIDE DEF failed, Result
    <3>3. PICK status \in DOMAIN CheckStatus, assessment \in DOMAIN AssessmentSource,
               retrieval \in DOMAIN RetrievalSource, signals \in {None} \cup 0..MaxStored :
            outcome = [error |-> None,
                       result |-> Result(status, assessment, retrieval, signals)]
      BY <2>2, <3>1, <3>2
    <3>4. outcome.result = Result(status, assessment, retrieval, signals)
      BY <3>3
    <3> QED
      BY <3>4 DEF Result
  <2>4. read = [outcome.result EXCEPT !.signals = IF @ = None THEN 0 ELSE @]
    BY <2>1, <2>3, CheckReadsBack
  <2> QED
    BY <1>4, <2>1, <2>4 DEF ReadsAs
<1> QED
  <2>1. ask[c].kind \in Mutations \cup Behind \cup {"check"}
    BY GatewayAssumption DEF IInv, CallInv, UnderWay
  <2> QED
    BY <1>1, <1>2, <1>3, <1>4, <2>1 DEF Behind, Mutations

LEMMA SameReads ==
  ASSUME NEW c \in Calls, CallReads(c), Same(c)
  PROVE  CallReads(c)'
BY DEF CallReads, Same, Reads, Query

LEMMA RepliesReads ==
  ASSUME IInv, NEW c \in Calls, CallReads(c), BackendReplies(c)
  PROVE  CallReads(c)'
<1>1. PICK outcome \in Outcomes(wire[c]) :
        reply' = [reply EXCEPT ![c] = ReplyTo(wire[c], outcome)]
  BY DEF BackendReplies
<1>2. /\ stage[c] = "rpc" /\ stage'[c] = "returning" /\ UNCHANGED <<ask, wire>>
      /\ reply'[c] = ReplyTo(wire[c], outcome)
  BY <1>1 DEF BackendReplies, IInv
<1>3. CASE outcome.error = None
  <2>1. ReadsAs(ask[c], outcome.result,
                ReadBack(wire[c].method, Response(wire[c].method, outcome.result)))
    BY <1>2, <1>3, OutcomeReadsBack
  <2>2. /\ reply'[c].result = outcome.result
        /\ reply'[c].response = Response(wire[c].method, outcome.result)
    BY <1>2, <1>3 DEF ReplyTo
  <2> QED
    BY <1>2, <2>1, <2>2 DEF CallReads, Reads
<1>4. CASE outcome.error # None
  <2>1. GrpcCode(outcome.error.status) # "OK"
    BY <1>2, <1>4, RepliedAtOnce, StatusComesBack
  <2>2. reply'[c].code # "OK"
    BY <1>2, <1>4, <2>1 DEF ReplyTo
  <2> QED
    BY <1>2, <2>2 DEF CallReads
<1> QED
  BY <1>3, <1>4

LEMMA EndsReads ==
  ASSUME IInv, NEW c \in Calls, CallReads(c), BackendEnds(c)
  PROVE  CallReads(c)'
<1>1. PICK outcome \in MutationOutcomes(work[c]) :
        IF stage[c] = "working"
        THEN /\ stage' = [stage EXCEPT ![c] = "returning"]
             /\ reply' = [reply EXCEPT ![c] = ReplyTo(wire[c], outcome)]
        ELSE UNCHANGED <<stage, reply>>
  BY DEF BackendEnds
<1>2. work[c] # None /\ UNCHANGED <<ask, wire, answer>>
  BY DEF BackendEnds
<1>3. CASE stage[c] # "working"
  BY <1>1, <1>2, <1>3 DEF CallReads, Reads, Query
<1>4. CASE stage[c] = "working"
  <2>1. stage'[c] = "returning" /\ reply'[c] = ReplyTo(wire[c], outcome)
    BY <1>1, <1>4 DEF IInv
  <2>2. CASE outcome.error = None
    <3>1. ReadsAs(ask[c], outcome.result,
                  ReadBack(wire[c].method, Response(wire[c].method, outcome.result)))
      BY <1>1, <1>2, <2>2, WorkReadsBack
    <3>2. /\ reply'[c].result = outcome.result
          /\ reply'[c].response = Response(wire[c].method, outcome.result)
      BY <2>1, <2>2 DEF ReplyTo
    <3> QED
      BY <1>2, <2>1, <3>1, <3>2 DEF CallReads, Reads
  <2>3. CASE outcome.error # None
    <3>1. GrpcCode(outcome.error.status) # "OK"
      BY <1>1, <2>3, MutationEnds, StatusComesBack
    <3>2. reply'[c].code # "OK"
      BY <2>1, <2>3, <3>1 DEF ReplyTo
    <3> QED
      BY <2>1, <3>2 DEF CallReads
  <2> QED
    BY <2>2, <2>3
<1> QED
  BY <1>3, <1>4

LEMMA AnswerReads ==
  ASSUME IInv, NEW c \in Calls, CallReads(c), Answer(c)
  PROVE  CallReads(c)'
<1>1. /\ stage[c] = "returning" /\ stage'[c] = "answered" /\ answer'[c] = Answered(c)
      /\ UNCHANGED <<ask, reply>>
  BY DEF IInv, Answer
<1>2. HttpStatus(reply[c].code) # 200 /\ None # 200
  BY GatewayAssumption DEF HttpStatus
<1>3. Answered(c).status = 200 =>
        reply[c].code = "OK" /\ Answered(c).body = ReadBack(wire[c].method, reply[c].response)
  BY <1>2 DEF Answered, Refused
<1> QED
  BY <1>1, <1>3 DEF CallReads, Reads

LEMMA ForwardsReads ==
  ASSUME IInv, NEW c \in Calls, GatewayForwards(c)
  PROVE  CallReads(c)'
<1>1. /\ stage'[c] = "rpc" /\ ask'[c] = ask[c] /\ wire'[c] = Forwarded(c)
      /\ ask[c] \in Asks /\ ask[c].kind # "check"
  BY DEF IInv, CallInv, Early, GatewayForwards
<1>2. ask[c].kind \notin Mutations => Forwarded(c) = Query(c)
  <2>1. ask[c].kind \notin Mutations => ask[c].kind \in {"list", "history"}
    BY <1>1, GatewayAssumption DEF Mutations, Behind
  <2> QED
    BY <2>1 DEF Forwarded, Query, WireLimit
<1> QED
  BY <1>1, <1>2 DEF CallReads, Query

LEMMA NextReads ==
  ASSUME IInv, ReadsInv, [Next]_vars
  PROVE  ReadsInv'
<1> SUFFICES ASSUME NEW c \in Calls PROVE CallReads(c)'
  BY DEF ReadsInv
<1>0. CallReads(c)
  BY DEF ReadsInv
<1>1. CASE Tick \/ Redeploy \/ (\E user \in Users : Login(user)) \/ UNCHANGED vars
  BY <1>0, <1>1, SameReads DEF Tick, Redeploy, Login, vars, setting, Same
<1>2. ASSUME NEW d \in Calls, d # c,
             \/ \E asked \in Asks : Send(d, asked)
             \/ GatewayRefuses(d) \/ GatewayForwards(d) \/ BackendReplies(d)
             \/ BackendAdmits(d) \/ BackendEnds(d) \/ ConnectionBreaks(d) \/ Answer(d)
      PROVE  CallReads(c)'
  <2>1. Same(c)
    BY <1>2 DEF Send, GatewayRefuses, GatewayForwards, BackendReplies, BackendAdmits,
                BackendEnds, ConnectionBreaks, Answer, Same, IInv, setting
  <2> QED
    BY <1>0, <2>1, SameReads
<1>3. ASSUME NEW asked \in Asks, Send(c, asked) PROVE CallReads(c)'
  <2>1. /\ stage'[c] = IF asked.kind = "check" THEN "rpc" ELSE "http"
        /\ ask'[c] = asked
        /\ asked.kind = "check" => wire'[c] = [method |-> "check"]
    BY <1>3 DEF Send, IInv
  <2> QED
    BY <2>1 DEF CallReads, Query
<1>4. CASE GatewayRefuses(c)
  <2>1. stage'[c] = "answered" /\ answer'[c] = GatewayRefusal(c)
    BY <1>4 DEF GatewayRefuses, IInv
  <2>2. GatewayRefusal(c).status # 200
    BY <1>4 DEF GatewayRefuses, GatewayRefusal, GuardRefusal, TokenRefusal, BodyRefusal,
                HeaderRefusal, Refused
  <2> QED
    BY <2>1, <2>2 DEF CallReads
<1>5. CASE ConnectionBreaks(c)
  <2>1. stage'[c] = "returning" /\ reply'[c].code = "UNAVAILABLE"
    BY <1>5 DEF ConnectionBreaks, IInv
  <2> QED
    BY <2>1 DEF CallReads
<1>6. CASE BackendAdmits(c)
  <2>1. stage'[c] = "working"
    BY <1>6 DEF BackendAdmits, IInv
  <2> QED
    BY <2>1 DEF CallReads
<1> QED
  BY <1>0, <1>1, <1>2, <1>3, <1>4, <1>5, <1>6, ForwardsReads, RepliesReads, EndsReads,
     AnswerReads DEF Next

-----------------------------------------------------------------------------

\* The clocks and what is asked for keep their types.
THEOREM TypeCorrect == Spec => []TypeOK
<1>1. Init => TypeOK
  BY GatewayAssumption DEF Init, TypeOK, Nothing, Stages
<1>2. TypeOK /\ [Next]_vars => TypeOK'
  <2> SUFFICES ASSUME TypeOK, [Next]_vars PROVE TypeOK'
    OBVIOUS
  <2>1. CASE Tick \/ Redeploy \/ (\E user \in Users : Login(user)) \/ UNCHANGED vars
    BY <2>1, GatewayAssumption DEF TypeOK, Tick, Redeploy, Login, vars, setting
  <2>2. ASSUME NEW c \in Calls, NEW asked \in Asks, Send(c, asked) PROVE TypeOK'
    BY <2>2 DEF TypeOK, Send, Stages, setting
  <2>3. ASSUME NEW c \in Calls, \/ GatewayRefuses(c) \/ GatewayForwards(c)
                                \/ BackendReplies(c) \/ BackendAdmits(c)
                                \/ BackendEnds(c) \/ ConnectionBreaks(c) \/ Answer(c)
        PROVE  TypeOK'
    <3>1. /\ UNCHANGED <<clock, redeploys, skew, deployment, jwt, ask, sentAt>>
          /\ stage' = stage \/ \E s \in Stages : stage' = [stage EXCEPT ![c] = s]
      BY <2>3 DEF GatewayRefuses, GatewayForwards, BackendReplies, BackendAdmits, BackendEnds,
                  ConnectionBreaks, Answer, Stages, setting
    <3> QED
      BY <3>1 DEF TypeOK
  <2> QED
    BY <2>1, <2>2, <2>3 DEF Next
<1> QED
  BY <1>1, <1>2, PTL DEF Spec

\* What a message under way is, and that what came of it fits, for every reachable state.
THEOREM Inductive == Spec => []IInv
<1>1. Init => IInv
  BY InitIInv
<1>2. IInv /\ [Next]_vars => IInv'
  BY NextIInv
<1> QED
  BY <1>1, <1>2, PTL DEF Spec

\* What is carried out is what was asked for, in the spelling the lists are kept in and in
\* the name of the user of the token, for any requests, tables of numbers included.
THEOREM CarriedOutAsAskedHolds == Spec => []CarriedOutAsAsked
<1>1. IInv => CarriedOutAsAsked
  <2> SUFFICES ASSUME IInv PROVE CarriedOutAsAsked
    OBVIOUS
  <2>1. ASSUME NEW c \in Calls, NEW effect \in did[c]
        PROVE  effect.request = Canonical(ask[c], Signer(c))
    BY <2>1 DEF IInv, CallInv, InTime, Admissible
  <2> QED
    BY <2>1, RequestFields DEF CarriedOutAsAsked, Signer, Lower
<1> QED
  BY <1>1, Inductive, PTL

\* With one secret on both sides, only a key left out makes a signature fail.
THEOREM SignaturesAgreeHolds == Spec => []SignaturesAgree
<1>1. IInv => SignaturesAgree
  BY DEF IInv, CallInv, AnswerFits, Disagreeing, SignaturesAgree, Mutating
<1> QED
  BY <1>1, Inductive, PTL

\* What is carried out was let in before the token ended, plus one window, or within the
\* window since a caller signed, whatever the clocks and the delays; when it is carried
\* out is left open, as the code leaves it.
THEOREM AdmittedInTimeHolds == Spec => []AdmittedInTime
<1>1. IInv => AdmittedInTime
  BY DEF IInv, CallInv, InTime, WorkFits, Admissible, AdmittedInTime
<1> QED
  BY <1>1, Inductive, PTL

\* After 400, 401 or 409 nothing was carried out or will be, after 200 it was, now or by
\* the request that this one repeats; whatever broke on the way.
THEOREM AnswerTellsEffectHolds == Spec => []AnswerTellsEffect
<1>1. IInv => AnswerTellsEffect
  BY DEF IInv, CallInv, EffectFits, AnswerTellsEffect, Mutating
<1> QED
  BY <1>1, Inductive, PTL

\* What the client reads is what the use case returned, and as much of the history as it
\* asked for, for any limit and any number of rows.
THEOREM AnswerReadsBackHolds == Spec => []AnswerReadsBack
<1>1. Init => ReadsInv
  BY DEF Init, ReadsInv, CallReads
<1>2. IInv /\ ReadsInv /\ [Next]_vars => ReadsInv'
  BY NextReads
<1>3. ReadsInv => AnswerReadsBack
  BY DEF ReadsInv, CallReads, Reads, ReadsAs, AnswerReadsBack
<1> QED
  BY <1>1, <1>2, <1>3, Inductive, PTL DEF Spec

\* The status of an error survives the codes of gRPC.
THEOREM ErrorKeepsItsStatusHolds == Spec => []ErrorKeepsItsStatus
<1>1. IInv => ErrorKeepsItsStatus
  BY DEF IInv, CallInv, AnswerFits, ReplyFits, ErrorKeepsItsStatus
<1> QED
  BY <1>1, Inductive, PTL
=============================================================================
