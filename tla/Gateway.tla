------------------------------- MODULE Gateway -------------------------------
(***************************************************************************)
(* A request on its way from an HTTP client through the gateway to the     *)
(* gRPC backend, and the answer on its way back.                           *)
(*                                                                         *)
(* Three machines take part, and each decides with what it knows when the  *)
(* request gets there.  The gateway checks the bearer token by its clock,  *)
(* reads the body, brings the request to its canonical form, signs it and  *)
(* stamps it; the backend, whose clock is off by `skew' and which may get  *)
(* the request late, brings it to canonical form again, checks the window  *)
(* of the timestamp and the signature, and has the use case carry it out,  *)
(* which waits for its key and for connections, with nothing that ends the *)
(* wait when the window does or when the gateway is gone.  Errors travel   *)
(* back as a gRPC status and become an HTTP status again.                  *)
(*                                                                         *)
(* What the use case does is modelled elsewhere (PolicyMutation,           *)
(* IdempotentMutation, CheckAddress): here it has any of its outcomes.     *)
(* White space at both ends, which every reader trims, is left out, and an *)
(* absent header is a blank one.  `did' and the fields `raised' and        *)
(* `result' of a reply are history: no guard reads them.                   *)
(***************************************************************************)
EXTENDS GrpcMapping, Sequences

CONSTANTS
  Calls,         \* requests of HTTP clients
  Users,         \* who may sign in
  Asks,          \* what is asked for: records, by kind
  EvmNetworks,   \* networks of the namespace eip155
  TooLong,       \* names and keys longer than the backend takes
  Secrets,       \* values of the secrets
  Deployments,   \* the secrets of the signatures at the gateway, the backend, the callers
  Skews,         \* clock of the backend minus clock of the gateway
  Ttl,           \* seconds a token is good for
  Past, Future,  \* the window of a signature, in seconds around the backend's clock
  DefaultLimit, MaxLimit,  \* of the history
  Half,          \* 2^31, the first number that is no int32
  MaxStored,     \* bound: rows of a list or of the history
  MaxClock,      \* bound of the clock
  MaxRedeploys,  \* bound: how often the gateway gets another token secret
  NaN,           \* a limit that is no number
  None

Mutations == {"admin", "signed"}
Behind == {"admin", "list", "history"}  \* what JwtAuthGuard guards

Statuses == {200, 400, 401, 404, 409, 429, 500, 503, 504}
Reasons ==
  {"unconfigured", "missing", "invalid", "expired", "body", "headers",
   "enum", "input", "window", "signature", "conflict", "failed", "provider", "broken"}

ASSUME GatewayAssumption ==
  /\ Skews \subseteq Int
  /\ {Ttl, Past, Future, DefaultLimit, MaxLimit, Half} \subseteq Nat \ {0}
  /\ {MaxStored, MaxClock, MaxRedeploys} \subseteq Nat
  /\ DefaultLimit <= MaxLimit /\ MaxLimit < Half
  /\ \A asked \in Asks :
       /\ asked.kind \in Mutations \cup Behind \cup {"check"}
       /\ asked.kind \in Mutations => /\ asked.policy \in {"blacklist", "whitelist"}
                                     /\ asked.action \in {"add", "remove"}
       /\ asked.kind = "history" => asked.limit \in Int \cup {None, NaN}
  /\ None \notin Int
  /\ None \notin Users \cup Asks \cup Secrets \cup TooLong
  /\ None \notin [status : Statuses, why : Reasons]

VARIABLES
  clock,       \* the gateway's, in seconds
  skew,
  jwt,         \* secret of the tokens
  deployment,
  redeploys,
  session,     \* the token the client holds
  stage,       \* where each call stands
  ask,         \* what it asks for
  token,       \* the token it was sent with
  sentAt,      \* when the client sent it, which is when a caller signs
  wire,        \* its gRPC request
  work,        \* the mutation the backend let in for it and has not ended
  did,         \* history: what the backend carried out for it, and when it let it in
  reply,       \* what the backend answers
  answer       \* what the client gets

vars == <<clock, skew, jwt, deployment, redeploys, session,
          stage, ask, token, sentAt, wire, work, did, reply, answer>>

setting == <<skew, deployment>>

Stages == {"idle", "http", "rpc", "working", "returning", "answered"}

TypeOK ==
  /\ clock \in 0..MaxClock /\ redeploys \in 0..MaxRedeploys
  /\ skew \in Skews /\ deployment \in Deployments /\ jwt \in Secrets \cup {None}
  /\ stage \in [Calls -> Stages]
  /\ ask \in [Calls -> Asks \cup {None}]
  /\ sentAt \in [Calls -> 0..MaxClock]

-----------------------------------------------------------------------------

Nothing == [c \in Calls |-> None]

Init ==
  /\ clock = 0 /\ redeploys = 0
  /\ skew \in Skews
  /\ jwt \in Secrets \cup {None}
  /\ deployment \in Deployments
  /\ session = None
  /\ stage = [c \in Calls |-> "idle"]
  /\ sentAt = [c \in Calls |-> 0]
  /\ ask = Nothing /\ token = Nothing /\ wire = Nothing /\ work = Nothing
  /\ did = [c \in Calls |-> {}] /\ reply = Nothing /\ answer = Nothing

Refused(status, why) == [status |-> status, why |-> why]

Lower(address) == [address EXCEPT !.upper = FALSE]

-----------------------------------------------------------------------------
(* The gateway.                                                            *)

\* issueToken.
IssueToken(user) == [user |-> user, exp |-> clock + Ttl, secret |-> jwt]

\* verifyToken: a token is good until the clock reaches its `exp'.
TokenRefusal(t) ==
  IF jwt = None THEN Refused(500, "unconfigured")
  ELSE IF t.secret # jwt THEN Refused(401, "invalid")
  ELSE IF t.exp <= clock THEN Refused(401, "expired")
  ELSE None

\* JwtAuthGuard, in front of the controller of the console.
GuardRefusal(c) ==
  IF ask[c].kind \notin Behind THEN None
  ELSE IF token[c] = None THEN Refused(401, "missing") ELSE TokenRefusal(token[c])

\* requireMutationBody: a JSON object with an address, a network and, when it is
\* there, a boolean.
BodyRefusal(asked) ==
  IF asked.kind \in Mutations =>
       /\ asked.body.object /\ asked.body.address # None /\ asked.body.network # None
       /\ asked.body.confirm \in {"absent", "true", "false"}
  THEN None ELSE Refused(400, "body")

\* requireHeader: the timestamp and the signature of a signed request.
HeaderRefusal(asked) ==
  IF asked.kind = "signed" => asked.headers # "missing" THEN None ELSE Refused(400, "headers")

\* What stops a request at the gateway, in this order.
GatewayRefusal(c) ==
  IF GuardRefusal(c) # None THEN GuardRefusal(c)
  ELSE IF BodyRefusal(ask[c]) # None THEN BodyRefusal(ask[c])
  ELSE IF HeaderRefusal(ask[c]) # None THEN HeaderRefusal(ask[c])
  ELSE IF ask[c].kind = "admin" /\ deployment.gateway = None
    THEN Refused(500, "unconfigured")
  ELSE None

\* Mutant of Requested: a switch of lists is confirmed unless it is denied.
ConfirmedByDefault(asked, user) ==
  [address |-> asked.body.address, network |-> asked.body.network,
   policy |-> asked.policy, action |-> asked.action,
   confirm |-> asked.body.confirm # "false", key |-> asked.key,
   requestedBy |-> user]

\* The input of secureMutatePolicy and trustedMutatePolicy.
Requested(asked, user) ==
  [address |-> asked.body.address, network |-> asked.body.network,
   policy |-> asked.policy, action |-> asked.action,
   confirm |-> asked.body.confirm = "true", key |-> asked.key,
   requestedBy |-> user]

\* Mutant of NormalizeTrustedMutationInput: the address stays as it was typed.
AsTyped(request) == request

NormalizeTrustedMutationInput(request) ==
  IF request.network \in EvmNetworks
  THEN [request EXCEPT !.address = Lower(@)] ELSE request

\* createTrustedMutationSignature of the gateway.
GatewaySignature(request, time) ==
  [secret |-> deployment.gateway,
   over |-> <<time, request.key, request.action, request.policy, request.network,
              request.address, request.confirm, request.requestedBy>>]

\* A mutation as a gRPC message: its enumerated values are numbers.
Message(method, request, time, signature) ==
  [method |-> method, timestamp |-> time, signature |-> signature,
   request |-> [request EXCEPT !.policy = GatewayPolicy[@], !.action = GatewayAction[@]]]

TrustedMutatePolicy(asked, user) ==
  LET request == NormalizeTrustedMutationInput(Requested(asked, user))
  IN Message("trusted", request, clock, GatewaySignature(request, clock))

\* The signature of a caller of the other controller is passed on as it came.
SecureMutatePolicy(asked, signature, time) ==
  Message("secure", Requested(asked, asked.user), time, signature)

-----------------------------------------------------------------------------
(* The backend.                                                            *)

\* validateAndNormalizeInput, the same in both services.
ValidateAndNormalizeInput(request) ==
  [address |-> IF request.network \in EvmNetworks
                 THEN Lower(request.address) ELSE request.address,
   network |-> request.network, policy |-> NameOf(BackendPolicy, request.policy),
   action |-> NameOf(BackendAction, request.action), confirm |-> request.confirm,
   key |-> request.key, requestedBy |-> request.requestedBy]

\* createSignature of the trusted service.
TrustedSignature(request, time) ==
  [secret |-> deployment.backend,
   over |-> <<time, request.key, request.action, request.policy, request.network,
              request.address, request.confirm, request.requestedBy>>]

\* createSignature of the secure service: not over requestedBy, and in a second
\* form without a line for the key.
SecureSignature(secret, request, time, withKey) ==
  [secret |-> secret,
   over |-> (IF withKey THEN <<time, request.key>> ELSE <<time>>)
              \o <<request.action, request.policy, request.network,
                   request.address, request.confirm>>]

\* The signatures the backend accepts: the second form only without a key.
Expected(method, request, time) ==
  IF method = "trusted" THEN {TrustedSignature(request, time)}
  ELSE {SecureSignature(deployment.shared, request, time, withKey) :
          withKey \in IF request.key = None THEN BOOLEAN ELSE {TRUE}}

\* Mutant of InWindow: the two bounds change places.
WindowTurned(time) == time >= clock + skew - Future /\ time <= clock + skew + Past

\* assertTimestampWindow.
InWindow(time) == time >= clock + skew - Past /\ time <= clock + skew + Future

\* What the checks of the two services raise before the mutation runs: of its fields, its
\* headers, which are None when they are not of the form the schema asks for, the window
\* and the signature.
MutationRefusal(message) ==
  LET request == ValidateAndNormalizeInput(message.request)
      secret  == IF message.method = "trusted" THEN deployment.backend ELSE deployment.shared
  IN IF Unsupported \in {request.policy, request.action} THEN Refused(400, "enum")
     ELSE IF secret = None THEN Refused(500, "unconfigured")
     ELSE IF request.key \in TooLong \/ request.requestedBy \in TooLong
               \/ message.signature = None
       THEN Refused(400, "input")
     ELSE IF ~InWindow(message.timestamp) THEN Refused(401, "window")
     ELSE IF message.signature \notin Expected(message.method, request, message.timestamp)
       THEN Refused(401, "signature")
     ELSE None

\* Mutant of MutationOutcomes: the rules are checked once the mutation is made.
CheckedAfterwards(admitted) ==
  {[did |-> {admitted}, error |-> Refused(409, "conflict"), result |-> None]}

\* A mutation that was let in ends: with its result, or with an exception of the policy
\* rules or the idempotency (409), or of a store, before or after the mutation was made.
MutationOutcomes(admitted) ==
  LET request == admitted.request
      made == {admitted}
      Results == [policy : {request.policy}, action : {request.action}, changed : BOOLEAN,
                  key : {request.key},
                  replayed : IF request.key = None THEN {FALSE} ELSE BOOLEAN]
  IN
  {[did |-> IF result.replayed THEN {} ELSE made, error |-> None, result |-> result] :
     result \in Results}
  \cup {[did |-> {}, error |-> Refused(409, "conflict"), result |-> None]}
  \cup {[did |-> effect, error |-> Refused(500, "failed"), result |-> None] :
          effect \in {{}, made}}

\* Mutant of SafeLimit: a request for more than the most gets the default.
SafeLimitOrDefault(limit) ==
  IF limit \in 1..MaxLimit THEN limit ELSE DefaultLimit

\* The limit of the history: a positive one up to the most, else the default.
SafeLimit(limit) ==
  IF limit = None \/ limit <= 0 THEN DefaultLimit
  ELSE IF limit > MaxLimit THEN MaxLimit ELSE limit

Rows(stored, limit) == IF stored > limit THEN limit ELSE stored

\* The rows of a policy list or of the history; there are `stored' of them.
ReadOutcomes(stored, rows) ==
  {[error |-> None, result |-> [rows |-> rows, stored |-> stored]],
   [error |-> Refused(500, "failed"), result |-> None]}

\* The result of a check; the provider's own errors are no HTTP exceptions.
CheckOutcomes ==
  {[error |-> None,
    result |-> [status |-> status, assessment |-> assessment, retrieval |-> retrieval,
                signals |-> signals]] :
     status \in DOMAIN CheckStatus, assessment \in DOMAIN AssessmentSource,
     retrieval \in DOMAIN RetrievalSource, signals \in {None} \cup 0..MaxStored}
  \cup {[error |-> Refused(500, "provider"), result |-> None]}

Mutates(message) == message.method \in {"trusted", "secure"}

\* What comes at once of a message: of a mutation only its refusal.
Outcomes(message) ==
  CASE Mutates(message) ->
         IF MutationRefusal(message) = None THEN {}
         ELSE {[error |-> MutationRefusal(message), result |-> None]}
    [] message.method = "list" ->
         IF NameOf(BackendPolicy, message.policy) = Unsupported
         THEN {[error |-> Refused(400, "enum"), result |-> None]}
         ELSE UNION {ReadOutcomes(stored, stored) : stored \in 0..MaxStored}
    [] message.method = "history" ->
         UNION {ReadOutcomes(stored, Rows(stored, SafeLimit(message.limit))) :
                  stored \in 0..MaxStored}
    [] message.method = "check" -> CheckOutcomes

\* A repeated field without elements is not on the wire.
OnWire(elements) == IF elements = 0 THEN None ELSE elements

\* The response message of each method.
Response(method, result) ==
  CASE method \in {"trusted", "secure"} ->
         [result EXCEPT !.policy = BackendPolicy[@], !.action = BackendAction[@]]
    [] method \in {"list", "history"} -> OnWire(result.rows)
    [] method = "check" ->
         [status |-> CheckStatus[result.status],
          assessment |-> AssessmentSource[result.assessment],
          retrieval |-> RetrievalSource[result.retrieval],
          signals |-> IF result.signals = None THEN None ELSE OnWire(result.signals)]

-----------------------------------------------------------------------------
(* The way back.                                                           *)

NormalizeRepeatedField(value) == IF value = None THEN 0 ELSE value

\* fromGrpcMutationResponse and the lists; a gRPC caller reads a check by the same
\* tables.
ReadBack(method, response) ==
  CASE method \in {"trusted", "secure"} ->
         [response EXCEPT !.policy = NameOf(GatewayPolicy, @),
                          !.action = NameOf(GatewayAction, @)]
    [] method \in {"list", "history"} -> NormalizeRepeatedField(response)
    [] method = "check" ->
         [status |-> NameOf(CheckStatus, response.status),
          assessment |-> NameOf(AssessmentSource, response.assessment),
          retrieval |-> NameOf(RetrievalSource, response.retrieval),
          signals |-> NormalizeRepeatedField(response.signals)]

-----------------------------------------------------------------------------
(* The steps.                                                              *)

Tick ==
  /\ clock < MaxClock
  /\ clock' = clock + 1
  /\ UNCHANGED <<setting, jwt, redeploys, session, stage, ask, token, sentAt, wire, work, did,
                 reply, answer>>

\* The gateway is deployed anew and has another token secret, or none.
Redeploy ==
  /\ redeploys < MaxRedeploys
  /\ redeploys' = redeploys + 1
  /\ jwt' \in (Secrets \cup {None}) \ {jwt}
  /\ UNCHANGED <<setting, clock, session, stage, ask, token, sentAt, wire, work, did, reply,
                 answer>>

\* POST /auth/login; without a secret it fails and changes nothing.
Login(user) ==
  /\ jwt # None
  /\ session' = IssueToken(user)
  /\ UNCHANGED <<setting, clock, jwt, redeploys, stage, ask, token, sentAt, wire, work, did,
                 reply, answer>>

\* A client sends a request; a gRPC caller sends a check to the backend itself.
Send(c, asked) ==
  /\ stage[c] = "idle"
  /\ ask' = [ask EXCEPT ![c] = asked]
  /\ token' = [token EXCEPT ![c] = IF asked.kind \in Behind THEN session ELSE None]
  /\ sentAt' = [sentAt EXCEPT ![c] = clock]
  /\ IF asked.kind = "check"
     THEN /\ stage' = [stage EXCEPT ![c] = "rpc"]
          /\ wire' = [wire EXCEPT ![c] = [method |-> "check"]]
     ELSE /\ stage' = [stage EXCEPT ![c] = "http"]
          /\ UNCHANGED wire
  /\ UNCHANGED <<setting, clock, jwt, redeploys, session, work, did, reply, answer>>

\* A caller of the signed interface signs the canonical form when it sends, or sends
\* headers that are no timestamp or no signature.
CallerSignature(c) ==
  LET request == NormalizeTrustedMutationInput(Requested(ask[c], ask[c].user))
  IN IF ask[c].headers = "malformed" THEN None
     ELSE SecureSignature(deployment.callers, request, sentAt[c], ask[c].withKey)

\* The gRPC request of a call; a limit that is no number becomes 0 in its int32.
Forwarded(c) ==
  LET asked == ask[c] IN
  CASE asked.kind = "admin" -> TrustedMutatePolicy(asked, token[c].user)
    [] asked.kind = "signed" -> SecureMutatePolicy(asked, CallerSignature(c), sentAt[c])
    [] asked.kind = "list" -> [method |-> "list", policy |-> GatewayPolicy[asked.policy]]
    [] asked.kind = "history" ->
         [method |-> "history",
          limit |-> IF asked.limit = None THEN None
                    ELSE IF asked.limit = NaN THEN 0 ELSE ToInt32(asked.limit, Half)]

GatewayRefuses(c) ==
  /\ stage[c] = "http"
  /\ GatewayRefusal(c) # None
  /\ stage' = [stage EXCEPT ![c] = "answered"]
  /\ answer' = [answer EXCEPT ![c] = GatewayRefusal(c)]
  /\ UNCHANGED <<setting, clock, jwt, redeploys, session, ask, token, sentAt, wire, work, did,
                 reply>>

GatewayForwards(c) ==
  /\ stage[c] = "http"
  /\ GatewayRefusal(c) = None
  /\ stage' = [stage EXCEPT ![c] = "rpc"]
  /\ wire' = [wire EXCEPT ![c] = Forwarded(c)]
  /\ UNCHANGED <<setting, clock, jwt, redeploys, session, ask, token, sentAt, work, did,
                 reply, answer>>

\* The response of the gRPC controller, or toGrpcException.
ReplyTo(message, outcome) ==
  IF outcome.error = None
  THEN [code |-> "OK", response |-> Response(message.method, outcome.result),
        result |-> outcome.result]
  ELSE [code |-> GrpcCode(outcome.error.status), why |-> outcome.error.why,
        raised |-> outcome.error.status]

\* A query, a check, or a mutation that is refused.
BackendReplies(c) ==
  /\ stage[c] = "rpc"
  /\ \E outcome \in Outcomes(wire[c]) :
       reply' = [reply EXCEPT ![c] = ReplyTo(wire[c], outcome)]
  /\ stage' = [stage EXCEPT ![c] = "returning"]
  /\ UNCHANGED <<setting, clock, jwt, redeploys, session, ask, token, sentAt, wire, work,
                 did, answer>>

\* The checks let a mutation in; from here on it waits for its key, for connections and
\* for the stores.
BackendAdmits(c) ==
  /\ stage[c] = "rpc" /\ Mutates(wire[c]) /\ MutationRefusal(wire[c]) = None
  /\ stage' = [stage EXCEPT ![c] = "working"]
  /\ work' = [work EXCEPT ![c] =
       [request |-> ValidateAndNormalizeInput(wire[c].request), since |-> clock]]
  /\ UNCHANGED <<setting, clock, jwt, redeploys, session, ask, token, sentAt, wire, did,
                 reply, answer>>

\* The mutation ends, whatever the clock says by then; if the gateway is gone it ends all
\* the same, and nobody hears of it.
BackendEnds(c) ==
  /\ work[c] # None
  /\ work' = [work EXCEPT ![c] = None]
  /\ \E outcome \in MutationOutcomes(work[c]) :
       /\ did' = [did EXCEPT ![c] = outcome.did]
       /\ IF stage[c] = "working"
          THEN /\ stage' = [stage EXCEPT ![c] = "returning"]
               /\ reply' = [reply EXCEPT ![c] = ReplyTo(wire[c], outcome)]
          ELSE UNCHANGED <<stage, reply>>
  /\ UNCHANGED <<setting, clock, jwt, redeploys, session, ask, token, sentAt, wire, answer>>

\* The connection to the backend breaks: before the request is across, while the backend
\* works, or before the answer is across.
ConnectionBreaks(c) ==
  /\ stage[c] \in {"rpc", "working", "returning"}
  /\ stage' = [stage EXCEPT ![c] = "returning"]
  /\ reply' = [reply EXCEPT ![c] = [code |-> "UNAVAILABLE", why |-> "broken", raised |-> 503]]
  /\ UNCHANGED <<setting, clock, jwt, redeploys, session, ask, token, sentAt, wire, work, did,
                 answer>>

\* The answer of the gateway: the result as it reads it, or the status of the error.  A
\* check does not go through the gateway: its caller gets the code of gRPC as it is.
Answered(c) ==
  LET body == ReadBack(wire[c].method, reply[c].response) IN
  IF reply[c].code # "OK"
  THEN IF ask[c].kind = "check"
       THEN [status |-> None, code |-> reply[c].code, why |-> reply[c].why]
       ELSE Refused(HttpStatus(reply[c].code), reply[c].why)
  ELSE IF Mutates(wire[c]) /\ Unsupported \in {body.policy, body.action}
    THEN Refused(500, "enum")
  ELSE [status |-> 200, body |-> body]

Answer(c) ==
  /\ stage[c] = "returning"
  /\ stage' = [stage EXCEPT ![c] = "answered"]
  /\ answer' = [answer EXCEPT ![c] = Answered(c)]
  /\ UNCHANGED <<setting, clock, jwt, redeploys, session, ask, token, sentAt, wire, work, did,
                 reply>>

Next ==
  \/ Tick
  \/ Redeploy
  \/ \E user \in Users : Login(user)
  \/ \E c \in Calls :
       \/ \E asked \in Asks : Send(c, asked)
       \/ GatewayRefuses(c)
       \/ GatewayForwards(c)
       \/ BackendReplies(c)
       \/ BackendAdmits(c)
       \/ BackendEnds(c)
       \/ ConnectionBreaks(c)
       \/ Answer(c)

Spec == Init /\ [][Next]_vars

-----------------------------------------------------------------------------
(* Properties.                                                             *)

Mutating(c) == ask[c] # None /\ ask[c].kind \in Mutations

\* What is carried out is what was asked for: the list, the action, the network and
\* the confirmation through both tables of numbers, the address in the one spelling
\* the lists are kept in, under the key of the request, in the name of the user of
\* the token (client:129-201, controller:196-225, trusted service:135-160).
CarriedOutAsAsked ==
  \A c \in Calls : \A effect \in did[c] :
    LET asked == ask[c] IN
    effect.request =
      [address |-> IF asked.body.network \in EvmNetworks
                     THEN [asked.body.address EXCEPT !.upper = FALSE]
                     ELSE asked.body.address,
       network |-> asked.body.network, policy |-> asked.policy, action |-> asked.action,
       confirm |-> asked.body.confirm = "true", key |-> asked.key,
       requestedBy |-> IF asked.kind = "admin" THEN token[c].user ELSE asked.user]

\* The gateway and the backend canonicalise and sign on their own, and agree: with one
\* secret on both sides the backend refuses a signature only if a caller of the signed
\* interface left the key out of it (client:146-227, trusted service:176-202).
SignaturesAgree ==
  \A c \in Calls :
    (Mutating(c) /\ stage[c] = "answered" /\ answer[c].status = 401
       /\ answer[c].why = "signature") =>
      IF ask[c].kind = "admin" THEN deployment.gateway # deployment.backend
      ELSE deployment.callers # deployment.shared
             \/ (ask[c].key # None /\ ~ask[c].withKey)

\* What is carried out was let in in time: an administrator's mutation before the end of
\* his token and one window more, a caller's within the window after it was signed,
\* however long the request was under way (verifyToken:107-118, assertTimestampWindow:
\* 162-175).  It says when the wait for the key and the stores began, not when it ends.
AdmittedInTime ==
  \A c \in Calls :
    \A admitted \in did[c] \cup ({work[c]} \ {None}) :
      admitted.since + skew < (IF ask[c].kind = "admin" THEN token[c].exp ELSE sentAt[c] + 1)
                                + Past

\* The answer tells the client what happened: after 400, 401 or 409 nothing was carried
\* out and nothing will be, after 200 it was, by this request or by the one it repeats.
\* After 500 it may or may not have been, after 503 it may still be (toGrpcException:28-51,
\* toHttpException:287-315).
AnswerTellsEffect ==
  \A c \in Calls : (stage[c] = "answered" /\ Mutating(c)) =>
    /\ answer[c].status \in {400, 401, 409} => did[c] = {} /\ work[c] = None
    /\ answer[c].status = 200 =>
         work[c] = None /\ (did[c] = {} <=> answer[c].body.replayed)

\* The HTTP status of an error is the one its exception had at the backend, through
\* the codes of gRPC (grpc-error.util.ts:5-26, client:296-314).
ErrorKeepsItsStatus ==
  \A c \in Calls :
    (stage[c] = "answered" /\ ask[c].kind # "check"
       /\ reply[c] # None /\ reply[c].code # "OK") => answer[c].status = reply[c].raised

\* The rows of the history a client may get when there are `stored': as many as it asked
\* for up to the most, the default where it asked for none; a limit that is no int32 is
\* some other limit to the backend.
HistoryRows(limit, stored) ==
  IF limit \in {None, NaN} THEN {Rows(stored, DefaultLimit)}
  ELSE IF limit \in (-Half)..0 THEN {Rows(stored, DefaultLimit)}
  ELSE IF limit \in 1..(Half - 1)
    THEN {Rows(stored, IF limit < MaxLimit THEN limit ELSE MaxLimit)}
  ELSE 0..MaxLimit

\* The client reads what the use case returned, empty lists and numbers for names
\* included, and as much of the history as it asked for (controller:227-361, client:229-241
\* and 317-319, list use case:25-29).
AnswerReadsBack ==
  \A c \in Calls : (stage[c] = "answered" /\ answer[c].status = 200) =>
    LET result == reply[c].result
        body   == answer[c].body
    IN CASE ask[c].kind \in Mutations -> body = result
         [] ask[c].kind = "check" ->
              body = [result EXCEPT !.signals = IF @ = None THEN 0 ELSE @]
         [] ask[c].kind = "list" -> body = result.stored
         [] ask[c].kind = "history" -> body \in HistoryRows(ask[c].limit, result.stored)
==============================================================================
