----------------------------- MODULE GrpcMapping -----------------------------
(***************************************************************************)
(* What crosses the gRPC boundary is numbers: enumerated values, status    *)
(* codes, an int32.  Each side has its own table for each, written by hand *)
(* (compliance-grpc.types.ts of the gateway) or generated (compliance.ts   *)
(* of the backend).  These are the tables and the conversions of both      *)
(* sides; module Gateway sends requests through them.                      *)
(***************************************************************************)
EXTENDS Integers

\* The enumerations of the gateway.
GatewayPolicy == [blacklist |-> 1, whitelist |-> 2]
GatewayAction == [add |-> 1, remove |-> 2]

\* The enumerations of the backend; 0 is `unspecified' in each.
BackendPolicy == [blacklist |-> 1, whitelist |-> 2]
BackendAction == [add |-> 1, remove |-> 2]
CheckStatus == [ready |-> 1, in_progress |-> 2]
AssessmentSource == [provider |-> 1, blacklist |-> 2, whitelist |-> 3]
RetrievalSource == [provider |-> 1, cache |-> 2, policy |-> 3]

Unsupported == "unsupported"

\* The name a number stands for: the switch of fromGrpcPolicy and fromGrpcAction.
NameOf(enum, number) ==
  IF \E name \in DOMAIN enum : enum[name] = number
  THEN CHOOSE name \in DOMAIN enum : enum[name] = number
  ELSE Unsupported

\* grpcCodeForHttpStatus of the backend.
GrpcCode(http) ==
  CASE http = 400 -> "INVALID_ARGUMENT"
    [] http = 401 -> "UNAUTHENTICATED"
    [] http = 403 -> "PERMISSION_DENIED"
    [] http = 404 -> "NOT_FOUND"
    [] http = 409 -> "FAILED_PRECONDITION"
    [] http = 429 -> "RESOURCE_EXHAUSTED"
    [] http = 503 -> "UNAVAILABLE"
    [] http = 504 -> "DEADLINE_EXCEEDED"
    [] OTHER -> "INTERNAL"

\* toHttpException of the gateway; an error without a code has none of these.
HttpStatus(code) ==
  CASE code = "INVALID_ARGUMENT" -> 400
    [] code = "UNAUTHENTICATED" -> 401
    [] code = "NOT_FOUND" -> 404
    [] code \in {"ALREADY_EXISTS", "FAILED_PRECONDITION"} -> 409
    [] code = "RESOURCE_EXHAUSTED" -> 429
    [] code = "DEADLINE_EXCEEDED" -> 504
    [] code = "UNAVAILABLE" -> 503
    [] OTHER -> 500

\* A number on its way into an int32 field, whose least value is -half.
ToInt32(number, half) == ((number + half) % (2 * half)) - half
==============================================================================
