--------------------------------- MODULE Errors ---------------------------------
(***************************************************************************)
(* pkg/errors/errors.go: the errors the gateway answers with, without      *)
(* their messages, and the HTTP status each is sent with.                  *)
(***************************************************************************)
EXTENDS Integers

GatewayError(type, code) == [type |-> type, code |-> code]

MissingAPIKey      == GatewayError("invalid_api_key", "missing_api_key")
InvalidAPIKey      == GatewayError("invalid_api_key", "invalid_api_key")
KeyDisabled        == GatewayError("permission_error", "key_disabled")
RateLimitExceeded  == GatewayError("rate_limit_error", "rate_limit_exceeded")
InvalidRequest     == GatewayError("invalid_request_error", "invalid_request")
InternalError      == GatewayError("server_error", "internal_error")
ProviderError      == GatewayError("server_error", "provider_error")
BadGateway         == GatewayError("server_error", "bad_gateway")
ModelOverloaded    == GatewayError("service_unavailable", "model_overloaded")
ServiceUnavailable == GatewayError("service_unavailable", "service_unavailable")
CircuitOpen        == GatewayError("service_unavailable", "circuit_open")

ErrorCodes == {"missing_api_key", "invalid_api_key", "key_disabled",
               "rate_limit_exceeded", "invalid_request", "internal_error",
               "provider_error", "bad_gateway", "model_overloaded",
               "service_unavailable", "circuit_open"}

\* The second switch of HTTPStatus, for the codes that the first leaves out.
StatusOfType(type) ==
    CASE type = "invalid_request_error" -> 400
      [] type = "invalid_api_key" -> 401
      [] type = "permission_error" -> 403
      [] type = "rate_limit_error" -> 429
      [] type = "service_unavailable" -> 503
      [] OTHER -> 500

HTTPStatus(e) ==
    CASE e.code \in {"invalid_api_key", "key_expired", "missing_api_key"} -> 401
      [] e.code \in {"key_disabled", "permission_denied"} -> 403
      [] e.code \in {"rate_limit_exceeded", "quota_exceeded"} -> 429
      [] e.code \in {"max_tokens_exceeded", "request_too_large", "invalid_request",
                     "invalid_model", "invalid_parameters"} -> 400
      [] e.code = "bad_gateway" -> 502
      [] e.code \in {"model_overloaded", "model_not_available",
                     "service_unavailable", "circuit_open"} -> 503
      [] OTHER -> StatusOfType(e.type)
-------------------------------------------------------------------------------
\* docs/SPEC.md:361-374, the table of error codes, for the codes in use.
Documented == [invalid_api_key |-> 401, key_disabled |-> 403,
               rate_limit_exceeded |-> 429, internal_error |-> 500,
               bad_gateway |-> 502, model_overloaded |-> 503]
=================================================================================
