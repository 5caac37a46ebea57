---------------------------- MODULE ProxyErrors ----------------------------
(***************************************************************************)
(* internal/errors/types.go: the error codes of the proxy, and the HTTP    *)
(* status that each becomes.                                               *)
(***************************************************************************)
EXTENDS Naturals

BackendErrors  == {"BackendUnavailable", "BackendTimeout", "BackendConnectionFailed",
                   "BackendInvalidResponse"}
RoutingErrors  == {"InvalidHost", "HostNotConfigured", "RoutingFailed"}
TLSErrors      == {"TLSHandshake", "CertificateNotFound", "CertificateExpired",
                   "CertificateInvalid"}
SecurityErrors == {"RateLimited", "AccessDenied", "InvalidOrigin"}
ConfigErrors   == {"ConfigInvalid", "ConfigMissing", "ConfigValidation"}
HealthErrors   == {"HealthCheckFailed", "HealthCheckTimeout", "CircuitBreakerOpen"}
RequestErrors  == {"RequestInvalid", "RequestTooLarge", "RequestTimeout"}
InternalErrors == {"InternalError", "ServiceUnavailable", "NotImplemented"}

ErrorCodes == UNION {BackendErrors, RoutingErrors, TLSErrors, SecurityErrors,
                     ConfigErrors, HealthErrors, RequestErrors, InternalErrors}

HTTPStatus(code) ==
  CASE code \in {"BackendUnavailable", "BackendConnectionFailed"} \cup TLSErrors -> 502
    [] code \in {"BackendTimeout", "HealthCheckTimeout", "RequestTimeout"}       -> 504
    [] code \in {"InvalidHost", "HostNotConfigured"}                             -> 404
    [] code = "RateLimited"                                                      -> 429
    [] code \in {"AccessDenied", "InvalidOrigin"}                                -> 403
    [] code \in {"RequestInvalid", "BackendInvalidResponse"}                     -> 400
    [] code = "RequestTooLarge"                                                  -> 413
    [] code \in {"CircuitBreakerOpen", "ServiceUnavailable"}                     -> 503
    [] code = "NotImplemented"                                                   -> 501
    [] OTHER                                                                     -> 500
=============================================================================
