-------------------------------- MODULE CORS --------------------------------
(***************************************************************************)
(* internal/middleware/cors.go as operators: what a configuration answers  *)
(* to a request with an Origin, and what the validator accepts.            *)
(*                                                                         *)
(* An origin is [domain, sub, scheme]: a domain or (sub) a subdomain of    *)
(* it, as browsers send it with its scheme or without.  An entry of        *)
(* AllowedOrigins is AnyOrigin ("*"), [is |-> an origin] or                *)
(* [under |-> a domain] ("*.domain").  Names of headers are without case.  *)
(***************************************************************************)
EXTENDS Integers, Sequences, Functions

None      == "none"
AnyOrigin == [any |-> TRUE]
NoOrigin  == [any |-> FALSE]   \* the request has no Origin header

Matches(allowed, origin) ==
  \/ allowed = AnyOrigin
  \/ "is" \in DOMAIN allowed /\ allowed.is = origin
  \/ /\ "under" \in DOMAIN allowed
     /\ origin.domain = allowed.under
     /\ origin.sub \/ ~origin.scheme

OrElse(S, default) == IF S = {} THEN default ELSE S

NewCORSMiddlewareWithConfig(config) ==
  [config EXCEPT !.origins = IF @ = <<>> THEN <<AnyOrigin>> ELSE @,
                 !.methods = OrElse(@, {"GET", "POST", "OPTIONS"}),
                 !.headers = OrElse(@, {"accept", "content-type"})]

isOriginAllowed(config, origin) == \E allowed \in Range(config.origins) : Matches(allowed, origin)

isPreflight(q) == q.method = "OPTIONS"

\* Vary as the next handler finds it; an Origin that is there already ends it.
setVaryHeader(q) ==
  IF "origin" \in q.vary THEN q.vary
  ELSE q.vary \cup {"origin"}
       \cup (IF isPreflight(q) /\ q.requestMethod # None THEN {"access-control-request-method"} ELSE {})
       \cup (IF isPreflight(q) /\ q.requestHeaders # {} THEN {"access-control-request-headers"} ELSE {})

areHeadersAllowed(config, headers) == config.headers = {} \/ headers \subseteq config.headers

\* A method that is not allowed is only logged.
setCORSHeaders(config, q) ==
  [allowOrigin |-> IF config.origins = <<AnyOrigin>> THEN AnyOrigin ELSE q.origin,
   credentials |-> config.credentials,
   expose      |-> config.expose,
   vary        |-> setVaryHeader(q)]

handlePreflight(config, q) ==
  [allowMethods |-> config.methods,
   allowHeaders |-> IF q.requestHeaders # {} /\ areHeadersAllowed(config, q.requestHeaders)
                    THEN q.requestHeaders ELSE config.headers,
   maxAge       |-> config.maxAge]

\* Wrap: the status it answers with itself, if it does.
Answers(config, q) ==
  IF q.origin = NoOrigin THEN None
  ELSE IF ~isOriginAllowed(config, q.origin) THEN "403"
  ELSE IF isPreflight(q) /\ ~config.passthrough THEN "204"
  ELSE None

-----------------------------------------------------------------------------

isValidHTTPMethod(m) ==
  m \in {"GET", "HEAD", "POST", "PUT", "PATCH", "DELETE", "CONNECT", "OPTIONS", "TRACE"}

\* Mutation: only the first origin is looked at.
ValidateFirst(config) ==
  /\ config.origins # <<>>
  /\ ~(config.origins[1] = AnyOrigin /\ config.credentials)
  /\ config.methods # {} /\ \A m \in config.methods : isValidHTTPMethod(m)
  /\ config.maxAge >= 0

Validate(config) ==
  /\ config.origins # <<>>
  /\ ~(AnyOrigin \in Range(config.origins) /\ config.credentials)
  /\ config.methods # {} /\ \A m \in config.methods : isValidHTTPMethod(m)
  /\ config.maxAge >= 0

-----------------------------------------------------------------------------

\* What a validated configuration answers grants no more than it says: credentials only
\* to origins it names, headers it lists; and an answer that depends on the origin says
\* so to caches, whatever Vary was before.
GrantsOnlyConfigured(config, q) ==
  LET c == NewCORSMiddlewareWithConfig(config)
      headers == setCORSHeaders(c, q)
  IN  Validate(config) /\ q.origin # NoOrigin /\ isOriginAllowed(c, q.origin) =>
        /\ headers.credentials =>
             \E allowed \in Range(config.origins) \ {AnyOrigin} : Matches(allowed, q.origin)
        /\ headers.allowOrigin # AnyOrigin => "origin" \in headers.vary
        /\ handlePreflight(c, q).allowHeaders \subseteq c.headers
=============================================================================
