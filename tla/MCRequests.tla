----------------------------- MODULE MCRequests -----------------------------
(***************************************************************************)
(* The way of a request: the middleware chain with its rate limiter, and   *)
(* the proxy handler with its router, side by side.  They share no state,  *)
(* so that a behaviour is one of either: the other stays as it began.      *)
(***************************************************************************)
EXTENDS Proxy, RateLimiter

CONSTANTS
  Units,   \* which of the two a run looks at: "middlewares", "proxy"
  Chains   \* the chains of middlewares, beside those of the provider

VARIABLES unit, chain, last

-----------------------------------------------------------------------------
(* The proxy: two addresses that share all but the last group, one in      *)
(* brackets that no route has, a name that is configured with a port, and  *)
(* no host at all.                                                         *)

Host(how, net, node, port) == [kind |-> how, net |-> net, node |-> node, port |-> port]

MCHeaders == {Host("empty", "", "", FALSE), Host("bare", "fe80", "1", FALSE),
              Host("bare", "fe80", "2", FALSE), Host("bracketed", "fe80", "3", TRUE),
              Host("name", "example", "com", FALSE)}
MCRoutes  == {Host("bare", "fe80", "1", FALSE), Host("name", "example", "com", TRUE)}

\* A status that is one of the proxy's own as well.
MCBackendStatuses == {404}

-----------------------------------------------------------------------------
(* The middlewares                                                         *)

MCAny      == [any |-> TRUE]
MCNoOrigin == [any |-> FALSE]

Site   == [domain |-> "site", sub |-> FALSE, scheme |-> TRUE]
Api    == [domain |-> "site", sub |-> TRUE, scheme |-> TRUE]
Other  == [domain |-> "other", sub |-> FALSE, scheme |-> TRUE]

MCRequest(path, tls, method, origin) ==
  [path |-> path, tls |-> tls, method |-> method, origin |-> origin]

MCRequests ==
  {MCRequest("/", TRUE, "GET", MCNoOrigin), MCRequest("/health", FALSE, "GET", Api),
   MCRequest("/", TRUE, "OPTIONS", Site), MCRequest("/", FALSE, "OPTIONS", Other)}

MCConfig(origins, credentials, methods, headers, maxAge) ==
  [origins |-> origins, credentials |-> credentials, methods |-> methods, headers |-> headers,
   expose |-> {}, maxAge |-> maxAge, passthrough |-> FALSE]

\* One that names its origins.
MCCORSSetting     == MCConfig(<<[is |-> Site], [under |-> "site"]>>, TRUE, {"GET"}, {"accept"}, 0)
MCSecuritySetting == {"Content-Security-Policy", "Strict-Transport-Security", "X-Frame-Options"}

Entries  == {MCAny, [is |-> Site], [under |-> "site"]}
MCConfigs ==
  [origins : UNION {[1 .. n -> Entries] : n \in 0 .. 2}, credentials : BOOLEAN,
   methods : {{}, {"GET"}, {"GET", "FETCH"}}, headers : {{}, {"accept"}}, expose : {{}},
   maxAge : {-1, 0}, passthrough : {FALSE}]

\* What CORS looks at.
MCCORSRequests ==
  [origin : {MCNoOrigin, Site, Api, Other}, method : {"GET", "OPTIONS"},
   requestMethod : {"none", "PUT"}, requestHeaders : SUBSET {"accept", "x-token"},
   vary : SUBSET {"origin", "accept-encoding"}]

MCBackendHeaders  == {"Server", "Strict-Transport-Security"}

\* Such as tests build, of some of the middlewares, and in another order.
MCChains ==
  {<<"recovery">>, <<"logging">>, <<"security", "recovery">>, <<"logging", "recovery", "cors">>,
   <<"cors", "recovery", "security", "logging">>}
MCNoChains == {}

Chain == INSTANCE Middleware WITH
  Requests <- MCRequests, CORSSetting <- MCCORSSetting, SecuritySetting <- MCSecuritySetting,
  BackendHeaders <- MCBackendHeaders

ASSUME ChainsAssumption == \A c \in Chains : Chain!IsChain(c)

\* The property of CORS, for all of these.  It depends on no variable: the initial states
\* are enough.
GrantsAreConfigured ==
  unit = "middlewares" /\ Chain!Init =>
    \A config \in MCConfigs, q \in MCCORSRequests : Chain!GrantsOnlyConfigured(config, q)

\* The chain: no panic reaches net/http; what is logged is what was sent; every response
\* has its security headers; each as far as the order of the chain goes.
PanicsContained    == Chain!PanicsContained
LoggedStatusIsSent == Chain!LoggedStatusIsSent
AnswersAreSecured  == Chain!AnswersAreSecured

\* "Recovery (first to catch any panics)", of the chain that the provider returns.
NoPanicEscapes == Chain!NoPanicEscapes

-----------------------------------------------------------------------------

middlewares == <<kind, limiters, bucket, call, step, key, held, credit, chain, last>>
proxy ==
  <<backends, down, active, stage, header, backend, answer, xStatusCode, recorded>>

MCInit ==
  /\ unit \in Units
  /\ Init /\ Chain!Init
  /\ unit = "proxy" => kind = "simple" /\ chain = <<>>
  /\ unit = "middlewares" => \A s \in Slots : header[s].kind = "empty"

MCNext ==
  /\ UNCHANGED unit
  /\ \/ unit = "middlewares" /\ Chain!Next /\ UNCHANGED proxy
     \/ unit = "proxy"       /\ Next       /\ UNCHANGED middlewares

\* The fairness of each.  In the proxy's initial state no request is under way, and in
\* the middlewares' there is no time to pass nor a bucket to remove.
MCSpec ==
  /\ MCInit /\ [][MCNext]_<<unit, middlewares, proxy>>
  /\ \A s \in Slots : WF_proxy(Progress(s))
  /\ WF_middlewares(Chain!Passes /\ UNCHANGED chain)
  /\ WF_middlewares(Chain!Cleans /\ UNCHANGED chain)

\* Every variable keeps its type, whichever part takes the steps.
TypesOK == TypeOK /\ Chain!TypeOK
=============================================================================
