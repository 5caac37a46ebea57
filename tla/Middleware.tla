----------------------------- MODULE Middleware -----------------------------
(***************************************************************************)
(* internal/middleware: the chain (chain.go) of recovery, logging,         *)
(* security headers, CORS and the rate limiter (providers.go) around the   *)
(* application's handler.                                                  *)
(*                                                                         *)
(* Requests meet only in the rate limiter, so its steps are the steps of a *)
(* request, and what the others make of it is an operator: Wrap takes the  *)
(* response of the next handler to its own, and Then wraps from the last   *)
(* middleware of the chain to its first, as the code does.                 *)
(***************************************************************************)
EXTENDS RateLimiter, CORS

CONSTANTS
  Chains,           \* the chains that are built otherwise, by NewChain, Use and Append
  Requests,         \* what the middlewares look at: tls, path, and what CORS looks at
  CORSSetting,      \* the configuration of CORS
  SecuritySetting,  \* the security headers that are configured
  BackendHeaders    \* headers of the same names that a backend may answer with

Middlewares == {"recovery", "logging", "security", "cors", "rateLimit"}

\* A chain that has no middleware twice.
IsChain(c) == c \in Seq(Middlewares) /\ \A i, j \in DOMAIN c : c[i] = c[j] => i = j

NotSent == 0

VARIABLES
  chain,
  last   \* history: the request that was answered last, its response and its handler's

vars == <<lvars, chain, last>>

-----------------------------------------------------------------------------
(* The chain                                                               *)

NewMiddlewareChain == <<>>

\* The receiver keeps the chain it had.
Use(c, m) == Append(c, m)

\* What its comments list: each Use on the result of the one before.
Complete ==
  Use(Use(Use(Use(Use(NewMiddlewareChain, "recovery"), "logging"), "security"), "cors"), "rateLimit")

\* It calls Use five times on the chain it returns, and drops the results.
CreateCompleteMiddlewareChain == NewMiddlewareChain

-----------------------------------------------------------------------------
(* The middlewares.  A response: the status that was sent and the last one *)
(* that was written, whether the handler is panicking, what was logged,    *)
(* whether an interim answer (1xx) cleared the headers that were set       *)
(* before, and the headers, each with whose it is.                         *)

Written(r, status) == [r EXCEPT !.written = status, !.sent = IF @ = NotSent THEN status ELSE @]

\* Mutation: a panic is recovered from only as long as nothing was sent.
recoveryUnlessSent(r) ==
  IF r.panic /\ r.sent = NotSent THEN [Written(r, 500) EXCEPT !.panic = FALSE] ELSE r

\* handlePanic swallows http.ErrAbortHandler as well, and ends a response that was cut
\* short like a complete one.
recovery(r) == IF r.panic THEN [Written(r, 500) EXCEPT !.panic = FALSE] ELSE r

StatusOf(status) == IF status = NotSent THEN 200 ELSE status

\* Nothing is logged of an excluded path, nor when the handler panics.
logging(q, r) ==
  IF q.path = "/health" \/ r.panic THEN r ELSE [r EXCEPT !.logged = StatusOf(r.written)]

setSecurityHeaders(q) ==
  {<<n, "configured">> :
     n \in {"Server"} \cup (SecuritySetting \ (IF q.tls THEN {} ELSE {"Strict-Transport-Security"}))}

\* Mutation: after the next handler, if that returns.
securityAfter(q, r) == IF r.panic THEN r ELSE [r EXCEPT !.headers = @ \cup setSecurityHeaders(q)]

\* Before the next handler runs: what that adds (copyHeader of ReverseProxy replaces
\* nothing) stands beside, and what it clears is gone.
security(q, r) ==
  IF r.cleared THEN r ELSE [r EXCEPT !.headers = @ \cup setSecurityHeaders(q)]

\* The response of a handler that is not called.
Untouched ==
  [sent |-> NotSent, written |-> NotSent, panic |-> FALSE, logged |-> NotSent,
   cleared |-> FALSE, headers |-> {}]

cors(q, r) ==
  CASE Answers(CORSSetting, q) = "403" -> Written(Untouched, 403)
    [] Answers(CORSSetting, q) = "204" -> Written(Untouched, 204)
    [] OTHER -> r

Wrap(m, q, limited, r) ==
  CASE m = "recovery"  -> recovery(r)
    [] m = "logging"   -> logging(q, r)
    [] m = "security"  -> security(q, r)
    [] m = "cors"      -> cors(q, r)
    [] m = "rateLimit" -> IF limited THEN Written(Untouched, 429) ELSE r

\* Mutation: from the first to the last, which then is the outermost.
ThenForward(q, limited, h) ==
  LET from[i \in 0 .. Len(chain)] ==
        IF i = 0 THEN h ELSE Wrap(chain[i], q, limited, from[i - 1])
  IN  from[Len(chain)]

\* The i-th middleware wraps what those after it make of the handler.
Then(q, limited, h) ==
  LET from[i \in 1 .. Len(chain) + 1] ==
        IF i > Len(chain) THEN h ELSE Wrap(chain[i], q, limited, from[i + 1])
  IN  from[1]

\* What the handler does: it answers with a status, with headers of the backend and
\* perhaps after an interim answer, which ReverseProxy forwards before it clears the
\* headers; or without a status; or panics before or (as ReverseProxy, when the backend
\* breaks off) after it; or it hijacks the connection and sends 101 itself.
Handlers ==
  {h \in [sent : {NotSent, 101, 200}, written : {NotSent, 200}, panic : BOOLEAN, logged : {NotSent},
          cleared : BOOLEAN, headers : {{<<n, "backend">> : n \in N} : N \in {{}, BackendHeaders}}] :
     /\ h.written = IF h.sent = 101 THEN NotSent ELSE h.sent
     /\ h.sent = NotSent => ~h.cleared /\ h.headers = {}
     /\ h.sent = 101 => ~h.panic /\ ~h.cleared}

-----------------------------------------------------------------------------
(* Requests                                                                *)

NoAnswer == [request |-> None]

TypeOK ==
  /\ LimiterTypeOK
  /\ chain \in Seq(Middlewares)
  /\ last = NoAnswer \/ /\ last.request \in Requests
                        /\ {last.response.sent, last.response.logged}
                             \subseteq {NotSent, 101, 200, 204, 403, 429, 500}

Init ==
  /\ LimiterInit
  /\ chain \in {CreateCompleteMiddlewareChain, Complete} \cup Chains
  /\ last = NoAnswer

\* Is m outside n?
Before(m, n) == \E i, j \in DOMAIN chain : i < j /\ chain[i] = m /\ chain[j] = n

\* Does the request come to the limiter, and to the handler?
Limited(q) ==
  /\ "rateLimit" \in Range(chain)
  /\ Before("cors", "rateLimit") => Answers(CORSSetting, q) = None

Reached(q, limited) == ~limited /\ ("cors" \in Range(chain) => Answers(CORSSetting, q) = None)

Answered(q, limited) ==
  \E h \in IF Reached(q, limited) THEN Handlers ELSE {Untouched} :
    last' = [request |-> q, handler |-> h, response |-> Then(q, limited, h)]

\* The request comes as far as the limiter, or is answered without it.
Serve(s) ==
  \/ \E k \in Clients : Called(s, k) /\ "rateLimit" \in Range(chain) /\ last' = NoAnswer
  \/ /\ step[s] = "idle" /\ UNCHANGED lvars
     /\ \E q \in Requests : ~Limited(q) /\ Answered(q, FALSE)

Answer(s) ==
  /\ Done(s)
  /\ \E q \in Requests : Limited(q) /\ Answered(q, call[s] = "Stats")

Passes == Tick     /\ last' = NoAnswer
Cleans == Cleanup  /\ last' = NoAnswer

Next ==
  /\ UNCHANGED chain
  /\ \/ \E s \in Workers : Serve(s) \/ Answer(s) \/ (Limits(s) /\ last' = NoAnswer)
     \/ \E k \in Clients : Reset(k) /\ last' = NoAnswer
     \/ Passes \/ Cleans

Spec == Init /\ [][Next]_vars

\* Time passes, and the ticker of the cleanup fires.
FairSpec == Spec /\ WF_vars(Passes /\ UNCHANGED chain) /\ WF_vars(Cleans /\ UNCHANGED chain)

-----------------------------------------------------------------------------
(* Properties                                                              *)

Sent == StatusOf(last.response.sent)

\* "Recovery (outermost - catches panics from all other middleware)" (providers.go
\* l.411): if it is, net/http sees no panic, and a client to whom nothing was sent is
\* told 500.
PanicsContained ==
  last # NoAnswer /\ chain # <<>> /\ chain[1] = "recovery" =>
    /\ ~last.response.panic
    /\ last.handler.panic /\ last.handler.sent = NotSent => Sent = 500

\* The chain that CreateCompleteMiddlewareChain returns contains no panic.
NoPanicEscapes ==
  last # NoAnswer /\ chain = CreateCompleteMiddlewareChain => ~last.response.panic

\* m is in the chain, outside those that may answer in the handler's place.
OutsideAnswers(m) ==
  m \in Range(chain) /\ ~Before("cors", m) /\ ~Before("rateLimit", m)

\* If logging is outside all that answers and recovery outside of it, the status in the
\* log is the status that the client was sent, and every request is logged but those of
\* excluded paths and those whose handler panics.  (Of a hijacked connection this is not
\* so.)
LoggedStatusIsSent ==
  /\ last # NoAnswer /\ last.handler.sent # 101
  /\ OutsideAnswers("logging") /\ ~Before("logging", "recovery")
  => \/ last.response.logged = Sent
     \/ last.response.logged = NotSent /\ (last.request.path = "/health" \/ last.handler.panic)

\* Does the response have the configured headers, Strict-Transport-Security over TLS alone?
Secured ==
  /\ {<<n, "configured">> : n \in SecuritySetting \ {"Strict-Transport-Security"}}
       \subseteq last.response.headers
  /\ <<"Strict-Transport-Security", "configured">> \in last.response.headers
       <=> last.request.tls /\ "Strict-Transport-Security" \in SecuritySetting

\* If the security headers are set outside all that answers, then whoever answers, be it
\* the limiter, CORS, the recovery or the handler, the response has them, beside those
\* that a backend sent, unless an interim answer took them away.
AnswersAreSecured ==
  /\ last # NoAnswer /\ ~last.handler.cleared
  /\ OutsideAnswers("security")
  => Secured
=============================================================================
