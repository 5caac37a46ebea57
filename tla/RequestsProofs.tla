---------------------------- MODULE RequestsProofs ----------------------------
(***************************************************************************)
(* The middleware chain around the rate limiter, and the two halves of     *)
(* MCRequests side by side: what the chain makes of the response of any    *)
(* handler, for any request and any configuration of CORS and of the       *)
(* security headers, and what a validated configuration of CORS grants.    *)
(***************************************************************************)
EXTENDS MCRequests, RateLimiterProofs, ProxyProofs, Sequences, WellFoundedInduction

all == <<unit, middlewares, proxy>>

\* What the theorems of ProxyProofs ask of hosts is so of those of the run.
LEMMA HostsOfTheRun ==
  ASSUME Headers = MCHeaders, Routes = MCRoutes
  PROVE  PortsFollowBrackets /\ OneKeyPerHost
<1>. DEFINE a == Host("empty", "", "", FALSE)
            b == Host("bare", "fe80", "1", FALSE)
            c == Host("bare", "fe80", "2", FALSE)
            d == Host("name", "example", "com", FALSE)
            e == Host("name", "example", "com", TRUE)
            f == Host("bracketed", "fe80", "3", TRUE)
            g == Host("bracketed", "fe80", "3", FALSE)
<1>1. Headers = {a, b, c, f, d} /\ Routes = {b, e}
  BY DEF MCHeaders, MCRoutes
<1>2. /\ a.kind # "bracketed" /\ b.kind # "bracketed" /\ c.kind # "bracketed"
      /\ d.kind # "bracketed" /\ e.kind # "bracketed" /\ f.port
  BY DEF Host
<1>3. /\ normalizeHost(a) = a /\ normalizeHost(b) = b /\ normalizeHost(c) = c
      /\ normalizeHost(d) = d
      /\ normalizeHost(e) = d
      /\ normalizeHost(f) = g
  BY DEF normalizeHost, Host
<1>4. /\ Hostname(a) = <<"", "">> /\ Hostname(b) = <<"fe80", "1">> /\ Hostname(c) = <<"fe80", "2">>
      /\ Hostname(d) = <<"example", "com">> /\ Hostname(e) = <<"example", "com">>
      /\ Hostname(f) = <<"fe80", "3">>
  BY DEF Hostname, Host
<1>5. /\ a # b /\ b # c /\ b # d /\ a # d /\ c # d
      /\ g # b /\ g # d
  BY DEF Host
<1>6. /\ <<"fe80", "1">> # <<"fe80", "2">> /\ <<"fe80", "1">> # <<"example", "com">>
      /\ <<"", "">> # <<"fe80", "1">> /\ <<"", "">> # <<"example", "com">>
      /\ <<"fe80", "2">> # <<"example", "com">>
      /\ <<"fe80", "3">> # <<"fe80", "1">> /\ <<"fe80", "3">> # <<"example", "com">>
  OBVIOUS
<1>7. PICK na, nb, nc, nd, nf : /\ na = <<"", "">> /\ nb = <<"fe80", "1">>
                                /\ nc = <<"fe80", "2">> /\ nd = <<"example", "com">>
                                /\ nf = <<"fe80", "3">>
  OBVIOUS
<1>8. /\ nb # nc /\ nb # nd /\ na # nb /\ na # nd /\ nc # nd /\ nf # nb /\ nf # nd
      /\ Hostname(a) = na /\ Hostname(b) = nb /\ Hostname(c) = nc
      /\ Hostname(d) = nd /\ Hostname(e) = nd /\ Hostname(f) = nf
  BY <1>4, <1>6, <1>7
<1>. HIDE DEF a, b, c, d, e, f, g
<1>9. PortsFollowBrackets
  BY <1>1, <1>2 DEF PortsFollowBrackets
<1>. QED  BY <1>1, <1>3, <1>5, <1>8, <1>9 DEF OneKeyPerHost

-----------------------------------------------------------------------------
(* What the chain makes of a response: Chain!Then unfolds, for any chain   *)

LEMMA LeastElement ==
  ASSUME NEW T \in SUBSET Nat, T # {}
  PROVE  \E x \in T : \A y \in T : ~(y < x)
<1>1. \E x \in T : \A y \in T : ~(<<y, x>> \in OpToRel(<, Nat))
  BY NatLessThanWellFounded, WFMin, Zenon
<1>. QED  BY <1>1 DEF OpToRel

\* A set of the positions 1 .. n + 1 of a chain that has the last one, and with any other
\* the one before it, has them all: induction from the handler outwards.
LEMMA Outwards ==
  ASSUME NEW n \in Nat, NEW m \in 1 .. n + 1, NEW S,
         n + 1 \in S, \A i \in m .. n : i + 1 \in S => i \in S
  PROVE  \A i \in m .. n + 1 : i \in S
<1>. DEFINE T == {k \in 0 .. n + 1 - m : n + 1 - k \notin S}
<1>1. CASE T # {}
  <2>1. PICK k \in T : \A j \in T : ~(j < k)
    BY <1>1, LeastElement, T \in SUBSET Nat
  <2>2. k # 0
    BY <2>1
  <2>3. k - 1 \notin T /\ k - 1 \in 0 .. n + 1 - m
    BY <2>1, <2>2
  <2>4. n + 1 - (k - 1) \in S
    BY <2>3
  <2>5. n + 1 - k \in m .. n /\ (n + 1 - k) + 1 = n + 1 - (k - 1)
    BY <2>1, <2>2
  <2>6. n + 1 - k \in S
    BY <2>4, <2>5
  <2>. QED  BY <2>1, <2>6
<1>2. CASE T = {}
  <2>. SUFFICES ASSUME NEW i \in m .. n + 1 PROVE i \in S
    OBVIOUS
  <2>1. n + 1 - i \in 0 .. n + 1 - m /\ n + 1 - (n + 1 - i) = i
    OBVIOUS
  <2>. QED  BY <1>2, <2>1
<1>. QED  BY <1>1, <1>2

LEMMA OutwardsToFirst ==
  ASSUME NEW n \in Nat, NEW S, n + 1 \in S, \A i \in 1 .. n : i + 1 \in S => i \in S
  PROVE  1 \in S /\ \A i \in 1 .. n + 1 : i \in S
<1>1. 1 \in 1 .. n + 1
  OBVIOUS
<1>2. \A i \in 1 .. n + 1 : i \in S
  BY <1>1, Outwards
<1>. QED  BY <1>1, <1>2

\* f is what the middlewares from i on make of h, the handler's response being the last.
From(f, q, limited, h) ==
  /\ f[Len(chain) + 1] = h
  /\ \A i \in 1 .. Len(chain) : f[i] = Chain!Wrap(chain[i], q, limited, f[i + 1])

LEMMA ThenUnfolds ==
  ASSUME chain \in Seq(Chain!Middlewares), NEW q, NEW limited, NEW h
  PROVE  \E f : From(f, q, limited, h) /\ Chain!Then(q, limited, h) = f[1]
<1>. DEFINE n == Len(chain)
            W(i, r) == Chain!Wrap(chain[i], q, limited, r)
            G(f) == [i \in 1 .. n + 1 |-> IF i > n THEN h ELSE W(i, f[i + 1])]
            from == CHOOSE f : f = G(f)
<1>1. Chain!Then(q, limited, h) = from[1]
  BY DEF Chain!Then
<1>. HIDE DEF W
<1>2. n \in Nat
  OBVIOUS
<1>. HIDE DEF n
<1>3. from = G(from)
  <2>. DEFINE Part(m, f) == f = [i \in m .. n + 1 |-> IF i > n THEN h ELSE W(i, f[i + 1])]
              S == {m \in 1 .. n + 1 : \E f : Part(m, f)}
  <2>1. n + 1 \in S
    <3>. DEFINE f == [i \in n + 1 .. n + 1 |-> h]
    <3>1. Part(n + 1, f)
      BY <1>2
    <3>. HIDE DEF f, Part
    <3>. QED  BY <1>2, <3>1
  <2>2. ASSUME NEW m \in 1 .. n, m + 1 \in S
        PROVE  m \in S
    <3>1. PICK f : Part(m + 1, f)
      BY <2>2
    <3>. DEFINE g == [i \in m .. n + 1 |-> IF i = m THEN W(m, f[m + 1]) ELSE f[i]]
    <3>2. ASSUME NEW i \in m .. n + 1
          PROVE  g[i] = IF i > n THEN h ELSE W(i, g[i + 1])
      <4>1. CASE i = m
        <5>1. ~(i > n) /\ i + 1 \in m .. n + 1 /\ i + 1 # m
          BY <1>2, <4>1
        <5>. QED  BY <4>1, <5>1
      <4>2. CASE i # m
        <5>1. i \in m + 1 .. n + 1
          BY <1>2, <4>2
        <5>2. f[i] = IF i > n THEN h ELSE W(i, f[i + 1])
          BY <3>1, <5>1
        <5>3. ~(i > n) => i + 1 \in m .. n + 1 /\ i + 1 # m
          BY <1>2, <5>1
        <5>. QED  BY <4>2, <5>2, <5>3
      <4>. QED  BY <4>1, <4>2
    <3>3. Part(m, g)
      BY <3>2
    <3>. HIDE DEF g, Part
    <3>. QED  BY <1>2, <3>3
  <2>. HIDE DEF S, Part
  <2>3. 1 \in S
    BY <1>2, <2>1, <2>2, OutwardsToFirst
  <2>4. PICK f : Part(1, f)
    BY <2>3 DEF S
  <2>5. f = G(f)
    BY <2>4 DEF Part
  <2>. QED  BY <2>5
<1>. HIDE DEF from
<1>4. from[n + 1] = h /\ \A i \in 1 .. n : from[i] = W(i, from[i + 1])
  BY <1>2, <1>3
<1>. QED  BY <1>1, <1>4 DEF From, n, W

-----------------------------------------------------------------------------
(* The middlewares one by one                                              *)

Codes == {0, 101, 200, 204, 403, 429, 500}

IsResponse(r) ==
  /\ r = [sent |-> r.sent, written |-> r.written, panic |-> r.panic, logged |-> r.logged,
          cleared |-> r.cleared, headers |-> r.headers]
  /\ r.sent \in Codes /\ r.written \in Codes /\ r.logged \in Codes
  /\ r.panic \in BOOLEAN /\ r.cleared \in BOOLEAN

\* p has what r has, but for its log, its headers, or its panic with the statuses.
SameButLogged(p, r) ==
  /\ p.sent = r.sent /\ p.written = r.written /\ p.panic = r.panic
  /\ p.cleared = r.cleared /\ p.headers = r.headers
SameButHeaders(p, r) ==
  /\ p.sent = r.sent /\ p.written = r.written /\ p.panic = r.panic
  /\ p.cleared = r.cleared /\ p.logged = r.logged
SameButPanic(p, r) ==
  p.cleared = r.cleared /\ p.headers = r.headers /\ p.logged = r.logged

\* Written once by a middleware, and nothing else.
Plain(r) ==
  /\ IsResponse(r) /\ r.sent = r.written
  /\ r.panic = FALSE /\ r.logged = 0 /\ r.cleared = FALSE /\ r.headers = {}

LEMMA UntouchedIsPlain == Plain(Chain!Untouched) /\ Chain!Untouched.sent = 0
BY DEF Chain!Untouched, Chain!NotSent, IsResponse, Codes, Plain

\* A response by its fields, and what it is once a status is written.
Fields(sent, written, panic, logged, cleared, headers) ==
  [sent |-> sent, written |-> written, panic |-> panic, logged |-> logged, cleared |-> cleared,
   headers |-> headers]

LEMMA WrittenFields ==
  ASSUME NEW a, NEW b, NEW c, NEW d, NEW e, NEW f, NEW status
  PROVE  Chain!Written(Fields(a, b, c, d, e, f), status)
           = Fields(IF a = 0 THEN status ELSE a, status, c, d, e, f)
<1>. DEFINE r == Fields(a, b, c, d, e, f)
            x == [r EXCEPT !.written = status]
<1>1. x = Fields(a, status, c, d, e, f)
  BY DEF Fields
<1>2. Chain!Written(r, status) = [x EXCEPT !.sent = IF @ = 0 THEN status ELSE @]
  BY DEF Chain!Written, Chain!NotSent
<1>3. @ = [Fields(a, status, c, d, e, f) EXCEPT !.sent = IF a = 0 THEN status ELSE a]
  BY <1>1 DEF Fields
<1>4. @ = Fields(IF a = 0 THEN status ELSE a, status, c, d, e, f)
  BY DEF Fields
<1>. QED  BY <1>2, <1>3, <1>4

LEMMA FieldsOf ==
  ASSUME NEW r, IsResponse(r)
  PROVE  r = Fields(r.sent, r.written, r.panic, r.logged, r.cleared, r.headers)
BY DEF IsResponse, Fields

LEMMA PlainWritten ==
  ASSUME NEW status \in {204, 403, 429}
  PROVE  Plain(Chain!Written(Chain!Untouched, status))
<1>1. PICK p : p = Chain!Untouched.panic
  OBVIOUS
<1>2. PICK c : c = Chain!Untouched.cleared
  OBVIOUS
<1>3. ~p /\ ~c /\ p \in BOOLEAN /\ c \in BOOLEAN
  BY <1>1, <1>2 DEF Chain!Untouched
<1>4. Chain!Untouched = Fields(0, 0, p, 0, c, {})
  BY <1>1, <1>2 DEF Chain!Untouched, Chain!NotSent, Fields
<1>5. Chain!Written(Chain!Untouched, status) = Fields(status, status, p, 0, c, {})
  BY <1>4, WrittenFields
<1>6. Plain(Fields(status, status, p, 0, c, {}))
  BY <1>3 DEF Plain, IsResponse, Codes, Fields
<1>. QED  BY <1>5, <1>6

LEMMA Recovers ==
  ASSUME NEW q, NEW limited, NEW r, IsResponse(r),
         NEW p, p = Chain!Wrap("recovery", q, limited, r)
  PROVE  /\ IsResponse(p) /\ SameButPanic(p, r) /\ ~p.panic
         /\ p.sent = IF r.panic /\ r.sent = 0 THEN 500 ELSE r.sent
<1>1. p = Chain!recovery(r)
  BY DEF Chain!Wrap
<1>2. CASE r.panic
  <2>1. PICK s : s = IF r.sent = 0 THEN 500 ELSE r.sent
    OBVIOUS
  <2>2. Chain!Written(r, 500) = Fields(s, 500, r.panic, r.logged, r.cleared, r.headers)
    BY <2>1, FieldsOf, WrittenFields
  <2>3. PICK no \in BOOLEAN : no = FALSE
    OBVIOUS
  <2>4. p = [Fields(s, 500, r.panic, r.logged, r.cleared, r.headers) EXCEPT !.panic = no]
    BY <1>1, <1>2, <2>2, <2>3 DEF Chain!recovery
  <2>5. @ = Fields(s, 500, no, r.logged, r.cleared, r.headers)
    BY DEF Fields
  <2>6. s \in Codes
    BY <2>1 DEF IsResponse, Codes
  <2>7. IsResponse(Fields(s, 500, no, r.logged, r.cleared, r.headers))
    BY <2>6 DEF IsResponse, Codes, Fields
  <2>8. ~p.panic /\ p.sent = s /\ SameButPanic(p, r)
    BY <2>3, <2>4, <2>5 DEF Fields, SameButPanic
  <2>9. IsResponse(p)
    BY <2>4, <2>5, <2>7
  <2>. QED  BY <1>2, <2>1, <2>8, <2>9
<1>3. CASE ~r.panic
  BY <1>1, <1>3 DEF Chain!recovery, SameButPanic, IsResponse
<1>. QED  BY <1>2, <1>3

LEMMA Logs ==
  ASSUME NEW q, NEW limited, NEW r, IsResponse(r),
         NEW p, p = Chain!Wrap("logging", q, limited, r)
  PROVE  /\ IsResponse(p) /\ SameButLogged(p, r)
         /\ p.logged = IF q.path = "/health" \/ r.panic THEN r.logged ELSE Chain!StatusOf(r.written)
<1>1. p = Chain!logging(q, r)
  BY DEF Chain!Wrap
<1>2. CASE q.path = "/health" \/ r.panic
  BY <1>1, <1>2 DEF Chain!logging, SameButLogged
<1>3. CASE ~(q.path = "/health" \/ r.panic)
  <2>. DEFINE w == Fields(r.sent, r.written, r.panic, Chain!StatusOf(r.written), r.cleared, r.headers)
  <2>1. p = w
    BY <1>1, <1>3, FieldsOf DEF Chain!logging, Fields
  <2>2. Chain!StatusOf(r.written) \in Codes
    BY DEF IsResponse, Codes, Chain!StatusOf, Chain!NotSent
  <2>3. IsResponse(w)
    BY <2>2 DEF IsResponse, Fields
  <2>. QED  BY <1>3, <2>1, <2>3 DEF SameButLogged, Fields
<1>. QED  BY <1>2, <1>3

LEMMA SetsHeaders ==
  ASSUME NEW q, NEW limited, NEW r, IsResponse(r),
         NEW p, p = Chain!Wrap("security", q, limited, r)
  PROVE  IsResponse(p) /\ SameButHeaders(p, r)
<1>1. p = Chain!security(q, r)
  BY DEF Chain!Wrap
<1>2. CASE r.cleared
  BY <1>1, <1>2 DEF Chain!security, SameButHeaders
<1>3. CASE ~r.cleared
  <2>. DEFINE w == Fields(r.sent, r.written, r.panic, r.logged, r.cleared,
                          r.headers \cup Chain!setSecurityHeaders(q))
  <2>1. p = w
    BY <1>1, <1>3, FieldsOf DEF Chain!security, Fields
  <2>2. IsResponse(w)
    BY DEF IsResponse, Fields
  <2>. QED  BY <1>3, <2>1, <2>2 DEF SameButHeaders, Fields
<1>. QED  BY <1>2, <1>3

LEMMA HeadersOnTop ==
  ASSUME NEW q, NEW limited, NEW r, IsResponse(r), ~r.cleared,
         NEW p, p = Chain!Wrap("security", q, limited, r)
  PROVE  \A n : n \in p.headers <=> n \in r.headers \/ n \in Chain!setSecurityHeaders(q)
<1>. DEFINE w == Fields(r.sent, r.written, r.panic, r.logged, r.cleared,
                        r.headers \cup Chain!setSecurityHeaders(q))
<1>1. p = w
  BY FieldsOf DEF Chain!Wrap, Chain!security, Fields
<1>2. p.headers = r.headers \cup Chain!setSecurityHeaders(q)
  BY <1>1 DEF Fields
<1>. QED  BY <1>2

\* CORS and the limiter answer in the place of the next handler, or leave it alone.
LEMMA AnswersInPlace ==
  ASSUME NEW q, NEW limited, NEW r, NEW m \in {"cors", "rateLimit"},
         NEW p, p = Chain!Wrap(m, q, limited, r)
  PROVE  /\ p = r \/ Plain(p)
         /\ m = "cors" /\ Chain!Answers(MCCORSSetting, q) = Chain!None => p = r
         /\ m = "rateLimit" /\ ~limited => p = r
BY PlainWritten DEF Chain!Wrap, Chain!cors, Chain!None

LEMMA HandlersRespond ==
  ASSUME NEW h \in Chain!Handlers \cup {Chain!Untouched}
  PROVE  /\ IsResponse(h) /\ h.logged = 0 /\ h.sent \in {0, 101, 200}
         /\ h.sent # 101 => h.written = h.sent
         /\ \A n : <<n, "configured">> \notin h.headers
<1>1. CASE h = Chain!Untouched
  BY <1>1, UntouchedIsPlain DEF Plain
<1>2. CASE h \in Chain!Handlers
  <2>1. IsResponse(h) /\ h.logged = 0 /\ h.sent \in {0, 101, 200} /\ (h.sent # 101 => h.written = h.sent)
    BY <1>2 DEF Chain!Handlers, Chain!NotSent, IsResponse, Codes
  <2>2. PICK N : h.headers = {<<n, "backend">> : n \in N}
    BY <1>2 DEF Chain!Handlers
  <2>. QED  BY <2>1, <2>2
<1>. QED  BY <1>1, <1>2

-----------------------------------------------------------------------------
(* Through the chain                                                       *)

\* The handler is called only if neither the limiter nor CORS answers for it.
HandledBy(q, limited, h) ==
  IF Chain!Reached(q, limited) THEN h \in Chain!Handlers ELSE h = Chain!Untouched

LEMMA Members ==
  ASSUME Chain!IsChain(chain)
  PROVE  /\ chain \in Seq(Chain!Middlewares) /\ Len(chain) \in Nat /\ DOMAIN chain = 1 .. Len(chain)
         /\ \A i \in 1 .. Len(chain) :
              chain[i] \in {"recovery", "logging", "security", "cors", "rateLimit"}
         /\ \A i, j \in 1 .. Len(chain) : chain[i] = chain[j] => i = j
         /\ \A m : m \in Chain!Range(chain) <=> \E i \in 1 .. Len(chain) : chain[i] = m
<1>1. /\ chain \in Seq(Chain!Middlewares) /\ Len(chain) \in Nat /\ DOMAIN chain = 1 .. Len(chain)
      /\ \A i, j \in DOMAIN chain : chain[i] = chain[j] => i = j
  BY DEF Chain!IsChain
<1>2. \A i \in 1 .. Len(chain) :
        chain[i] \in {"recovery", "logging", "security", "cors", "rateLimit"}
  BY <1>1 DEF Chain!Middlewares
<1>3. \A m : m \in Chain!Range(chain) <=> \E i \in 1 .. Len(chain) : chain[i] = m
  BY <1>1 DEF Chain!Range
<1>. QED  BY <1>1, <1>2, <1>3

\* A response of the handler, which panics or had its headers cleared only if the handler
\* did that.
OfHandler(h, r) ==
  IsResponse(r) /\ (r.panic => h.panic) /\ (r.cleared => h.cleared)

LEMMA WrapsResponse ==
  ASSUME NEW q, NEW limited, NEW h, NEW r, OfHandler(h, r),
         NEW m \in {"recovery", "logging", "security", "cors", "rateLimit"},
         NEW p, p = Chain!Wrap(m, q, limited, r)
  PROVE  OfHandler(h, p)
<1>1. CASE m = "recovery"
  BY <1>1, Recovers DEF OfHandler, SameButPanic
<1>2. CASE m = "logging"
  BY <1>2, Logs DEF OfHandler, SameButLogged
<1>3. CASE m = "security"
  BY <1>3, SetsHeaders DEF OfHandler, SameButHeaders
<1>4. CASE m \in {"cors", "rateLimit"}
  <2>1. p = r \/ Plain(p)
    BY <1>4, AnswersInPlace
  <2>. QED  BY <2>1 DEF OfHandler, Plain
<1>. QED  BY <1>1, <1>2, <1>3, <1>4

LEMMA AllOfHandler ==
  ASSUME Chain!IsChain(chain), NEW q, NEW limited, NEW h, IsResponse(h),
         NEW f, From(f, q, limited, h)
  PROVE  \A i \in 1 .. Len(chain) + 1 : OfHandler(h, f[i])
<1>. DEFINE n == Len(chain)
            S == {i \in 1 .. n + 1 : OfHandler(h, f[i])}
<1>1. n \in Nat
  BY Members
<1>2. n + 1 \in S
  BY <1>1 DEF From, OfHandler
<1>3. ASSUME NEW i \in 1 .. n, i + 1 \in S
      PROVE  i \in S
  <2>1. f[i] = Chain!Wrap(chain[i], q, limited, f[i + 1]) /\ OfHandler(h, f[i + 1])
    BY <1>3 DEF From
  <2>2. chain[i] \in {"recovery", "logging", "security", "cors", "rateLimit"}
    BY Members
  <2>3. OfHandler(h, f[i])
    BY <2>1, <2>2, WrapsResponse
  <2>. QED  BY <1>1, <2>3
<1>. HIDE DEF S, n
<1>4. \A i \in 1 .. n + 1 : i \in S
  BY <1>1, <1>2, <1>3, OutwardsToFirst
<1>. QED  BY <1>4 DEF S, n

\* A panic before anything was sent is still one, or the client is told 500.
LEMMA PanicOr500 ==
  ASSUME Chain!IsChain(chain), NEW q, NEW limited, NEW h, HandledBy(q, limited, h), IsResponse(h),
         NEW f, From(f, q, limited, h), h.panic, h.sent = 0
  PROVE  f[1].sent = 500 \/ (f[1].sent = 0 /\ f[1].panic)
<1>. DEFINE n == Len(chain)
            Told(r) == r.sent = 500 \/ (r.sent = 0 /\ r.panic)
            S == {i \in 1 .. n + 1 : Told(f[i])}
<1>1. n \in Nat
  BY Members
<1>2. n + 1 \in S
  BY <1>1 DEF From
<1>3. Chain!Reached(q, limited)
  BY UntouchedIsPlain DEF HandledBy, Plain
<1>4. ASSUME NEW i \in 1 .. n, i + 1 \in S
      PROVE  i \in S
  <2>1. f[i] = Chain!Wrap(chain[i], q, limited, f[i + 1]) /\ Told(f[i + 1])
    BY <1>4 DEF From
  <2>2. IsResponse(f[i + 1])
    BY <1>1, AllOfHandler DEF OfHandler
  <2>3. CASE chain[i] = "recovery"
    <3>1. f[i].sent = IF f[i + 1].panic /\ f[i + 1].sent = 0 THEN 500 ELSE f[i + 1].sent
      BY <2>1, <2>2, <2>3, Recovers
    <3>. QED  BY <1>1, <2>1, <3>1
  <2>4. CASE chain[i] = "logging"
    <3>1. f[i].sent = f[i + 1].sent /\ f[i].panic = f[i + 1].panic
      BY <2>1, <2>2, <2>4, Logs DEF SameButLogged
    <3>. QED  BY <1>1, <2>1, <3>1
  <2>5. CASE chain[i] = "security"
    <3>1. f[i].sent = f[i + 1].sent /\ f[i].panic = f[i + 1].panic
      BY <2>1, <2>2, <2>5, SetsHeaders DEF SameButHeaders
    <3>. QED  BY <1>1, <2>1, <3>1
  <2>6. CASE chain[i] \in {"cors", "rateLimit"}
    <3>1. chain[i] = "cors" => Chain!Answers(MCCORSSetting, q) = Chain!None
      BY <1>3, Members DEF Chain!Reached
    <3>2. ~limited
      BY <1>3 DEF Chain!Reached
    <3>3. f[i] = f[i + 1]
      BY <2>1, <2>6, <3>1, <3>2, AnswersInPlace
    <3>. QED  BY <1>1, <2>1, <3>3
  <2>. QED  BY <2>3, <2>4, <2>5, <2>6, Members
<1>. HIDE DEF S, n
<1>5. 1 \in S
  BY <1>1, <1>2, <1>4, OutwardsToFirst
<1>. QED  BY <1>5 DEF S

LEMMA NotBefore ==
  ASSUME Chain!IsChain(chain), NEW m, NEW k, ~Chain!Before(m, k),
         NEW i \in 1 .. Len(chain), NEW j \in 1 .. Len(chain), chain[i] = m, chain[j] = k
  PROVE  ~(i < j)
BY Members DEF Chain!Before

\* The log of a response: its status, or none for the two reasons there are.
Logged(q, h, r) ==
  /\ r.panic => r.logged = 0
  /\ \/ r.logged = Chain!StatusOf(r.sent)
     \/ r.logged = 0 /\ (q.path = "/health" \/ h.panic)

LEMMA LogAgrees ==
  ASSUME Chain!IsChain(chain), NEW q, NEW limited, NEW h, IsResponse(h), h.logged = 0,
         h.written = h.sent, NEW f, From(f, q, limited, h),
         Chain!OutsideAnswers("logging"), ~Chain!Before("logging", "recovery")
  PROVE  Logged(q, h, f[1])
<1>. DEFINE n == Len(chain)
<1>1. n \in Nat
  BY Members
<1>2. PICK j \in 1 .. n : chain[j] = "logging"
  BY Members DEF Chain!OutsideAnswers
<1>3. /\ \A i \in 1 .. n : chain[i] \in {"cors", "rateLimit"} => j < i
      /\ \A i \in 1 .. n : chain[i] = "recovery" => i < j
      /\ \A i \in 1 .. n : chain[i] = "logging" => i = j
  <2>1. ~Chain!Before("cors", "logging") /\ ~Chain!Before("rateLimit", "logging")
    BY DEF Chain!OutsideAnswers
  <2>2. \A i \in 1 .. n : chain[i] \in {"cors", "rateLimit"} => ~(i < j) /\ i # j
    BY <1>2, <2>1, NotBefore
  <2>3. \A i \in 1 .. n : chain[i] = "recovery" => ~(j < i) /\ i # j
    BY <1>2, NotBefore
  <2>4. \A i \in 1 .. n : chain[i] = "logging" => i = j
    BY <1>2, Members
  <2>. QED  BY <1>1, <2>2, <2>3, <2>4
<1>4. ASSUME NEW i \in 1 .. n + 1
      PROVE  IsResponse(f[i]) /\ (f[i].panic => h.panic)
  BY AllOfHandler DEF OfHandler
<1>5. ASSUME NEW i \in 1 .. n
      PROVE  f[i] = Chain!Wrap(chain[i], q, limited, f[i + 1]) /\ IsResponse(f[i + 1])
  BY <1>1, <1>4 DEF From
<1>6. f[j + 1].written = f[j + 1].sent /\ f[j + 1].logged = 0
  <2>. DEFINE Once(r) == r.written = r.sent /\ r.logged = 0
              S == {i \in j + 1 .. n + 1 : Once(f[i])}
  <2>1. n + 1 \in S
    BY <1>1 DEF From
  <2>2. ASSUME NEW i \in j + 1 .. n, i + 1 \in S
        PROVE  i \in S
    <3>1. i \in 1 .. n /\ Once(f[i + 1]) /\ chain[i] \in {"security", "cors", "rateLimit"}
      BY <1>1, <1>3, <2>2, Members
    <3>2. CASE chain[i] = "security"
      BY <1>5, <3>1, <3>2, SetsHeaders DEF SameButHeaders
    <3>3. CASE chain[i] \in {"cors", "rateLimit"}
      <4>1. f[i] = f[i + 1] \/ Plain(f[i])
        BY <1>5, <3>1, <3>3, AnswersInPlace
      <4>. QED  BY <3>1, <4>1 DEF Plain
    <3>. QED  BY <3>1, <3>2, <3>3
  <2>. HIDE DEF S
  <2>3. j + 1 \in 1 .. n + 1 /\ j + 1 \in j + 1 .. n + 1
    BY <1>1
  <2>4. \A i \in j + 1 .. n + 1 : i \in S
    BY <1>1, <2>1, <2>2, <2>3, Outwards
  <2>. QED  BY <2>3, <2>4 DEF S
<1>7. Logged(q, h, f[j])
  <2>1. /\ SameButLogged(f[j], f[j + 1])
        /\ f[j].logged = IF q.path = "/health" \/ f[j + 1].panic THEN f[j + 1].logged
                         ELSE Chain!StatusOf(f[j + 1].written)
    BY <1>2, <1>5, Logs
  <2>. QED  BY <1>1, <1>4, <1>6, <2>1 DEF SameButLogged, Logged
<1>8. Logged(q, h, f[1])
  <2>. DEFINE S == {i \in 1 .. j : Logged(q, h, f[i])}
  <2>1. ASSUME NEW i \in 1 .. j - 1, i + 1 \in S
        PROVE  i \in S
    <3>1. i \in 1 .. n /\ i + 1 \in 1 .. n + 1 /\ Logged(q, h, f[i + 1])
          /\ chain[i] \in {"security", "recovery"}
      BY <1>1, <1>3, <2>1, Members
    <3>2. CASE chain[i] = "security"
      BY <1>5, <3>1, <3>2, SetsHeaders DEF SameButHeaders, Logged
    <3>3. CASE chain[i] = "recovery"
      <4>1. /\ SameButPanic(f[i], f[i + 1]) /\ ~f[i].panic
            /\ f[i].sent = IF f[i + 1].panic /\ f[i + 1].sent = 0 THEN 500 ELSE f[i + 1].sent
        BY <1>5, <3>1, <3>3, Recovers
      <4>2. f[i + 1].panic => h.panic /\ f[i + 1].logged = 0
        BY <1>4, <3>1 DEF Logged
      <4>. QED  BY <3>1, <4>1, <4>2 DEF SameButPanic, Logged
    <3>. QED  BY <3>1, <3>2, <3>3
  <2>2. j - 1 \in Nat /\ (j - 1) + 1 = j /\ j \in S
    BY <1>1, <1>7
  <2>. HIDE DEF S
  <2>3. 1 \in S
    BY <2>1, <2>2, OutwardsToFirst
  <2>. QED  BY <2>3 DEF S
<1>. QED  BY <1>8

\* The headers that are set, whoever answers.
LEMMA HeadersSet ==
  ASSUME Chain!IsChain(chain), NEW q, NEW limited, NEW h, IsResponse(h), ~h.cleared,
         \A n : <<n, "configured">> \notin h.headers,
         NEW f, From(f, q, limited, h), Chain!OutsideAnswers("security")
  PROVE  \A n : <<n, "configured">> \in f[1].headers
                 <=> <<n, "configured">> \in Chain!setSecurityHeaders(q)
<1>. DEFINE n == Len(chain)
            Bare(r) == \A k : <<k, "configured">> \notin r.headers
            Set(r) == \A k : <<k, "configured">> \in r.headers
                             <=> <<k, "configured">> \in Chain!setSecurityHeaders(q)
<1>1. n \in Nat
  BY Members
<1>2. PICK j \in 1 .. n : chain[j] = "security"
  BY Members DEF Chain!OutsideAnswers
<1>3. /\ \A i \in 1 .. n : chain[i] \in {"cors", "rateLimit"} => j < i
      /\ \A i \in 1 .. n : chain[i] = "security" => i = j
  <2>1. ~Chain!Before("cors", "security") /\ ~Chain!Before("rateLimit", "security")
    BY DEF Chain!OutsideAnswers
  <2>2. \A i \in 1 .. n : chain[i] \in {"cors", "rateLimit"} => ~(i < j) /\ i # j
    BY <1>2, <2>1, NotBefore
  <2>3. \A i \in 1 .. n : chain[i] = "security" => i = j
    BY <1>2, Members
  <2>. QED  BY <1>1, <2>2, <2>3
<1>4. ASSUME NEW i \in 1 .. n
      PROVE  /\ f[i] = Chain!Wrap(chain[i], q, limited, f[i + 1])
             /\ IsResponse(f[i + 1]) /\ ~f[i + 1].cleared
  <2>1. i + 1 \in 1 .. n + 1
    BY <1>1
  <2>2. IsResponse(f[i + 1]) /\ ~f[i + 1].cleared
    BY <2>1, AllOfHandler DEF OfHandler
  <2>. QED  BY <2>2 DEF From
<1>5. ASSUME NEW i \in 1 .. n, chain[i] \in {"recovery", "logging"}
      PROVE  f[i].headers = f[i + 1].headers
  BY <1>4, <1>5, Recovers, Logs DEF SameButPanic, SameButLogged
<1>. HIDE DEF Set, Bare
<1>6. Bare(f[j + 1])
  <2>. DEFINE S == {i \in j + 1 .. n + 1 : Bare(f[i])}
  <2>1. n + 1 \in S
    BY <1>1 DEF From, Bare
  <2>2. ASSUME NEW i \in j + 1 .. n, i + 1 \in S
        PROVE  i \in S
    <3>1. i \in 1 .. n /\ Bare(f[i + 1]) /\ chain[i] \in {"recovery", "logging", "cors", "rateLimit"}
      BY <1>1, <1>3, <2>2, Members
    <3>2. CASE chain[i] \in {"recovery", "logging"}
      BY <1>5, <3>1, <3>2 DEF Bare
    <3>3. CASE chain[i] \in {"cors", "rateLimit"}
      <4>1. f[i] = f[i + 1] \/ Plain(f[i])
        BY <1>4, <3>1, <3>3, AnswersInPlace
      <4>. QED  BY <3>1, <4>1 DEF Plain, Bare
    <3>. QED  BY <3>1, <3>2, <3>3
  <2>. HIDE DEF S
  <2>3. j + 1 \in 1 .. n + 1 /\ j + 1 \in j + 1 .. n + 1
    BY <1>1
  <2>4. \A i \in j + 1 .. n + 1 : i \in S
    BY <1>1, <2>1, <2>2, <2>3, Outwards
  <2>. QED  BY <2>3, <2>4 DEF S
<1>7. Set(f[j])
  <2>1. \A k : k \in f[j].headers <=> k \in f[j + 1].headers \/ k \in Chain!setSecurityHeaders(q)
    BY <1>2, <1>4, HeadersOnTop
  <2>. QED  BY <1>6, <2>1 DEF Set, Bare
<1>8. Set(f[1])
  <2>. DEFINE S == {i \in 1 .. j : Set(f[i])}
  <2>1. ASSUME NEW i \in 1 .. j - 1, i + 1 \in S
        PROVE  i \in S
    <3>1. i \in 1 .. n /\ Set(f[i + 1]) /\ chain[i] \in {"logging", "recovery"}
      BY <1>1, <1>3, <2>1, Members
    <3>. QED  BY <1>5, <3>1 DEF Set
  <2>2. j - 1 \in Nat /\ (j - 1) + 1 = j /\ j \in S
    BY <1>1, <1>7
  <2>. HIDE DEF S
  <2>3. 1 \in S
    BY <2>1, <2>2, OutwardsToFirst
  <2>. QED  BY <2>3 DEF S
<1>. QED  BY <1>8 DEF Set

-----------------------------------------------------------------------------
(* The steps.  Chain has copies of RateLimiter's definitions.              *)

LEMMA SameCardinality == \A S : Chain!Cardinality(S) = Cardinality(S)
BY DEF Cardinality, Chain!Cardinality

LEMMA SameRange == \A f : Chain!Range(f) = Range(f)
BY DEF Range, Chain!Range

LEMMA SameBuckets ==
  /\ Chain!Buckets = Buckets /\ Chain!Idle = Idle
  /\ Chain!newSimpleLimiter = newSimpleLimiter
  /\ \A m, n : Chain!Least(m, n) = Least(m, n)
BY SameCardinality DEF Chain!Buckets, Buckets, Chain!Idle, Idle, Chain!newSimpleLimiter,
   newSimpleLimiter, Chain!Least, Least

LEMMA SameCollect ==
  /\ \A bs, ls, hs : Chain!Collect(bs, ls, hs) = Collect(bs, ls, hs)
  /\ \A b : Chain!Tokens(b) = Tokens(b)
  /\ \A k, B : Chain!Holders(k, B) = Holders(k, B)
BY SameBuckets, SameRange, SameCardinality
   DEF Chain!Collect, Collect, Chain!Tokens, Tokens, Chain!Holders, Holders

LEMMA SameInit == (Chain!LimiterInit <=> LimiterInit) /\ (Chain!LimiterTypeOK <=> LimiterTypeOK)
BY SameBuckets DEF Chain!LimiterInit, LimiterInit, Chain!LimiterTypeOK, LimiterTypeOK

LEMMA SameCalls ==
  ASSUME NEW s
  PROVE  /\ \A k : Chain!Called(s, k) => Called(s, k)
         /\ Chain!ContextDone(s) => ContextDone(s)
         /\ \A b : Chain!Holds(s, b) <=> Holds(s, b)
         /\ Chain!Done(s) => Done(s)
BY DEF Chain!Called, Called, Chain!ContextDone, ContextDone, Chain!Holds, Holds, Chain!Done, Done

LEMMA SameMakes == ASSUME NEW s PROVE Chain!Makes(s) => Makes(s)
BY SameBuckets, SameRange, SameCollect DEF Chain!Makes, Makes

LEMMA SameGets ==
  ASSUME NEW s
  PROVE  /\ Chain!getLimiter(s) => getLimiter(s)
         /\ Chain!Create(s) => Create(s)
BY SameCalls, SameMakes DEF Chain!getLimiter, getLimiter, Chain!Create, Create

LEMMA SameLeaves == ASSUME NEW s, NEW n PROVE Chain!LeavesBucket(s, n) <=> LeavesBucket(s, n)
BY SameCollect DEF Chain!LeavesBucket, LeavesBucket

LEMMA SameAllow ==
  ASSUME NEW s
  PROVE  /\ Chain!Allow(s) => Allow(s)
         /\ Chain!Stats(s) => Stats(s)
         /\ Chain!Reserve(s) => Reserve(s)
         /\ Chain!Cancel(s) => Cancel(s)
<1>1. Chain!Allow(s) => Allow(s)
  BY SameLeaves, SameCollect DEF Chain!Allow, Allow
<1>2. Chain!Stats(s) => Stats(s)
  BY SameCollect DEF Chain!Stats, Stats
<1>3. Chain!Reserve(s) => Reserve(s)
  BY DEF Chain!Reserve, Reserve
<1>4. Chain!Cancel(s) => Cancel(s)
  BY SameLeaves DEF Chain!Cancel, Cancel
<1>. QED  BY <1>1, <1>2, <1>3, <1>4

LEMMA SameRemovals ==
  /\ Chain!Cleanup => Cleanup
  /\ Chain!Tick => Tick
  /\ \A k : Chain!Reset(k) => Reset(k)
<1>1. \A K, rest : Chain!Removes(K, rest) <=> Removes(K, rest)
  BY SameCollect DEF Chain!Removes, Removes, Chain!worker, worker
<1>2. \A b : Chain!isIdle(b) <=> isIdle(b)
  BY SameBuckets, SameCollect DEF Chain!isIdle, isIdle
<1>3. \A r : Chain!Aged(r) = Aged(r)
  BY SameBuckets DEF Chain!Aged, Aged
<1>4. Chain!Cleanup => Cleanup
  BY <1>1, <1>2, SameCollect DEF Chain!Cleanup, Cleanup
<1>5. Chain!Tick => Tick
  BY <1>3, SameBuckets, SameCollect DEF Chain!Tick, Tick, Chain!worker, worker
<1>6. \A k : Chain!Reset(k) => Reset(k)
  BY <1>1, SameBuckets, SameCollect DEF Chain!Reset, Reset
<1>. QED  BY <1>4, <1>5, <1>6

-----------------------------------------------------------------------------
(* The invariant: what was answered last is what the chain makes of the    *)
(* response of some handler.                                               *)

AnsweredByChain ==
  last = Chain!NoAnswer \/
    \E q \in MCRequests, limited \in BOOLEAN, h \in Chain!Handlers \cup {Chain!Untouched} :
      /\ HandledBy(q, limited, h)
      /\ last = [request |-> q, handler |-> h, response |-> Chain!Then(q, limited, h)]

ChainInv == LimiterInv /\ Chain!IsChain(chain) /\ AnsweredByChain

LEMMA CompleteIsChain == Chain!IsChain(Chain!Complete) /\ Chain!IsChain(<<>>)
<1>. DEFINE c == Chain!Complete
<1>1. /\ c \in Seq({"recovery", "logging", "security", "cors", "rateLimit"})
      /\ Len(c) = 5 /\ DOMAIN c = 1 .. 5
      /\ c[1] = "recovery" /\ c[2] = "logging" /\ c[3] = "security"
      /\ c[4] = "cors" /\ c[5] = "rateLimit"
  BY DEF Chain!Complete, Chain!Use, Chain!NewMiddlewareChain
<1>. HIDE DEF c
<1>2. c \in Seq(Chain!Middlewares) /\ DOMAIN c = 1 .. 5
  BY <1>1 DEF Chain!Middlewares
<1>3. ASSUME NEW i \in 1 .. 5, NEW j \in 1 .. 5, c[i] = c[j]
      PROVE  i = j
  BY <1>1, <1>3
<1>4. Chain!IsChain(c)
  BY <1>2, <1>3 DEF Chain!IsChain
<1>5. Chain!IsChain(<<>>)
  BY DEF Chain!IsChain
<1>. QED  BY <1>4, <1>5 DEF c

\* As long as the chain is the same, so is what it makes of a response.
LEMMA SameChain ==
  ASSUME UNCHANGED chain, NEW q, NEW limited, NEW h
  PROVE  /\ Chain!Then(q, limited, h)' = Chain!Then(q, limited, h)
         /\ HandledBy(q, limited, h)' <=> HandledBy(q, limited, h)
<1>1. Chain!Then(q, limited, h)' = Chain!Then(q, limited, h)
  BY DEF Chain!Then
<1>2. Chain!Reached(q, limited)' <=> Chain!Reached(q, limited)
  BY DEF Chain!Reached
<1>. QED  BY <1>1, <1>2 DEF HandledBy

LEMMA AnsweredMeans ==
  ASSUME UNCHANGED chain, NEW q \in MCRequests, NEW limited \in BOOLEAN, Chain!Answered(q, limited)
  PROVE  AnsweredByChain'
<1>1. PICK h \in IF Chain!Reached(q, limited) THEN Chain!Handlers ELSE {Chain!Untouched} :
        last' = [request |-> q, handler |-> h, response |-> Chain!Then(q, limited, h)]
  BY DEF Chain!Answered
<1>2. HandledBy(q, limited, h) /\ h \in Chain!Handlers \cup {Chain!Untouched}
  BY <1>1 DEF HandledBy
<1>. QED  BY <1>1, <1>2, SameChain DEF AnsweredByChain

LEMMA ChainSteps ==
  ASSUME Chain!Next
  PROVE  /\ LimiterNext \/ UNCHANGED lvars
         /\ UNCHANGED chain
         /\ \/ last' = Chain!NoAnswer
            \/ \E q \in MCRequests, limited \in BOOLEAN : Chain!Answered(q, limited)
<1>1. ASSUME NEW s \in Workers, Chain!Limits(s)
      PROVE  Limits(s)
  BY <1>1, SameCalls, SameGets, SameAllow DEF Chain!Limits, Limits
<1>2. ASSUME NEW s \in Workers, Chain!Serve(s)
      PROVE  /\ LimiterNext \/ UNCHANGED lvars
             /\ \/ last' = Chain!NoAnswer
                \/ \E q \in MCRequests, limited \in BOOLEAN : Chain!Answered(q, limited)
  <2>1. CASE \E k \in Clients : Chain!Called(s, k) /\ last' = Chain!NoAnswer
    BY <2>1, SameCalls DEF LimiterNext
  <2>2. CASE UNCHANGED Chain!lvars /\ \E q \in MCRequests : Chain!Answered(q, FALSE)
    BY <2>2 DEF Chain!lvars, Chain!worker, lvars, worker
  <2>. QED  BY <1>2, <2>1, <2>2 DEF Chain!Serve
<1>3. ASSUME NEW s \in Workers, Chain!Answer(s)
      PROVE  /\ LimiterNext
             /\ \E q \in MCRequests, limited \in BOOLEAN : Chain!Answered(q, limited)
  BY <1>3, SameCalls DEF Chain!Answer, LimiterNext
<1>4. ASSUME NEW s \in Workers, Limits(s)
      PROVE  LimiterNext
  BY <1>4 DEF LimiterNext
<1>5. ASSUME \/ \E k \in Clients : Chain!Reset(k) /\ last' = Chain!NoAnswer
             \/ Chain!Passes \/ Chain!Cleans
      PROVE  LimiterNext /\ last' = Chain!NoAnswer
  BY <1>5, SameRemovals DEF Chain!Passes, Chain!Cleans, LimiterNext
<1>. QED  BY <1>1, <1>2, <1>3, <1>4, <1>5 DEF Chain!Next

LEMMA ChainInitInv == Chain!Init => ChainInv
<1>. SUFFICES ASSUME Chain!Init PROVE Chain!IsChain(chain)
  BY SameInit, LimiterInitInv DEF Chain!Init, ChainInv, AnsweredByChain
<1>. QED  BY CompleteIsChain, ChainsAssumption
          DEF Chain!Init, Chain!CreateCompleteMiddlewareChain, Chain!NewMiddlewareChain

LEMMA ChainNextInv == ChainInv /\ (Chain!Next \/ UNCHANGED middlewares) => ChainInv'
<1>. SUFFICES ASSUME ChainInv, Chain!Next \/ UNCHANGED middlewares PROVE ChainInv'
  OBVIOUS
<1>1. UNCHANGED chain /\ Chain!IsChain(chain)'
  BY ChainSteps DEF middlewares, ChainInv, Chain!IsChain
<1>2. LimiterInv'
  <2>1. UNCHANGED middlewares => UNCHANGED lvars
    BY DEF middlewares, lvars, worker
  <2>. QED  BY <2>1, ChainSteps, LimiterNextInv DEF ChainInv
<1>3. AnsweredByChain'
  <2>1. CASE UNCHANGED last
    BY <1>1, <2>1, SameChain DEF ChainInv, AnsweredByChain
  <2>2. CASE last' = Chain!NoAnswer
    BY <2>2 DEF AnsweredByChain
  <2>3. CASE \E q \in MCRequests, limited \in BOOLEAN : Chain!Answered(q, limited)
    BY <1>1, <2>3, AnsweredMeans
  <2>. QED  BY <2>1, <2>2, <2>3, ChainSteps DEF middlewares
<1>. QED  BY <1>1, <1>2, <1>3 DEF ChainInv

-----------------------------------------------------------------------------
(* The chain and the proxy, side by side                                   *)

LEMMA RequestsInvariance == MCInit /\ [][MCNext]_all => [](IInv /\ ChainInv)
<1>1. MCInit => IInv /\ ChainInv
  BY InitIInv, ChainInitInv DEF MCInit
<1>2. [MCNext]_all => [Next]_vars /\ (Chain!Next \/ UNCHANGED middlewares)
  <2>. SUFFICES ASSUME [MCNext]_all
                PROVE  (Next \/ UNCHANGED vars) /\ (Chain!Next \/ UNCHANGED middlewares)
    OBVIOUS
  <2>1. UNCHANGED proxy => UNCHANGED vars
    BY DEF proxy, vars, request
  <2>. QED  BY <2>1 DEF MCNext, all
<1>. QED  BY <1>1, <1>2, NextIInv, ChainNextInv, PTL

\* What was answered last, as the end of a way through the chain.
LEMMA LastWay ==
  ASSUME ChainInv, last # Chain!NoAnswer
  PROVE  \E q, limited, h, f :
           /\ q \in MCRequests /\ limited \in BOOLEAN
           /\ h \in Chain!Handlers \cup {Chain!Untouched} /\ HandledBy(q, limited, h)
           /\ From(f, q, limited, h)
           /\ last.request = q /\ last.handler = h /\ last.response = f[1]
<1>1. PICK q \in MCRequests, limited \in BOOLEAN, h \in Chain!Handlers \cup {Chain!Untouched} :
        /\ HandledBy(q, limited, h)
        /\ last = [request |-> q, handler |-> h, response |-> Chain!Then(q, limited, h)]
  BY DEF ChainInv, AnsweredByChain
<1>2. PICK f : From(f, q, limited, h) /\ Chain!Then(q, limited, h) = f[1]
  BY ThenUnfolds DEF ChainInv, Chain!IsChain
<1>. QED  BY <1>1, <1>2

-----------------------------------------------------------------------------
(* The theorems, for every chain.                                          *)

\* Where recovery is the outermost middleware, no panic reaches net/http, whichever
\* middleware or handler it comes from, and a client to whom nothing was sent before it is
\* told 500.
THEOREM PanicsAreContained == MCInit /\ [][MCNext]_all => []PanicsContained
<1>1. ChainInv => PanicsContained
  <2>. SUFFICES ASSUME ChainInv, last # Chain!NoAnswer, chain # <<>>, chain[1] = "recovery"
                PROVE  /\ ~last.response.panic
                       /\ last.handler.panic /\ last.handler.sent = 0 => Chain!Sent = 500
    BY DEF PanicsContained, Chain!PanicsContained, Chain!NotSent
  <2>1. PICK q, limited, h, f :
          /\ q \in MCRequests /\ limited \in BOOLEAN
          /\ h \in Chain!Handlers \cup {Chain!Untouched} /\ HandledBy(q, limited, h)
          /\ From(f, q, limited, h)
          /\ last.request = q /\ last.handler = h /\ last.response = f[1]
    BY LastWay
  <2>2. Chain!IsChain(chain) /\ IsResponse(h)
    BY <2>1, HandlersRespond DEF ChainInv
  <2>3. 1 \in 1 .. Len(chain)
    BY <2>2, Members
  <2>4. f[1] = Chain!Wrap("recovery", q, limited, f[2]) /\ IsResponse(f[2])
    <3>1. 1 + 1 = 2 /\ 2 \in 1 .. Len(chain) + 1
      BY <2>2, <2>3, Members
    <3>2. f[1] = Chain!Wrap(chain[1], q, limited, f[2])
      BY <2>1, <2>3, <3>1 DEF From
    <3>3. IsResponse(f[2])
      BY <2>1, <2>2, <3>1, AllOfHandler DEF OfHandler
    <3>. QED  BY <3>2, <3>3
  <2>5. ~f[1].panic
    BY <2>4, Recovers
  <2>6. h.panic /\ h.sent = 0 => f[1].sent = 500
    BY <2>1, <2>2, <2>5, PanicOr500
  <2>. QED  BY <2>1, <2>5, <2>6 DEF Chain!Sent, Chain!StatusOf, Chain!NotSent
<1>. QED  BY <1>1, RequestsInvariance, PTL

\* Where logging is outside all that answers and inside of recovery, the log has the status
\* that was sent, whoever sent it: the handler, CORS or the limiter.
THEOREM LogIsTrue == MCInit /\ [][MCNext]_all => []LoggedStatusIsSent
<1>1. ChainInv => LoggedStatusIsSent
  <2>. SUFFICES ASSUME ChainInv, last # Chain!NoAnswer, last.handler.sent # 101,
                       Chain!OutsideAnswers("logging"), ~Chain!Before("logging", "recovery")
                PROVE  \/ last.response.logged = Chain!Sent
                       \/ last.response.logged = 0 /\ (last.request.path = "/health" \/ last.handler.panic)
    BY DEF LoggedStatusIsSent, Chain!LoggedStatusIsSent, Chain!NotSent
  <2>1. PICK q, limited, h, f :
          /\ q \in MCRequests /\ limited \in BOOLEAN
          /\ h \in Chain!Handlers \cup {Chain!Untouched} /\ HandledBy(q, limited, h)
          /\ From(f, q, limited, h)
          /\ last.request = q /\ last.handler = h /\ last.response = f[1]
    BY LastWay
  <2>2. Chain!IsChain(chain) /\ IsResponse(h) /\ h.logged = 0 /\ h.written = h.sent
    BY <2>1, HandlersRespond DEF ChainInv
  <2>3. Logged(q, h, f[1])
    BY <2>1, <2>2, LogAgrees
  <2>. QED  BY <2>1, <2>3 DEF Logged, Chain!Sent
<1>. QED  BY <1>1, RequestsInvariance, PTL

\* Where the security headers are set outside all that answers, every response has them,
\* whichever headers a backend adds, but one whose headers an interim answer cleared.
THEOREM EveryAnswerIsSecured == MCInit /\ [][MCNext]_all => []AnswersAreSecured
<1>1. ChainInv => AnswersAreSecured
  <2>. SUFFICES ASSUME ChainInv, last # Chain!NoAnswer, ~last.handler.cleared,
                       Chain!OutsideAnswers("security")
                PROVE  Chain!Secured
    BY DEF AnswersAreSecured, Chain!AnswersAreSecured
  <2>1. PICK q, limited, h, f :
          /\ q \in MCRequests /\ limited \in BOOLEAN
          /\ h \in Chain!Handlers \cup {Chain!Untouched} /\ HandledBy(q, limited, h)
          /\ From(f, q, limited, h)
          /\ last.request = q /\ last.handler = h /\ last.response = f[1]
    BY LastWay
  <2>2. Chain!IsChain(chain) /\ IsResponse(h) /\ \A n : <<n, "configured">> \notin h.headers
    BY <2>1, HandlersRespond DEF ChainInv
  <2>3. \A n : <<n, "configured">> \in f[1].headers <=> <<n, "configured">> \in Chain!setSecurityHeaders(q)
    BY <2>1, <2>2, HeadersSet
  <2>4. \A n : <<n, "configured">> \in Chain!setSecurityHeaders(q) <=>
                 n \in {"Server"} \cup (MCSecuritySetting
                                        \ (IF q.tls THEN {} ELSE {"Strict-Transport-Security"}))
    BY DEF Chain!setSecurityHeaders
  <2>5. \A n : <<n, "configured">> \in last.response.headers <=>
                 n \in {"Server"} \cup (MCSecuritySetting
                                        \ (IF q.tls THEN {} ELSE {"Strict-Transport-Security"}))
    BY <2>1, <2>3, <2>4
  <2>6. {<<n, "configured">> : n \in MCSecuritySetting \ {"Strict-Transport-Security"}}
          \subseteq last.response.headers
    BY <2>5
  <2>7. <<"Strict-Transport-Security", "configured">> \in last.response.headers
          <=> q.tls /\ "Strict-Transport-Security" \in MCSecuritySetting
    BY <2>5, "Strict-Transport-Security" # "Server"
  <2>. QED  BY <2>1, <2>6, <2>7 DEF Chain!Secured
<1>. QED  BY <1>1, RequestsInvariance, PTL

\* Around the limiter, the chain adds no way to be admitted: its steps are the limiter's.
THEOREM ChainAdmitsNoMore == MCInit /\ [][MCNext]_all => []NeverOverAdmits
<1>1. ChainInv => NeverOverAdmits
  BY LimiterInvAdmits DEF ChainInv
<1>. QED  BY <1>1, RequestsInvariance, PTL

\* All variables keep their types, whichever the chain.
THEOREM RequestTypesCorrect == MCInit /\ [][MCNext]_all => []TypesOK
<1>1. ChainInv => Chain!TypeOK
  <2>. SUFFICES ASSUME ChainInv PROVE Chain!TypeOK
    OBVIOUS
  <2>1. Chain!LimiterTypeOK
    BY SameInit DEF ChainInv, LimiterInv
  <2>2. chain \in Seq(Chain!Middlewares)
    BY DEF ChainInv, Chain!IsChain
  <2>3. ASSUME last # Chain!NoAnswer
        PROVE  /\ last.request \in MCRequests
               /\ {last.response.sent, last.response.logged} \subseteq Codes
    <3>1. PICK q, limited, h, f :
            /\ q \in MCRequests /\ limited \in BOOLEAN
            /\ h \in Chain!Handlers \cup {Chain!Untouched} /\ From(f, q, limited, h)
            /\ last.request = q /\ last.response = f[1]
      BY <2>3, LastWay
    <3>2. Chain!IsChain(chain) /\ IsResponse(h)
      BY <3>1, HandlersRespond DEF ChainInv
    <3>3. 1 \in 1 .. Len(chain) + 1
      BY <3>2, Members
    <3>4. IsResponse(f[1])
      BY <3>1, <3>2, <3>3, AllOfHandler DEF OfHandler
    <3>. QED  BY <3>1, <3>4 DEF IsResponse
  <2>. QED  BY <2>1, <2>2, <2>3 DEF Chain!TypeOK, Chain!NotSent, Codes
<1>2. IInv => TypeOK
  BY DEF IInv
<1>. QED  BY <1>1, <1>2, RequestsInvariance, PTL DEF TypesOK

-----------------------------------------------------------------------------
(* CORS                                                                    *)

CORSConfigs(Entry, Method, Name) ==
  [origins : Seq(Entry), credentials : BOOLEAN, methods : SUBSET Method,
   headers : SUBSET Name, expose : SUBSET Name, maxAge : Int, passthrough : BOOLEAN]

\* Any configuration that the validator accepts: credentials go to origins that it names
\* alone, an answer that depends on the origin varies by it, whatever the handler or a proxy
\* had put into Vary, and no header is allowed that it does not list.
THEOREM ValidatedGrantsAreConfigured ==
  ASSUME NEW Entry, NEW Method, NEW Name, NEW config \in CORSConfigs(Entry, Method, Name), NEW q
  PROVE  Chain!GrantsOnlyConfigured(config, q)
<1>. SUFFICES ASSUME NEW c, c = Chain!NewCORSMiddlewareWithConfig(config),
                     Chain!Validate(config), Chain!isOriginAllowed(c, q.origin)
              PROVE  /\ Chain!setCORSHeaders(c, q).credentials =>
                          \E allowed \in Chain!Range(config.origins) \ {Chain!AnyOrigin} :
                            Chain!Matches(allowed, q.origin)
                     /\ Chain!setCORSHeaders(c, q).allowOrigin # Chain!AnyOrigin =>
                          "origin" \in Chain!setCORSHeaders(c, q).vary
                     /\ Chain!handlePreflight(c, q).allowHeaders \subseteq c.headers
  BY DEF Chain!GrantsOnlyConfigured
<1>1. /\ c.origins = config.origins /\ c.credentials = config.credentials
      /\ c.headers = Chain!OrElse(config.headers, {"accept", "content-type"})
  BY DEF CORSConfigs, Chain!NewCORSMiddlewareWithConfig, Chain!Validate
<1>2. c.credentials => Chain!AnyOrigin \notin Chain!Range(config.origins)
  BY <1>1 DEF Chain!Validate
<1>3. \E allowed \in Chain!Range(config.origins) : Chain!Matches(allowed, q.origin)
  BY <1>1 DEF Chain!isOriginAllowed
<1>4. Chain!setCORSHeaders(c, q).credentials = c.credentials
  BY DEF Chain!setCORSHeaders
<1>5. Chain!setCORSHeaders(c, q).vary = Chain!setVaryHeader(q)
  BY DEF Chain!setCORSHeaders
<1>6. "origin" \in Chain!setVaryHeader(q)
  BY DEF Chain!setVaryHeader
<1>7. c.headers # {}
  BY <1>1 DEF Chain!OrElse
<1>8. Chain!handlePreflight(c, q).allowHeaders \subseteq c.headers
  BY <1>7 DEF Chain!handlePreflight, Chain!areHeadersAllowed
<1>. QED  BY <1>2, <1>3, <1>4, <1>5, <1>6, <1>8

\* Of the configurations that the run enumerates.
THEOREM RunGrantsAreConfigured == MCInit /\ [][MCNext]_all => []GrantsAreConfigured
<1>1. ASSUME NEW config \in MCConfigs
      PROVE  config \in CORSConfigs(Entries, {"GET", "FETCH"}, {"accept"})
  <2>1. UNION {[1 .. n -> Entries] : n \in 0 .. 2} \subseteq Seq(Entries)
    <3>. SUFFICES ASSUME NEW n \in 0 .. 2, NEW s \in [1 .. n -> Entries] PROVE s \in Seq(Entries)
      OBVIOUS
    <3>. QED  OBVIOUS
  <2>2. /\ {-1, 0} \subseteq Int /\ {FALSE} \subseteq BOOLEAN
        /\ {{}, {"GET"}, {"GET", "FETCH"}} \subseteq SUBSET {"GET", "FETCH"}
        /\ {{}, {"accept"}} \subseteq SUBSET {"accept"} /\ {{}} \subseteq SUBSET {"accept"}
    OBVIOUS
  <2>. QED  BY <2>1, <2>2 DEF MCConfigs, CORSConfigs
<1>2. GrantsAreConfigured
  BY <1>1, ValidatedGrantsAreConfigured DEF GrantsAreConfigured
<1>. QED  BY <1>2, PTL
=============================================================================
