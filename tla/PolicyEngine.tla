---------------------------- MODULE PolicyEngine ----------------------------
(***************************************************************************)
(* What a policy document means at the edge: the control plane checks and  *)
(* compiles it (internal/policy/validate.go, internal/compiler), the edge  *)
(* builds an engine from the bundle (edge/src/policy-engine.ts,            *)
(* route-matcher.ts, waf.ts, jwt.ts) and evaluates requests with it, each  *)
(* in up to three steps divided by awaits, while newer documents are       *)
(* published.  The JWT verifier and its key set resolvers outlive engines. *)
(*                                                                         *)
(* A path is the sequence of its segments ("/" is <<"">>), a template has  *)
(* segments with a kind and a text.  A route's jwt is a set with at most   *)
(* one element, as is a request's token; a token is what jose reads from   *)
(* it, with the URL of the key set that has its key.  A WAF rule matches   *)
(* if its target is among the request's tainted ones; its pattern is       *)
(* known by whose regular expressions it is one of.  "" is an identity     *)
(* that is missing or blank.  The limiters have modules of their own and   *)
(* answer here as they like.                                               *)
(***************************************************************************)
EXTENDS Naturals, Sequences, FiniteSetsExt, Functions

CONSTANTS
  Documents,  \* documents an operator may write, sound or not
  Inputs,     \* what a request may look like
  Requests

\* What a document and a request consist of.  Paths and templates begin with a
\* slash, so that they have a segment.
JwtPolicy == [issuer : STRING, jwksUrl : STRING]
Segment == [kind : {"literal", "param", "wildcard"}, text : STRING]
Route ==
  [id : STRING, methods : Seq(STRING), path : Seq(Segment) \ {<<>>}, jwt : SUBSET JwtPolicy,
   rateLimit : {"none", "jwt.sub", "client-ip"},
   waf : SUBSET [id : STRING, target : STRING, action : STRING,
                 compilesIn : SUBSET {"Go", "JavaScript"}]]
Document == [defaultDecision : STRING, routes : Seq(Route)]
Input ==
  [method : STRING, path : Seq(STRING), clientIp : STRING, tainted : SUBSET STRING,
   token : SUBSET [issuer : STRING, key : STRING, sub : STRING]]

ASSUME DocumentsAssumption ==
  /\ Documents \subseteq Document
  /\ \A d \in Documents : \A i \in DOMAIN d.routes : \A a, b \in d.routes[i].jwt : a = b

ASSUME InputsAssumption == Inputs \subseteq Input

VARIABLES
  document,    \* the document the edge's snapshot was compiled from
  resolvers,   \* #resolvers of the JWT verifier: whose keys each of them has
  evaluations  \* evaluate() calls

vars == <<document, resolvers, evaluations>>

-----------------------------------------------------------------------------
(* The control plane                                                       *)

ValidateRoute(route) ==
  /\ route.methods # <<>>
  /\ IsInjective(route.methods)
  /\ route.rateLimit = "jwt.sub" => route.jwt # {}
  /\ \A a, b \in route.waf : a.id = b.id => a = b
  /\ \A rule \in route.waf : "Go" \in rule.compilesIn

Validate(doc) ==
  /\ doc.routes # <<>>
  /\ \A i, j \in DOMAIN doc.routes : doc.routes[i].id = doc.routes[j].id => i = j
  /\ \A route \in Range(doc.routes) : ValidateRoute(route)

\* A wildcard is the last segment of its template.
TemplateCompiles(path) == \A i \in DOMAIN path : path[i].kind = "wildcard" => i = Len(path)

\* Templates are compared as they are written, names of parameters included.
NoDuplicates(routes) ==
  \A i, j \in DOMAIN routes :
    (i # j /\ routes[i].path = routes[j].path) =>
      Range(routes[i].methods) \cap Range(routes[j].methods) = {}

Compiles(doc) ==
  /\ Validate(doc)
  /\ \A route \in Range(doc.routes) : TemplateCompiles(route.path)
  /\ NoDuplicates(doc.routes)

\* A pattern forgets the names of parameters.
CompilePathTemplate(path) ==
  [i \in DOMAIN path |->
     CASE path[i].kind = "literal" -> path[i]
       [] path[i].kind = "param" -> [kind |-> "some", text |-> ""]
       [] path[i].kind = "wildcard" -> [kind |-> "any", text |-> ""]]

\* The loop that fills byMethod: what it has appended for a method at its end.
Listed(routes, method) ==
  LET byMethod[i \in 0 .. Len(routes)] ==
        IF i = 0 THEN <<>>
        ELSE IF method \in Range(routes[i].methods) THEN Append(byMethod[i - 1], routes[i])
        ELSE byMethod[i - 1]
  IN byMethod[Len(routes)]

\* One table per method, its alternatives in the order of the document.
CompileMatchers(routes) ==
  [m \in UNION {Range(r.methods) : r \in Range(routes)} |->
     LET listed == Listed(routes, m) IN
       [patterns |-> [i \in DOMAIN listed |-> CompilePathTemplate(listed[i].path)],
        routeIds |-> [i \in DOMAIN listed |-> listed[i].id]]]

Compile(doc) ==
  [defaultDecision |-> doc.defaultDecision,
   matchers |-> CompileMatchers(doc.routes),
   routes |-> doc.routes]

-----------------------------------------------------------------------------
(* The route matcher                                                       *)

\* What WafEvaluator's constructor insists on.  Whether a pattern is one in
\* JavaScript is first found out here.
WafBuilds(rules) ==
  /\ \A a, b \in rules : a.id = b.id => a = b
  /\ \A rule \in rules : "JavaScript" \in rule.compilesIn

\* What RouteMatcher's constructor insists on, and a WafEvaluator per route.
EngineBuilds(bundle) ==
  /\ \A i, j \in DOMAIN bundle.routes : bundle.routes[i].id = bundle.routes[j].id => i = j
  /\ \A m \in DOMAIN bundle.matchers :
       Range(bundle.matchers[m].routeIds) \subseteq {r.id : r \in Range(bundle.routes)}
  /\ \A r \in Range(bundle.routes) : WafBuilds(r.waf)

SegmentMatches(p, segment) ==
  CASE p.kind = "literal" -> segment = p.text
    [] p.kind = "some" -> segment # ""
    [] p.kind = "any" -> TRUE

\* Mutant: the expression is not anchored at its end.
PatternMatchesPrefix(pattern, path) ==
  /\ Len(path) >= Len(pattern)
  /\ \A i \in DOMAIN pattern : SegmentMatches(pattern[i], path[i])

\* The expression is anchored at both ends; .* reaches across segments.
PatternMatches(pattern, path) ==
  /\ IF pattern[Len(pattern)].kind = "any" THEN Len(path) >= Len(pattern)
                                          ELSE Len(path) = Len(pattern)
  /\ \A i \in DOMAIN pattern : SegmentMatches(pattern[i], path[i])

\* The route of the first alternative that matches; none for the default.
Resolve(bundle, method, path) ==
  IF method \notin DOMAIN bundle.matchers THEN {}
  ELSE LET matcher == bundle.matchers[method]
           hits == {i \in DOMAIN matcher.patterns : PatternMatches(matcher.patterns[i], path)}
       IN IF hits = {} THEN {}
          ELSE {r \in Range(bundle.routes) : r.id = matcher.routeIds[Min(hits)]}

-----------------------------------------------------------------------------
(* The stages                                                              *)

\* Mutant: a request is blocked if all the rules it matches say so.
BlockedByAll(rules, input) ==
  LET matches == {rule \in rules : rule.target \in input.tainted} IN
    matches # {} /\ \A rule \in matches : rule.action = "block"

\* WafEvaluator.evaluate
Blocked(rules, input) ==
  \E rule \in {x \in rules : x.target \in input.tainted} : rule.action = "block"

\* Mutant: key sets are remembered by issuer.
ResolverByIssuer(policy) == policy.issuer

ResolverKey(policy) == policy.jwksUrl

\* #resolverFor: an existing resolver, or a new one that is remembered.
ResolversWith(policy) ==
  LET key == ResolverKey(policy) IN
    [k \in DOMAIN resolvers \cup {key} |->
       IF k \in DOMAIN resolvers THEN resolvers[k] ELSE policy.jwksUrl]

\* Mutant: without a subject the client's address is charged.
IdentityOrAddress(route, input, subject) ==
  IF route.rateLimit = "jwt.sub" /\ subject # "" THEN subject ELSE input.clientIp

Identity(route, input, subject) ==
  IF route.rateLimit = "jwt.sub" THEN subject ELSE input.clientIp

\* parseBearerToken finds something that jose can look at.
HasBearerToken(input) == input.token # {}

Idle == [at |-> "idle"]

Started(input, at, verdict) ==
  [at |-> at, input |-> input, document |-> document, keys |-> "",
   subject |-> "", charged |-> "", verdict |-> verdict]

Ended(e, verdict) == [e EXCEPT !.at = "done", !.verdict = verdict]

\* evaluate() from the rate limit on, up to the call of the limiter.
Proceed(e, route, subject) ==
  LET identity == Identity(route, e.input, subject)
      checked == [e EXCEPT !.subject = subject]
  IN CASE route.rateLimit = "none" -> Ended(checked, "allowed")
       [] route.rateLimit # "none" /\ identity # "" ->
            [checked EXCEPT !.at = "limiter", !.charged = identity]
       [] route.rateLimit = "jwt.sub" /\ identity = "" ->
            Ended(checked, "jwt_subject_unavailable")
       [] route.rateLimit = "client-ip" /\ identity = "" ->
            Ended(checked, "client_identity_unavailable")

RoutesOf(e) == Resolve(Compile(e.document), e.input.method, e.input.path)

-----------------------------------------------------------------------------

\* Text that may be missing.
Text == STRING \cup {""}

Verdict ==
  {"none", "allowed", "policy_evaluation_failed", "default_deny", "waf_blocked", "jwt_invalid", "jwt_subject_unavailable",
   "client_identity_unavailable", "rate_limited", "rate_limiter_unavailable"}

Evaluation ==
  [at : {"jwt", "limiter", "done"}, input : Inputs, document : Documents, keys : Text,
   subject : Text, charged : Text, verdict : Verdict]

TypeOK ==
  /\ document \in Documents
  /\ \A key \in DOMAIN resolvers : resolvers[key] \in STRING
  /\ evaluations \in [Requests -> Evaluation \cup {Idle}]

Init ==
  /\ document \in {d \in Documents : Compiles(d)}
  /\ resolvers = [k \in {} |-> ""]
  /\ evaluations = [r \in Requests |-> Idle]

\* The edge installs another bundle.
Publish(d) ==
  /\ Compiles(d)
  /\ document' = d
  /\ UNCHANGED <<resolvers, evaluations>>

\* evaluate() is called and there is an engine, or one can be built.
Begins(r) == evaluations[r] = Idle /\ EngineBuilds(Compile(document))

\* The factory throws, for this request and every other until another bundle is
\* installed.
EvaluateFails(r, input) ==
  /\ evaluations[r] = Idle
  /\ ~EngineBuilds(Compile(document))
  /\ evaluations' = [evaluations EXCEPT ![r] = Started(input, "done", "policy_evaluation_failed")]
  /\ UNCHANGED <<document, resolvers>>

\* No route is resolved.
EvaluateDefault(r, input) ==
  /\ Begins(r)
  /\ Resolve(Compile(document), input.method, input.path) = {}
  /\ evaluations' = [evaluations EXCEPT ![r] = Started(input, "done",
       IF document.defaultDecision = "allow" THEN "allowed" ELSE "default_deny")]
  /\ UNCHANGED <<document, resolvers>>

\* The request is blocked by the WAF.
EvaluateBlocked(r, input) ==
  /\ Begins(r)
  /\ \E route \in Resolve(Compile(document), input.method, input.path) : Blocked(route.waf, input)
  /\ evaluations' = [evaluations EXCEPT ![r] = Started(input, "done", "waf_blocked")]
  /\ UNCHANGED <<document, resolvers>>

\* The route wants a token: without one the verifier throws at once, otherwise
\* it picks its resolver and waits for jose.
EvaluateJwt(r, input) ==
  /\ Begins(r)
  /\ \E route \in Resolve(Compile(document), input.method, input.path) :
       /\ ~Blocked(route.waf, input)
       /\ \E policy \in route.jwt :
            \/ /\ ~HasBearerToken(input)
               /\ evaluations' = [evaluations EXCEPT ![r] = Started(input, "done", "jwt_invalid")]
               /\ UNCHANGED resolvers
            \/ /\ HasBearerToken(input)
               /\ resolvers' = ResolversWith(policy)
               /\ evaluations' = [evaluations EXCEPT ![r] =
                    [Started(input, "jwt", "none") EXCEPT !.keys = resolvers'[ResolverKey(policy)]]]
  /\ UNCHANGED document

\* The route wants no token.
EvaluateOpen(r, input) ==
  /\ Begins(r)
  /\ \E route \in Resolve(Compile(document), input.method, input.path) :
       /\ ~Blocked(route.waf, input)
       /\ route.jwt = {}
       /\ evaluations' = [evaluations EXCEPT ![r] =
            Proceed(Started(input, "started", "none"), route, "")]
  /\ UNCHANGED <<document, resolvers>>

\* jwtVerify succeeds: the key is in the key set, the issuer is the policy's.
VerifyJwt(r) ==
  LET e == evaluations[r] IN
  /\ e.at = "jwt"
  /\ \E route \in RoutesOf(e), token \in e.input.token :
       /\ token.key = e.keys
       /\ \E policy \in route.jwt : token.issuer = policy.issuer
       /\ evaluations' = [evaluations EXCEPT ![r] = Proceed(e, route, token.sub)]
  /\ UNCHANGED <<document, resolvers>>

\* It fails, as it also may when the keys cannot be fetched in time.
RejectJwt(r) ==
  /\ evaluations[r].at = "jwt"
  /\ evaluations' = [evaluations EXCEPT ![r] = Ended(@, "jwt_invalid")]
  /\ UNCHANGED <<document, resolvers>>

\* The limiter allows the request, limits it, or throws.
CheckReturns(r, verdict) ==
  /\ evaluations[r].at = "limiter"
  /\ evaluations' = [evaluations EXCEPT ![r] = Ended(@, verdict)]
  /\ UNCHANGED <<document, resolvers>>

\* The next request.
Reuse(r) ==
  /\ evaluations[r].at = "done"
  /\ evaluations' = [evaluations EXCEPT ![r] = Idle]
  /\ UNCHANGED <<document, resolvers>>

Next ==
  \/ \E d \in Documents : Publish(d)
  \/ \E r \in Requests, input \in Inputs :
       \/ EvaluateFails(r, input)
       \/ EvaluateDefault(r, input)
       \/ EvaluateBlocked(r, input)
       \/ EvaluateJwt(r, input)
       \/ EvaluateOpen(r, input)
  \/ \E r \in Requests : VerifyJwt(r) \/ RejectJwt(r) \/ Reuse(r)
  \/ \E r \in Requests, v \in {"allowed", "rate_limited", "rate_limiter_unavailable"} :
       CheckReturns(r, v)

Spec == Init /\ [][Next]_vars

-----------------------------------------------------------------------------
(* Properties                                                              *)

\* A path is made from a template by replacing each parameter by a segment
\* that is not empty, and a final wildcard by whatever is left of the path.
MadeFrom(template, path) ==
  \E left \in 0..Len(path) :
    LET open == template[Len(template)].kind = "wildcard"
        fixed == IF open THEN SubSeq(template, 1, Len(template) - 1) ELSE template
    IN /\ left > 0 <=> open
       /\ Len(path) = Len(fixed) + left
       /\ \A i \in DOMAIN fixed :
            IF fixed[i].kind = "param" THEN path[i] # "" ELSE path[i] = fixed[i].text

\* The first route of the document that lists the method and fits the path.
FirstMatch(doc, method, path) ==
  {doc.routes[i] : i \in {n \in DOMAIN doc.routes :
     LET fits(k) == method \in Range(doc.routes[k].methods) /\ MadeFrom(doc.routes[k].path, path)
     IN fits(n) /\ \A k \in 1..(n - 1) : ~fits(k)}}

Paths == {input.path : input \in Inputs}
Methods == {input.method : input \in Inputs}

\* Every rule of the document is written in the expressions of both languages.
Portable(doc) ==
  \A route \in Range(doc.routes) : \A rule \in route.waf : "JavaScript" \in rule.compilesIn

\* The tables and combined expressions of every bundle the control plane
\* publishes send every method and path to the route that a reader of the
\* document, from top to bottom, would send it to; and nothing but a WAF pattern
\* that JavaScript does not accept keeps the edge from building an engine.
RoutesAsDocumented ==
  [][document' # document =>
       /\ Portable(document') => EngineBuilds(Compile(document'))
       /\ \A m \in Methods, p \in Paths :
            Resolve(Compile(document'), m, p) = FirstMatch(document', m, p)]_vars

\* A request is allowed only if all that the document in force at its start
\* says about it has been enforced, whatever was published while it waited: no
\* blocking rule matches, a token is verified where one is required, and a
\* limiter was asked where there is a limit.  With a rule the edge cannot read,
\* on whichever route, that is never the case.
EnforcedInFull ==
  \A r \in Requests :
    LET e == evaluations[r] IN
    (e.at = "done" /\ e.verdict = "allowed") =>
      LET routes == FirstMatch(e.document, e.input.method, e.input.path) IN
      /\ Portable(e.document)
      /\ routes = {} => e.document.defaultDecision = "allow"
      /\ \A route \in routes :
           /\ \A rule \in route.waf : rule.action = "block" => rule.target \notin e.input.tainted
           /\ \A policy \in route.jwt : \E token \in e.input.token : token.issuer = policy.issuer
           /\ route.rateLimit # "none" => e.charged # ""

\* Nobody uses up the budget of another: a limiter that counts by subject is
\* only asked for the subject of a token that the request carries and that was
\* verified, one that counts by address only for the request's own address.
ChargedToItsOwner ==
  \A r \in Requests :
    LET e == evaluations[r] IN
    (e.at # "idle" /\ e.at # "jwt" /\ e.charged # "") =>
      \A route \in FirstMatch(e.document, e.input.method, e.input.path) :
        IF route.rateLimit = "jwt.sub"
        THEN \E token \in e.input.token : token.sub = e.charged /\ e.subject = token.sub
        ELSE e.charged = e.input.clientIp

\* A request on a route that requires a token gets past the verifier only with
\* a key from the key set which its own document names, although resolvers are
\* kept when a document that names another key set is published.
VerifiedByItsPolicy ==
  \A r \in Requests :
    LET e == evaluations[r] IN
    (e.at = "limiter" \/ (e.at = "done" /\ e.verdict = "allowed")) =>
      \A route \in FirstMatch(e.document, e.input.method, e.input.path) :
        \A policy \in route.jwt : \E token \in e.input.token : token.key = policy.jwksUrl

=============================================================================
