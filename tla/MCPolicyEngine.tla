--------------------------- MODULE MCPolicyEngine ---------------------------
(***************************************************************************)
(* Instance of PolicyEngine for TLC: routes whose templates overlap in     *)
(* every way (literal, parameter and wildcard in both orders, the root,    *)
(* parameters that differ in name only), a document that moves the key set *)
(* of an issuer, one with a rule that the edge cannot read, and documents  *)
(* the control plane rejects.                                              *)
(***************************************************************************)
EXTENDS PolicyEngine, TLC

Lit(text) == [kind |-> "literal", text |-> text]
Par(name) == [kind |-> "param", text |-> name]
Wild == [kind |-> "wildcard", text |-> "*"]

Jwt(url) == {[issuer |-> "idp", jwksUrl |-> url]}

Rule(id, target, action, compilesIn) ==
  [id |-> id, target |-> target, action |-> action, compilesIn |-> compilesIn]

Both == {"Go", "JavaScript"}

Rules == {Rule("w1", "query", "log", Both), Rule("w2", "body", "block", Both)}

MakeRoute(id, methods, path, jwt, rateLimit, waf) ==
  [id |-> id, methods |-> methods, path |-> path, jwt |-> jwt,
   rateLimit |-> rateLimit, waf |-> waf]

Doc(decision, routes) == [defaultDecision |-> decision, routes |-> routes]

Orders(url) == MakeRoute("orders", <<"GET">>, <<Lit("a"), Par("id")>>, Jwt(url), "jwt.sub", Rules)
Same == MakeRoute("same", <<"PUT", "GET">>, <<Lit("a"), Par("name")>>, Jwt("u1"), "none", {})
Root == MakeRoute("root", <<"GET">>, <<Lit("")>>, {}, "client-ip", Rules)
Rest == MakeRoute("rest", <<"GET", "PUT">>, <<Lit("a"), Wild>>, {}, "client-ip", {})

MCDocuments == {
  Doc("deny", <<Orders("u1"), Same, Rest, Root>>),
  Doc("deny", <<Orders("u2"), Same>>),
  Doc("allow", <<Rest, Orders("u1")>>),
  Doc("allow", <<Root, [Rest EXCEPT !.waf = {Rule("w1", "query", "block", {"Go"})}]>>),
  Doc("deny", <<[Rest EXCEPT !.waf = {Rule("w1", "query", "block", {"JavaScript"})}]>>),
  Doc("deny", <<Rest, Rest>>),
  Doc("deny", <<Rest, [Rest EXCEPT !.id = "other"]>>),
  Doc("deny", <<[Rest EXCEPT !.path = <<Wild, Lit("a")>>]>>),
  Doc("deny", <<[Rest EXCEPT !.methods = <<"GET", "GET">>]>>),
  Doc("deny", <<[Rest EXCEPT !.rateLimit = "jwt.sub"]>>),
  Doc("deny", <<>>)}

Token(key, sub) == {[issuer |-> "idp", key |-> key, sub |-> sub]}

Ask(method, path, token, ip, tainted) ==
  [method |-> method, path |-> path, token |-> token, clientIp |-> ip, tainted |-> tainted]

\* Every shape of path, and every kind of request to the strictest route.
MCInputs ==
  {Ask("GET", p, {}, "ip1", {}) : p \in
     {<<"">>, <<"a">>, <<"a", "">>, <<"b", "">>, <<"a", "b", "">>}}
  \cup {Ask(m, <<"a", "b">>, {}, "ip1", {}) : m \in {"PUT", "POST"}}
  \cup {Ask("GET", <<"a", "b">>, t, "ip1", {}) :
     t \in {{}, Token("u1", "alice"), Token("u2", "bob"), Token("u1", ""),
            {[issuer |-> "other", key |-> "u1", sub |-> "alice"]}}}
  \cup {Ask("GET", <<"a", "b">>, t, "ip1", {"query", "body"}) : t \in {{}, Token("u1", "alice")}}
  \cup {Ask("GET", <<"">>, {}, "", {"query"})}

Symmetry == Permutations(Requests)

=============================================================================
