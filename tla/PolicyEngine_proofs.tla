------------------------- MODULE PolicyEngine_proofs -------------------------
(***************************************************************************)
(* Proofs about the policy engine, for any documents and requests: the     *)
(* compiled tables send every request where the document sends it, and     *)
(* every evaluation enforces the document it began with.                   *)
(***************************************************************************)
EXTENDS PolicyEngine, TLAPS, NaturalsInduction, WellFoundedInduction

-----------------------------------------------------------------------------
(* The loop over the routes                                                *)

\* The recursion of Listed on the first n routes, and what it defines.
Loops(routes, method, n, g) ==
  g = [i \in 0 .. n |->
         IF i = 0 THEN <<>>
         ELSE IF method \in Range(routes[i].methods) THEN Append(g[i - 1], routes[i])
         ELSE g[i - 1]]
Loop(routes, method) == CHOOSE g : Loops(routes, method, Len(routes), g)

\* Every set of natural numbers has a least element: what an induction needs,
\* without an operator for what is proved by it.
LEMMA NatMin ==
  ASSUME NEW T \in SUBSET Nat, T # {}
  PROVE  \E n \in T : \A m \in T : n <= m
<1>1. IsWellFoundedOn(OpToRel(<, Nat), Nat)
  BY NatLessThanWellFounded, Zenon
<1>2. PICK x \in T : \A y \in T : ~(<<y, x>> \in OpToRel(<, Nat))
  BY <1>1, WFMin, Zenon
<1>3. \A y \in Nat : y < x => <<y, x>> \in OpToRel(<, Nat)
  BY DEF OpToRel
<1>4. \A y \in T : ~(y < x)
  BY <1>2, <1>3, Zenon
<1> QED
  BY <1>4

\* The recursion has a solution, each solution extending the one before.
LEMMA LoopExists ==
  ASSUME NEW routes, NEW method, NEW n \in Nat
  PROVE  \E g : Loops(routes, method, n, g)
<1> DEFINE Bad == {k \in Nat : ~\E g : Loops(routes, method, k, g)}
<1>1. Bad = {}
  <2> SUFFICES ASSUME Bad # {} PROVE FALSE
    OBVIOUS
  <2>1. PICK k \in Bad : \A j \in Bad : k <= j
    BY NatMin
  <2>2. CASE k = 0
    <3> DEFINE g == [i \in 0 .. 0 |-> <<>>]
    <3>1. Loops(routes, method, 0, g)
      BY DEF Loops
    <3> QED
      BY <2>2, <3>1
  <2>3. CASE k # 0
    <3>1. k \in Nat /\ k - 1 \in Nat /\ ~(k <= k - 1)
      BY <2>3
    <3>2. k - 1 \notin Bad
      <4> HIDE DEF Bad
      <4> QED
        BY <2>1, <3>1
    <3>3. PICK g : Loops(routes, method, k - 1, g)
      BY <3>1, <3>2
    <3> DEFINE after(i, last) ==
          IF method \in Range(routes[i].methods) THEN Append(last, routes[i]) ELSE last
    <3> DEFINE h == [i \in 0 .. k |-> IF i = 0 THEN <<>> ELSE after(i, g[i - 1])]
    <3>4. \A i \in 0 .. k - 1 : g[i] = IF i = 0 THEN <<>> ELSE after(i, g[i - 1])
      BY <3>1, <3>3, Zenon DEF Loops
    <3>5. \A i \in 0 .. k : h[i] = IF i = 0 THEN <<>> ELSE after(i, g[i - 1])
      OBVIOUS
    <3> HIDE DEF after
    <3>6. \A i \in 0 .. k - 1 : h[i] = g[i]
      BY <3>1, <3>4, <3>5
    <3>7. \A i \in 0 .. k : h[i] = IF i = 0 THEN <<>> ELSE after(i, h[i - 1])
      <4> HIDE DEF h
      <4>1. \A i \in 0 .. k : i # 0 => i - 1 \in 0 .. k - 1
        BY <3>1
      <4>2. \A i \in 0 .. k : i # 0 => h[i - 1] = g[i - 1]
        BY <3>6, <4>1, Zenon
      <4> QED
        BY <3>5, <4>2, Zenon
    <3>8. h = [i \in 0 .. k |-> IF i = 0 THEN <<>> ELSE after(i, h[i - 1])]
      BY <3>7
    <3> HIDE DEF h
    <3>9. Loops(routes, method, k, h)
      BY <3>8, Zenon DEF Loops, after
    <3> QED
      BY <2>1, <3>9
  <2> QED
    BY <2>2, <2>3
<1> QED
  BY <1>1

\* What the loop has appended after i routes.
LEMMA LoopSteps ==
  ASSUME NEW R, NEW routes \in Seq(R), NEW method
  PROVE  /\ Listed(routes, method) = Loop(routes, method)[Len(routes)]
         /\ Loop(routes, method)[0] = <<>>
         /\ \A i \in 1 .. Len(routes) :
              Loop(routes, method)[i] =
                IF method \in Range(routes[i].methods)
                THEN Append(Loop(routes, method)[i - 1], routes[i])
                ELSE Loop(routes, method)[i - 1]
<1> DEFINE g == Loop(routes, method)
<1>1. Loops(routes, method, Len(routes), g)
  BY LoopExists DEF Loop
<1>2. Listed(routes, method) = g[Len(routes)]
  BY DEF Listed, Loop, Loops
<1> HIDE DEF g
<1>3. \A i \in 0 .. Len(routes) :
        g[i] = IF i = 0 THEN <<>>
               ELSE IF method \in Range(routes[i].methods) THEN Append(g[i - 1], routes[i])
               ELSE g[i - 1]
  BY <1>1, Zenon DEF Loops
<1>4. Len(routes) \in Nat
  OBVIOUS
<1>5. g[0] = <<>>
  BY <1>3, <1>4
<1>6. \A i \in 1 .. Len(routes) : i \in 0 .. Len(routes) /\ i # 0
  BY <1>4
<1>7. \A i \in 1 .. Len(routes) :
        g[i] = IF method \in Range(routes[i].methods) THEN Append(g[i - 1], routes[i])
               ELSE g[i - 1]
  BY <1>3, <1>6, Zenon
<1> QED
  BY <1>2, <1>5, <1>7 DEF g

\* What is known of a list s of the first i routes, if F has the places of the
\* routes that belong on the list and are in Q: the first element of the list in
\* Q is the first of those routes.
FirstOf(routes, F, Q, s, i) ==
  /\ \A j \in 1 .. Len(s) : \E k \in 1 .. i : s[j] = routes[k]
  /\ \A j \in 1 .. Len(s) :
       (s[j] \in Q /\ \A n \in 1 .. (j - 1) : s[n] \notin Q) =>
         \E k \in F : k <= i /\ s[j] = routes[k] /\ \A n \in F : k <= n
  /\ (\A j \in 1 .. Len(s) : s[j] \notin Q) => \A k \in F : i < k

LEMMA FirstOfAppend ==
  ASSUME NEW R, NEW routes \in Seq(R), NEW F \in SUBSET (1 .. Len(routes)), NEW Q,
         NEW i \in 1 .. Len(routes), i \in F <=> routes[i] \in Q,
         NEW s \in Seq(R), FirstOf(routes, F, Q, s, i - 1)
  PROVE  FirstOf(routes, F, Q, Append(s, routes[i]), i)
<1> DEFINE t == Append(s, routes[i])
<1>0. Len(s) \in Nat /\ Len(routes) \in Nat /\ i \in Nat /\ routes[i] \in R
  OBVIOUS
<1>1. Len(t) = Len(s) + 1 /\ t[Len(s) + 1] = routes[i] /\ \A j \in 1 .. Len(s) : t[j] = s[j]
  BY <1>0
<1> HIDE DEF t
<1>2. \A j \in 1 .. Len(t) : j \in 1 .. Len(s) \/ j = Len(s) + 1
  BY <1>0, <1>1
<1>3. ASSUME NEW j \in 1 .. Len(t) PROVE \E k \in 1 .. i : t[j] = routes[k]
  <2>1. CASE j \in 1 .. Len(s)
    <3>1. PICK k \in 1 .. i - 1 : s[j] = routes[k]
      BY <2>1 DEF FirstOf
    <3> QED
      BY <2>1, <3>1, <1>0, <1>1
  <2> QED
    BY <2>1, <1>0, <1>1, <1>2
<1>4. ASSUME NEW j \in 1 .. Len(t), t[j] \in Q, \A n \in 1 .. (j - 1) : t[n] \notin Q
      PROVE  \E k \in F : k <= i /\ t[j] = routes[k] /\ \A n \in F : k <= n
  <2>1. CASE j \in 1 .. Len(s)
    <3>1. \A n \in 1 .. (j - 1) : n \in 1 .. Len(s) /\ s[n] \notin Q
      BY <2>1, <1>0, <1>1, <1>4
    <3>2. s[j] \in Q
      BY <2>1, <1>1, <1>4
    <3>3. PICK k \in F : k <= i - 1 /\ s[j] = routes[k] /\ \A n \in F : k <= n
      BY <2>1, <3>1, <3>2 DEF FirstOf
    <3>4. k <= i
      BY <3>3, <1>0
    <3> QED
      BY <2>1, <3>3, <3>4, <1>1
  <2>2. CASE j = Len(s) + 1
    <3>1. \A n \in 1 .. Len(s) : s[n] \notin Q
      BY <2>2, <1>0, <1>1, <1>4
    <3>2. \A k \in F : i - 1 < k
      BY <3>1 DEF FirstOf
    <3>3. i \in F /\ t[j] = routes[i]
      BY <2>2, <1>1, <1>4
    <3>4. \A n \in F : i <= n
      BY <3>2, <1>0
    <3> QED
      BY <3>3, <3>4, <1>0
  <2> QED
    BY <2>1, <2>2, <1>2
<1>5. ASSUME \A j \in 1 .. Len(t) : t[j] \notin Q PROVE \A k \in F : i < k
  <2>1. \A j \in 1 .. Len(s) : s[j] \notin Q
    BY <1>0, <1>1, <1>5
  <2>2. \A k \in F : i - 1 < k
    BY <2>1 DEF FirstOf
  <2>3. i \notin F
    BY <1>0, <1>1, <1>5
  <2> QED
    BY <2>2, <2>3, <1>0
<1>6. FirstOf(routes, F, Q, t, i)
  BY <1>3, <1>4, <1>5 DEF FirstOf
<1> QED
  BY <1>6 DEF t

LEMMA FirstOfSkip ==
  ASSUME NEW R, NEW routes \in Seq(R), NEW F \in SUBSET (1 .. Len(routes)), NEW Q,
         NEW i \in 1 .. Len(routes), i \notin F,
         NEW s \in Seq(R), FirstOf(routes, F, Q, s, i - 1)
  PROVE  FirstOf(routes, F, Q, s, i)
<1>0. Len(s) \in Nat /\ Len(routes) \in Nat /\ i \in Nat
  OBVIOUS
<1>1. \A k \in 1 .. i - 1 : k \in 1 .. i
  BY <1>0
<1>2. \A k \in F : k <= i - 1 => k <= i
  BY <1>0
<1>3. \A k \in F : i - 1 < k => i < k
  BY <1>0
<1>4. \A j \in 1 .. Len(s) : \E k \in 1 .. i : s[j] = routes[k]
  BY <1>1, Zenon DEF FirstOf
<1>5. \A j \in 1 .. Len(s) :
       (s[j] \in Q /\ \A n \in 1 .. (j - 1) : s[n] \notin Q) =>
         \E k \in F : k <= i /\ s[j] = routes[k] /\ \A n \in F : k <= n
  BY <1>2, Zenon DEF FirstOf
<1>6. (\A j \in 1 .. Len(s) : s[j] \notin Q) => \A k \in F : i < k
  BY <1>3, Zenon DEF FirstOf
<1> QED
  BY <1>4, <1>5, <1>6 DEF FirstOf

\* The loop keeps the order of the document.
LEMMA ListedInOrder ==
  ASSUME NEW R, NEW routes \in Seq(R), NEW method, NEW Q, NEW F,
         F = {k \in 1 .. Len(routes) : method \in Range(routes[k].methods) /\ routes[k] \in Q}
  PROVE  /\ Listed(routes, method) \in Seq(R)
         /\ FirstOf(routes, F, Q, Listed(routes, method), Len(routes))
<1> DEFINE g == Loop(routes, method)
           Good(i) == g[i] \in Seq(R) /\ FirstOf(routes, F, Q, g[i], i)
           Bad == {i \in 0 .. Len(routes) : ~Good(i)}
<1>0. Len(routes) \in Nat
  OBVIOUS
<1>1. /\ Listed(routes, method) = g[Len(routes)]
      /\ g[0] = <<>>
      /\ \A i \in 1 .. Len(routes) :
           g[i] = IF method \in Range(routes[i].methods) THEN Append(g[i - 1], routes[i])
                                                         ELSE g[i - 1]
  BY LoopSteps
<1> HIDE DEF g
<1>2. Good(0)
  <2>1. g[0] \in Seq(R) /\ Len(g[0]) = 0
    BY <1>1
  <2>2. \A k \in F : 0 < k
    BY <1>0
  <2> QED
    BY <2>1, <2>2 DEF FirstOf
<1>3. ASSUME NEW i \in 1 .. Len(routes), Good(i - 1) PROVE Good(i)
  <2>1. CASE method \in Range(routes[i].methods)
    <3>1. g[i] = Append(g[i - 1], routes[i])
      BY <2>1, <1>1
    <3>2. i \in F <=> routes[i] \in Q
      BY <2>1
    <3>3. FirstOf(routes, F, Q, Append(g[i - 1], routes[i]), i)
      BY <3>2, <1>3, FirstOfAppend
    <3>4. Append(g[i - 1], routes[i]) \in Seq(R)
      BY <1>3
    <3> QED
      BY <3>1, <3>3, <3>4
  <2>2. CASE method \notin Range(routes[i].methods)
    <3>1. g[i] = g[i - 1]
      BY <2>2, <1>1
    <3>2. i \notin F
      BY <2>2
    <3>3. FirstOf(routes, F, Q, g[i - 1], i)
      BY <3>2, <1>3, FirstOfSkip
    <3> QED
      BY <3>1, <3>3, <1>3
  <2> QED
    BY <2>1, <2>2
<1> HIDE DEF Good
<1>4. Bad = {}
  <2> SUFFICES ASSUME Bad # {} PROVE FALSE
    OBVIOUS
  <2>1. PICK i \in Bad : \A j \in Bad : i <= j
    <3>1. Bad \in SUBSET Nat
      BY <1>0
    <3> HIDE DEF Bad
    <3> QED
      BY <3>1, NatMin
  <2>2. i # 0 /\ i \in 1 .. Len(routes) /\ i - 1 \in 0 .. Len(routes) /\ ~(i <= i - 1)
    BY <1>0, <1>2
  <2>3. i - 1 \notin Bad
    <3> HIDE DEF Bad
    <3> QED
      BY <2>1, <2>2
  <2>4. Good(i - 1)
    BY <2>2, <2>3
  <2>5. Good(i)
    BY <2>2, <2>4, <1>3
  <2> QED
    BY <2>1, <2>5
<1>5. Good(Len(routes))
  BY <1>0, <1>4
<1> QED
  BY <1>1, <1>5 DEF Good

-----------------------------------------------------------------------------
(* Patterns                                                                *)

\* The three kinds of segments in an expression.
LEMMA SegmentKinds ==
  ASSUME NEW q, NEW segment
  PROVE  /\ q.kind = "literal" => (SegmentMatches(q, segment) <=> segment = q.text)
         /\ q.kind = "some" => (SegmentMatches(q, segment) <=> segment # "")
         /\ q.kind = "any" => SegmentMatches(q, segment)
<1>1. ASSUME q.kind = "literal" PROVE SegmentMatches(q, segment) <=> segment = q.text
  BY <1>1 DEF SegmentMatches
<1>2. ASSUME q.kind = "some" PROVE SegmentMatches(q, segment) <=> segment # ""
  BY <1>2 DEF SegmentMatches
<1>3. ASSUME q.kind = "any" PROVE SegmentMatches(q, segment)
  BY <1>3 DEF SegmentMatches
<1> QED
  BY <1>1, <1>2, <1>3

\* What becomes of a segment of a template.
Piece(segment) ==
  CASE segment.kind = "literal" -> segment
    [] segment.kind = "param" -> [kind |-> "some", text |-> ""]
    [] segment.kind = "wildcard" -> [kind |-> "any", text |-> ""]

LEMMA Pieces ==
  ASSUME NEW segment
  PROVE  /\ segment.kind = "literal" => Piece(segment) = segment
         /\ segment.kind = "param" => Piece(segment).kind = "some"
         /\ segment.kind = "wildcard" => Piece(segment).kind = "any"
<1>1. ASSUME segment.kind = "literal" PROVE Piece(segment) = segment
  BY <1>1 DEF Piece
<1>2. ASSUME segment.kind = "param" PROVE Piece(segment) = [kind |-> "some", text |-> ""]
  BY <1>2 DEF Piece
<1>3. ASSUME segment.kind = "wildcard" PROVE Piece(segment) = [kind |-> "any", text |-> ""]
  BY <1>3 DEF Piece
<1>4. /\ [kind |-> "some", text |-> ""].kind = "some"
      /\ [kind |-> "any", text |-> ""].kind = "any"
  OBVIOUS
<1>5. ASSUME segment.kind = "param" PROVE Piece(segment).kind = "some"
  BY <1>2, <1>4, <1>5, Zenon
<1>6. ASSUME segment.kind = "wildcard" PROVE Piece(segment).kind = "any"
  BY <1>3, <1>4, <1>6, Zenon
<1> QED
  BY <1>1, <1>5, <1>6

\* Combining the alternatives of a template into an expression, without the
\* names of its parameters, loses nothing.
LEMMA PatternsFit ==
  ASSUME NEW t \in Seq(Segment), t # <<>>, TemplateCompiles(t), NEW path \in Seq(STRING)
  PROVE  PatternMatches(CompilePathTemplate(t), path) <=> MadeFrom(t, path)
<1> DEFINE n == Len(t)
           p == CompilePathTemplate(t)
           open == t[n].kind = "wildcard"
           m == IF open THEN n - 1 ELSE n
           Fits(i) == IF t[i].kind = "param" THEN path[i] # "" ELSE path[i] = t[i].text
           fixed == IF open THEN SubSeq(t, 1, n - 1) ELSE t
<1>0. n \in Nat /\ n # 0 /\ DOMAIN t = 1 .. n /\ Len(path) \in Nat
  OBVIOUS
<1>1. \A i \in 1 .. n : t[i].kind \in {"literal", "param", "wildcard"}
  <2>1. \A i \in 1 .. n : t[i] \in Segment
    BY <1>0
  <2> QED
    BY <2>1 DEF Segment
<1>2. p = [i \in DOMAIN t |-> Piece(t[i])]
  BY DEF CompilePathTemplate, Piece
<1> HIDE DEF p
<1>3. DOMAIN p = 1 .. n /\ Len(p) = n /\ \A i \in 1 .. n : p[i] = Piece(t[i])
  <2>1. DOMAIN p = 1 .. n /\ \A i \in 1 .. n : p[i] = Piece(t[i])
    BY <1>0, <1>2
  <2>2. p \in Seq({Piece(t[i]) : i \in 1 .. n})
    BY <1>0, <1>2
  <2> QED
    BY <1>0, <2>1, <2>2
<1>4. \A i \in 1 .. n : (i = n /\ open) \/ t[i].kind \in {"literal", "param"}
  BY <1>0, <1>1 DEF TemplateCompiles
<1>5. \A i \in 1 .. n : t[i].kind \in {"literal", "param"} =>
        /\ p[i].kind # "any"
        /\ SegmentMatches(p[i], path[i]) <=> Fits(i)
  <2> TAKE i \in 1 .. n
  <2>1. CASE t[i].kind = "literal"
    <3>1. p[i] = t[i]
      BY <2>1, <1>3, Pieces
    <3> QED
      BY <2>1, <3>1, SegmentKinds
  <2>2. CASE t[i].kind = "param"
    <3>1. p[i].kind = "some"
      BY <2>2, <1>3, Pieces
    <3>2. SegmentMatches(p[i], path[i]) <=> path[i] # ""
      BY <3>1, SegmentKinds
    <3>3. Fits(i) <=> path[i] # ""
      BY <2>2
    <3> HIDE DEF Fits
    <3> QED
      BY <3>1, <3>2, <3>3
  <2> QED
    BY <2>1, <2>2
<1>6. open => /\ p[n].kind = "any"
              /\ SegmentMatches(p[n], path[n])
  <2> SUFFICES ASSUME open PROVE p[n].kind = "any" /\ SegmentMatches(p[n], path[n])
    OBVIOUS
  <2>1. n \in 1 .. n
    BY <1>0
  <2>2. p[n].kind = "any"
    BY <1>3, <2>1, Pieces
  <2> QED
    BY <2>2, SegmentKinds
<1>7. fixed \in Seq(Segment) /\ Len(fixed) = m /\ DOMAIN fixed = 1 .. m
      /\ \A i \in 1 .. m : fixed[i] = t[i]
  <2>1. CASE open
    <3>1. n - 1 \in 0 .. n
      BY <1>0
    <3> DEFINE u == SubSeq(t, 1, n - 1)
    <3>2. u \in Seq(Segment) /\ Len(u) = n - 1 /\ \A i \in 1 .. n - 1 : u[i] = t[i]
      BY <1>0, <3>1
    <3> QED
      BY <2>1, <3>2
  <2>2. CASE ~open
    BY <2>2, <1>0
  <2> QED
    BY <2>1, <2>2
<1>8. MadeFrom(t, path) <=>
        \E left \in 0 .. Len(path) :
          /\ left > 0 <=> open
          /\ Len(path) = m + left
          /\ \A i \in 1 .. m : Fits(i)
  <2> HIDE DEF open, m
  <2>1. MadeFrom(t, path) <=>
          \E left \in 0 .. Len(path) :
            /\ left > 0 <=> open
            /\ Len(path) = Len(fixed) + left
            /\ \A i \in DOMAIN fixed :
                 IF fixed[i].kind = "param" THEN path[i] # "" ELSE path[i] = fixed[i].text
    BY Zenon DEF MadeFrom, open
  <2> HIDE DEF fixed
  <2> QED
    BY <2>1, <1>7
<1>9. PatternMatches(p, path) <=>
        /\ IF open THEN Len(path) >= n ELSE Len(path) = n
        /\ \A i \in 1 .. m : Fits(i)
  <2>1. n \in 1 .. n /\ (p[n].kind = "any" <=> open)
    <3>1. n \in 1 .. n
      BY <1>0
    <3> HIDE DEF open, Fits
    <3> QED
      BY <3>1, <1>4, <1>5, <1>6, Zenon
  <2>2. (\A i \in 1 .. n : SegmentMatches(p[i], path[i])) <=> \A i \in 1 .. m : Fits(i)
    <3> HIDE DEF Fits
    <3>1. CASE open
      <4>0. m = n - 1
        BY <3>1
      <4>1. \A i \in 1 .. n : i = n \/ i \in 1 .. m
        <5> HIDE DEF n, m
        <5> QED
          BY <4>0, <1>0
      <4>2. \A i \in 1 .. m : i \in 1 .. n /\ i # n
        <5> HIDE DEF n, m
        <5> QED
          BY <4>0, <1>0
      <4>3. \A i \in 1 .. m : SegmentMatches(p[i], path[i]) <=> Fits(i)
        <5> HIDE DEF open, m
        <5> QED
          BY <4>2, <1>4, <1>5, Zenon
      <4> HIDE DEF m
      <4> QED
        BY <3>1, <4>1, <4>2, <4>3, <1>6, Zenon
    <3>2. CASE ~open
      BY <3>2, <1>4, <1>5
    <3> QED
      BY <3>1, <3>2
  <2> HIDE DEF m, Fits, open
  <2>3. PatternMatches(p, path) <=>
          /\ IF p[n].kind = "any" THEN Len(path) >= n ELSE Len(path) = n
          /\ \A i \in 1 .. n : SegmentMatches(p[i], path[i])
    BY <1>3, Zenon DEF PatternMatches
  <2> QED
    BY <2>1, <2>2, <2>3
<1>10. CASE open
  <2>1. m = n - 1
    BY <1>10
  <2> HIDE DEF m, Fits
  <2>2. ASSUME NEW left \in 0 .. Len(path), left > 0, Len(path) = m + left PROVE Len(path) >= n
    BY <2>1, <2>2, <1>0
  <2>3. ASSUME Len(path) >= n
        PROVE  \E left \in 0 .. Len(path) : left > 0 /\ Len(path) = m + left
    <3>1. Len(path) - m \in 0 .. Len(path) /\ Len(path) - m > 0 /\ Len(path) = m + (Len(path) - m)
      BY <2>1, <2>3, <1>0
    <3> QED
      BY <3>1
  <2> HIDE DEF open
  <2> QED
    BY <1>8, <1>9, <1>10, <2>2, <2>3 DEF p
<1>11. CASE ~open
  <2>1. m = n
    BY <1>11
  <2> HIDE DEF m, Fits
  <2>2. ASSUME NEW left \in 0 .. Len(path), ~(left > 0), Len(path) = m + left PROVE Len(path) = n
    BY <2>1, <2>2, <1>0
  <2>3. ASSUME Len(path) = n
        PROVE  \E left \in 0 .. Len(path) : ~(left > 0) /\ Len(path) = m + left
    <3>1. 0 \in 0 .. Len(path) /\ ~(0 > 0) /\ Len(path) = m + 0
      BY <2>1, <2>3, <1>0
    <3> QED
      BY <3>1
  <2> HIDE DEF open
  <2> QED
    BY <1>8, <1>9, <1>11, <2>2, <2>3 DEF p
<1> QED
  BY <1>10, <1>11

-----------------------------------------------------------------------------
(* The route matcher                                                       *)

LEMMA RouteTypes ==
  ASSUME NEW r \in Route
  PROVE  /\ r.path \in Seq(Segment) /\ r.path # <<>>
         /\ r.rateLimit \in {"none", "jwt.sub", "client-ip"}
         /\ \A policy \in r.jwt : policy.jwksUrl \in STRING
<1>1. r.path \in Seq(Segment) \ {<<>>}
  BY DEF Route
<1>2. r.jwt \in SUBSET JwtPolicy /\ r.rateLimit \in {"none", "jwt.sub", "client-ip"}
  BY DEF Route
<1>3. \A policy \in r.jwt : policy.jwksUrl \in STRING
  BY <1>2 DEF JwtPolicy
<1> QED
  BY <1>1, <1>2, <1>3

LEMMA DocumentTypes ==
  ASSUME NEW d \in Documents
  PROVE  d.routes \in Seq(Route)
<1>1. d \in Document
  BY DocumentsAssumption, Zenon
<1> QED
  BY <1>1 DEF Document

LEMMA MinIsLeast ==
  ASSUME NEW T \in SUBSET Nat, T # {}
  PROVE  Min(T) \in T /\ \A n \in T : Min(T) <= n
  BY NatMin DEF Min

\* The first route of a document, given the places of the routes that fit.
LEMMA FirstMatchIs ==
  ASSUME NEW d \in Documents, NEW method, NEW path, NEW F,
         F = {k \in 1 .. Len(d.routes) : /\ method \in Range(d.routes[k].methods)
                                         /\ MadeFrom(d.routes[k].path, path)}
  PROVE  /\ F = {} => FirstMatch(d, method, path) = {}
         /\ \A k \in F : (\A n \in F : k <= n) => FirstMatch(d, method, path) = {d.routes[k]}
<1> DEFINE N == Len(d.routes)
           First == {n \in 1 .. N : n \in F /\ \A k \in 1 .. (n - 1) : ~(k \in F)}
<1>1. N \in Nat /\ DOMAIN d.routes = 1 .. N
  BY DocumentTypes
<1>2. FirstMatch(d, method, path) = {d.routes[i] : i \in First}
  <2>1. \A n \in 1 .. N : \A k \in 1 .. (n - 1) : k \in 1 .. N
    BY <1>1
  <2>2. \A k \in 1 .. N : k \in F <=> /\ method \in Range(d.routes[k].methods)
                                     /\ MadeFrom(d.routes[k].path, path)
    OBVIOUS
  <2>3. First = {n \in DOMAIN d.routes :
          /\ method \in Range(d.routes[n].methods) /\ MadeFrom(d.routes[n].path, path)
          /\ \A k \in 1 .. (n - 1) : ~(/\ method \in Range(d.routes[k].methods)
                                       /\ MadeFrom(d.routes[k].path, path))}
    BY <1>1, <2>1, <2>2
  <2> HIDE DEF First
  <2> QED
    BY <2>3 DEF FirstMatch
<1>3. ASSUME F = {} PROVE First = {}
  BY <1>3
<1>4. ASSUME NEW k \in F, \A n \in F : k <= n PROVE First = {k}
  <2>1. k \in 1 .. N
    OBVIOUS
  <2>2. \A n \in 1 .. (k - 1) : ~(n \in F)
    <3>1. \A n \in 1 .. (k - 1) : ~(k <= n)
      BY <1>1, <2>1
    <3> QED
      BY <1>4, <3>1, Zenon
  <2>3. k \in First
    BY <2>1, <2>2
  <2>4. ASSUME NEW n \in First PROVE n = k
    <3>1. n \in 1 .. N /\ n \in F /\ ~(k \in 1 .. (n - 1)) /\ k <= n
      BY <1>4
    <3> QED
      BY <1>1, <2>1, <3>1
  <2> HIDE DEF First
  <2> QED
    BY <2>3, <2>4
<1> HIDE DEF First
<1> QED
  BY <1>2, <1>3, <1>4

\* What the compiler puts into a bundle.
LEMMA BundleIs ==
  ASSUME NEW d \in Documents
  PROVE  /\ Compile(d).routes = d.routes
         /\ DOMAIN Compile(d).matchers = UNION {Range(r.methods) : r \in Range(d.routes)}
         /\ \A m \in DOMAIN Compile(d).matchers :
              /\ Compile(d).matchers[m].patterns =
                   [i \in DOMAIN Listed(d.routes, m) |->
                      CompilePathTemplate(Listed(d.routes, m)[i].path)]
              /\ Compile(d).matchers[m].routeIds =
                   [i \in DOMAIN Listed(d.routes, m) |-> Listed(d.routes, m)[i].id]
<1>1. Compile(d).routes = d.routes /\ Compile(d).matchers = CompileMatchers(d.routes)
  BY DEF Compile
<1> QED
  BY <1>1 DEF CompileMatchers

LEMMA RangeOf ==
  ASSUME NEW S, NEW s \in Seq(S)
  PROVE  Range(s) = {s[k] : k \in 1 .. Len(s)}
  BY DEF Range

\* The listed routes are routes of the document.
LEMMA ListedRoutes ==
  ASSUME NEW d \in Documents, NEW m
  PROVE  /\ Listed(d.routes, m) \in Seq(Route)
         /\ \A j \in DOMAIN Listed(d.routes, m) : Listed(d.routes, m)[j] \in Range(d.routes)
<1> DEFINE F == {k \in 1 .. Len(d.routes) : m \in Range(d.routes[k].methods) /\ d.routes[k] \in {}}
           L == Listed(d.routes, m)
<1>1. L \in Seq(Route) /\ FirstOf(d.routes, F, {}, L, Len(d.routes))
  BY DocumentTypes, ListedInOrder
<1> HIDE DEF F, L
<1>2. \A j \in 1 .. Len(L) : \E k \in 1 .. Len(d.routes) : L[j] = d.routes[k]
  BY <1>1, Zenon DEF FirstOf
<1>3. DOMAIN L = 1 .. Len(L)
  BY <1>1
<1>4. Range(d.routes) = {d.routes[k] : k \in 1 .. Len(d.routes)}
  BY DocumentTypes, RangeOf
<1>5. \A j \in DOMAIN L : L[j] \in Range(d.routes)
  BY <1>2, <1>3, <1>4
<1> QED
  BY <1>1, <1>5 DEF L

\* The edge sends every request to the route where the document sends it.
LEMMA RoutesAgree ==
  ASSUME NEW d \in Documents, Compiles(d), NEW method, NEW path \in Seq(STRING)
  PROVE  Resolve(Compile(d), method, path) = FirstMatch(d, method, path)
<1> DEFINE routes == d.routes
           N == Len(routes)
           L == Listed(routes, method)
           Q == {r \in Route : MadeFrom(r.path, path)}
           F == {k \in 1 .. N : method \in Range(routes[k].methods) /\ MadeFrom(routes[k].path, path)}
           b == Compile(d)
           hits == {i \in DOMAIN b.matchers[method].patterns :
                      PatternMatches(b.matchers[method].patterns[i], path)}
<1>1. N \in Nat /\ \A k \in 1 .. N : routes[k] \in Route
  BY DocumentTypes
<1>2. Range(routes) = {routes[k] : k \in 1 .. N}
  BY DocumentTypes, RangeOf
<1>3. \A i, j \in 1 .. N : routes[i].id = routes[j].id => i = j
  <2>1. DOMAIN routes = 1 .. N
    BY DocumentTypes
  <2> QED
    BY <2>1 DEF Compiles, Validate
<1>4. \A r \in Range(routes) : TemplateCompiles(r.path)
  BY DEF Compiles
<1>5. L \in Seq(Route) /\ \A j \in DOMAIN L : L[j] \in Range(routes) /\ L[j] \in Route
  <2>1. L \in Seq(Route) /\ \A j \in DOMAIN L : L[j] \in Range(routes)
    BY ListedRoutes
  <2> HIDE DEF L
  <2> QED
    BY <2>1
<1>6. FirstOf(routes, F, Q, L, N)
  <2>1. F = {k \in 1 .. N : method \in Range(routes[k].methods) /\ routes[k] \in Q}
    BY <1>1
  <2> HIDE DEF F, Q
  <2> QED
    BY <2>1, DocumentTypes, ListedInOrder
<1>7. /\ F = {} => FirstMatch(d, method, path) = {}
      /\ \A k \in F : (\A n \in F : k <= n) => FirstMatch(d, method, path) = {routes[k]}
  BY FirstMatchIs
<1>8. F \subseteq 1 .. N
  OBVIOUS
<1>9. \A j \in DOMAIN L : PatternMatches(CompilePathTemplate(L[j].path), path) <=> L[j] \in Q
  <2> TAKE j \in DOMAIN L
  <2>1. L[j] \in Route /\ TemplateCompiles(L[j].path)
    BY <1>4, <1>5
  <2>2. L[j].path \in Seq(Segment) /\ L[j].path # <<>>
    BY <2>1, RouteTypes
  <2>3. PatternMatches(CompilePathTemplate(L[j].path), path) <=> MadeFrom(L[j].path, path)
    BY <2>1, <2>2, PatternsFit
  <2> QED
    BY <2>1, <2>3
<1>10. CASE method \notin DOMAIN b.matchers
  <2>1. \A k \in 1 .. N : method \notin Range(routes[k].methods)
    BY <1>2, <1>10, BundleIs
  <2>2. F = {}
    BY <2>1
  <2>3. Resolve(b, method, path) = {}
    BY <1>10 DEF Resolve
  <2> QED
    BY <2>2, <2>3, <1>7
<1>11. CASE method \in DOMAIN b.matchers
  <2>1. /\ b.routes = routes
        /\ b.matchers[method].patterns = [i \in DOMAIN L |-> CompilePathTemplate(L[i].path)]
        /\ b.matchers[method].routeIds = [i \in DOMAIN L |-> L[i].id]
    BY <1>11, BundleIs
  <2>2. DOMAIN L = 1 .. Len(L) /\ Len(L) \in Nat
    BY <1>5
  <2> HIDE DEF b, F, Q, L, routes, N
  <2>3. hits = {i \in 1 .. Len(L) : L[i] \in Q}
    BY <2>1, <2>2, <1>9
  <2>4. Resolve(b, method, path) =
          IF hits = {} THEN {}
          ELSE {r \in Range(routes) : r.id = b.matchers[method].routeIds[Min(hits)]}
    BY <1>11, <2>1, Zenon DEF Resolve
  <2> HIDE DEF hits
  <2>5. CASE hits = {}
    <3>1. \A k \in F : N < k
      BY <2>3, <2>5, <1>6 DEF FirstOf
    <3>2. F = {}
      BY <3>1, <1>1, <1>8
    <3> QED
      BY <2>4, <2>5, <3>2, <1>7 DEF b
  <2>6. CASE hits # {}
    <3> DEFINE j == Min(hits)
    <3>1. j \in hits /\ \A n \in hits : j <= n
      <4>1. hits \in SUBSET Nat
        BY <2>2, <2>3
      <4> QED
        BY <4>1, <2>6, MinIsLeast
    <3> HIDE DEF j
    <3>2. j \in 1 .. Len(L) /\ L[j] \in Q
      BY <3>1, <2>3
    <3>3. \A n \in 1 .. (j - 1) : L[n] \notin Q
      <4>1. \A n \in 1 .. (j - 1) : n \in 1 .. Len(L) /\ ~(j <= n)
        BY <3>2, <2>2
      <4> QED
        BY <4>1, <3>1, <2>3
    <3>4. PICK k \in F : L[j] = routes[k] /\ \A n \in F : k <= n
      BY <3>2, <3>3, <1>6 DEF FirstOf
    <3>5. FirstMatch(d, method, path) = {routes[k]}
      BY <3>4, <1>7
    <3>6. Resolve(b, method, path) = {r \in Range(routes) : r.id = routes[k].id}
      <4>1. b.matchers[method].routeIds[j] = routes[k].id
        BY <2>1, <2>2, <3>2, <3>4
      <4> QED
        BY <4>1, <2>4, <2>6 DEF j
    <3>7. k \in 1 .. N
      BY <1>8
    <3>8. {r \in Range(routes) : r.id = routes[k].id} = {routes[k]}
      BY <3>7, <1>2, <1>3
    <3> QED
      BY <3>5, <3>6, <3>8 DEF b
  <2> QED
    BY <2>5, <2>6
<1> QED
  BY <1>10, <1>11

\* The constructors of the engine find nothing else to complain about than
\* patterns that JavaScript does not accept.
LEMMA EnginesBuild ==
  ASSUME NEW d \in Documents, Compiles(d)
  PROVE  EngineBuilds(Compile(d)) <=> Portable(d)
<1>1. \A i, j \in DOMAIN d.routes : d.routes[i].id = d.routes[j].id => i = j
  BY DEF Compiles, Validate
<1>2. \A r \in Range(d.routes) : \A a, b \in r.waf : a.id = b.id => a = b
  BY DEF Compiles, Validate, ValidateRoute
<1>3. ASSUME NEW m \in DOMAIN Compile(d).matchers
      PROVE  Range(Compile(d).matchers[m].routeIds) \subseteq {r.id : r \in Range(d.routes)}
  <2> DEFINE L == Listed(d.routes, m)
  <2>1. \A j \in DOMAIN L : L[j] \in Range(d.routes)
    BY ListedRoutes
  <2>2. Compile(d).matchers[m].routeIds = [i \in DOMAIN L |-> L[i].id]
    BY BundleIs
  <2> HIDE DEF L
  <2>3. Range([i \in DOMAIN L |-> L[i].id]) = {L[i].id : i \in DOMAIN L}
    BY DEF Range
  <2> QED
    BY <2>1, <2>2, <2>3
<1> QED
  BY <1>1, <1>2, <1>3, BundleIs DEF EngineBuilds, WafBuilds, Portable

-----------------------------------------------------------------------------
(* Evaluations                                                             *)

LEMMA InputTypes ==
  ASSUME NEW input \in Inputs
  PROVE  /\ input.path \in Seq(STRING) /\ input.clientIp \in STRING
         /\ \A token \in input.token : token.sub \in STRING
<1>1. input \in Input
  BY InputsAssumption, Zenon
<1>2. input.path \in Seq(STRING) /\ input.clientIp \in STRING
  BY <1>1 DEF Input
<1>3. input.token \in SUBSET [issuer : STRING, key : STRING, sub : STRING]
  BY <1>1 DEF Input
<1> QED
  BY <1>2, <1>3

\* At most one route is resolved, with at most one policy for tokens.
LEMMA ResolvedRoute ==
  ASSUME NEW d \in Documents, Compiles(d), NEW method, NEW path \in Seq(STRING),
         NEW route \in Resolve(Compile(d), method, path)
  PROVE  /\ Resolve(Compile(d), method, path) = {route}
         /\ route \in Route
         /\ \A a, b \in route.jwt : a = b
<1> DEFINE F == {k \in 1 .. Len(d.routes) : /\ method \in Range(d.routes[k].methods)
                                            /\ MadeFrom(d.routes[k].path, path)}
<1>1. /\ F = {} => FirstMatch(d, method, path) = {}
      /\ \A k \in F : (\A n \in F : k <= n) => FirstMatch(d, method, path) = {d.routes[k]}
  BY FirstMatchIs
<1>2. Resolve(Compile(d), method, path) = FirstMatch(d, method, path)
  BY RoutesAgree
<1>3. Len(d.routes) \in Nat /\ DOMAIN d.routes = 1 .. Len(d.routes)
      /\ \A k \in 1 .. Len(d.routes) : d.routes[k] \in Route
  BY DocumentTypes
<1>4. F \in SUBSET (1 .. Len(d.routes)) /\ F \in SUBSET Nat
  BY <1>3
<1> HIDE DEF F
<1>5. F # {}
  BY <1>1, <1>2
<1>6. PICK k \in F : \A n \in F : k <= n
  BY <1>4, <1>5, NatMin
<1>7. Resolve(Compile(d), method, path) = {d.routes[k]}
  BY <1>1, <1>2, <1>6
<1>8. route = d.routes[k] /\ k \in DOMAIN d.routes /\ route \in Route
  BY <1>3, <1>4, <1>7
<1>9. \A a, b \in route.jwt : a = b
  BY <1>8, DocumentsAssumption, Zenon
<1> QED
  BY <1>7, <1>8, <1>9

\* What is enforced before a limiter is asked.
Passed(e, route) ==
  /\ ~Blocked(route.waf, e.input)
  /\ \A policy \in route.jwt : \E token \in e.input.token :
       token.issuer = policy.issuer /\ token.key = policy.jwksUrl

Owned(e, route) ==
  IF route.rateLimit = "jwt.sub"
  THEN \E token \in e.input.token : token.sub = e.charged /\ e.subject = token.sub
  ELSE e.charged = e.input.clientIp

\* What is known of an evaluation of a request that is sent to a route.
AtRoute(e, route) ==
  /\ e.at = "jwt" => /\ ~Blocked(route.waf, e.input)
                     /\ \A policy \in route.jwt : e.keys = policy.jwksUrl
  /\ e.at = "limiter" => Passed(e, route) /\ e.charged # ""
  /\ (e.at = "done" /\ e.verdict = "allowed") =>
       Passed(e, route) /\ (route.rateLimit # "none" => e.charged # "")
  /\ (e.at # "jwt" /\ e.charged # "") => Owned(e, route)

\* An engine has taken the request on and has not refused it.
Underway(e) == e.at # "done" \/ e.verdict = "allowed"

EvaluationOK(e) ==
  /\ e \in Evaluation
  /\ Compiles(e.document)
  /\ Underway(e) => Portable(e.document)
  /\ e.at = "jwt" => e.charged = ""
  /\ RoutesOf(e) = {} =>
       e.at = "done" /\ (e.verdict = "allowed" => e.document.defaultDecision = "allow")
  /\ \A route \in RoutesOf(e) : AtRoute(e, route)

EngineInv ==
  /\ document \in Documents /\ Compiles(document)
  /\ \A key \in DOMAIN resolvers : key \in STRING /\ resolvers[key] = key
  /\ evaluations \in [Requests -> Evaluation \cup {Idle}]
  /\ \A r \in Requests : evaluations[r] = Idle \/ EvaluationOK(evaluations[r])

\* An evaluation before its first await, too.
Stage == {"started", "jwt", "limiter", "done"}
Shape ==
  [at : Stage, input : Inputs, document : Documents, keys : Text,
   subject : Text, charged : Text, verdict : Verdict]

LEMMA Blank == "" \in Text
  BY DEF Text

LEMMA EndedIs ==
  ASSUME NEW e \in Shape, NEW verdict \in Verdict
  PROVE  LET n == Ended(e, verdict) IN
         /\ n \in Shape
         /\ n.at = "done" /\ n.input = e.input /\ n.document = e.document /\ n.keys = e.keys
         /\ n.subject = e.subject /\ n.charged = e.charged /\ n.verdict = verdict
<1>1. "done" \in Stage
  BY DEF Stage
<1>2. Ended(e, verdict) \in Shape
  BY <1>1 DEF Ended, Shape
<1> QED
  BY <1>2 DEF Ended, Shape

\* A route without a limit ends the evaluation; a limiter is asked for an
\* identity, and without one the request is not allowed.
LEMMA ProceedIs ==
  ASSUME NEW e \in Shape, NEW route \in Route, NEW subject \in Text, NEW n,
         n = Proceed(e, route, subject)
  PROVE  /\ n \in Shape
         /\ n.input = e.input /\ n.document = e.document /\ n.subject = subject
         /\ \/ route.rateLimit = "none" /\ n.at = "done" /\ n.charged = e.charged
            \/ /\ route.rateLimit # "none" /\ n.at = "limiter"
               /\ n.charged = Identity(route, e.input, subject) /\ n.charged # ""
            \/ /\ route.rateLimit # "none" /\ n.at = "done" /\ n.charged = e.charged
               /\ n.verdict # "allowed"
<1> DEFINE identity == Identity(route, e.input, subject)
           checked == [e EXCEPT !.subject = subject]
           asked == [checked EXCEPT !.at = "limiter", !.charged = identity]
<1>1. route.rateLimit \in {"none", "jwt.sub", "client-ip"}
  BY RouteTypes
<1>2. identity \in Text
  <2>1. e.input \in Inputs
    BY DEF Shape
  <2>2. e.input.clientIp \in Text
    BY <2>1, InputTypes DEF Text
  <2> QED
    BY <2>2 DEF Identity
<1>3. /\ checked \in Shape /\ checked.input = e.input /\ checked.document = e.document
      /\ checked.subject = subject /\ checked.charged = e.charged
  BY DEF Shape
<1> HIDE DEF checked, identity
<1>4. "limiter" \in Stage
  BY DEF Stage
<1>5. asked \in Shape
  BY <1>2, <1>3, <1>4 DEF Shape
<1>6. /\ asked.input = e.input /\ asked.document = e.document
      /\ asked.subject = subject /\ asked.at = "limiter" /\ asked.charged = identity
  BY <1>3 DEF Shape
<1> HIDE DEF asked
<1>7. CASE route.rateLimit = "none"
  <2>1. n = Ended(checked, "allowed")
    BY <1>7 DEF Proceed, checked
  <2>2. "allowed" \in Verdict
    BY DEF Verdict
  <2> QED
    BY <1>3, <1>7, <2>1, <2>2, EndedIs
<1>8. CASE route.rateLimit # "none" /\ identity # ""
  <2>1. n = asked
    BY <1>8 DEF Proceed, checked, asked, identity
  <2> QED
    BY <1>5, <1>6, <1>8, <2>1 DEF identity
<1>9. CASE route.rateLimit # "none" /\ identity = ""
  <2>1. PICK v \in {"jwt_subject_unavailable", "client_identity_unavailable"} : n = Ended(checked, v)
    BY <1>1, <1>9 DEF Proceed, checked, identity
  <2>2. v \in Verdict /\ v # "allowed"
    BY DEF Verdict
  <2>3. n \in Shape /\ n.input = checked.input /\ n.document = checked.document
        /\ n.subject = checked.subject /\ n.at = "done" /\ n.charged = checked.charged
        /\ n.verdict # "allowed"
    <3> HIDE <2>1
    <3> QED
      BY <1>3, <2>1, <2>2, EndedIs
  <2> QED
    BY <1>3, <1>9, <2>3
<1> QED
  BY <1>7, <1>8, <1>9

LEMMA Shapes ==
  /\ Evaluation \subseteq Shape
  /\ \A n \in Shape : n.at # "started" => n \in Evaluation
<1>1. {"jwt", "limiter", "done"} \subseteq Stage
  BY DEF Stage
<1>2. Evaluation \subseteq Shape
  BY <1>1 DEF Evaluation, Shape
<1>3. ASSUME NEW n \in Shape, n.at # "started" PROVE n \in Evaluation
  <2>1. n.at \in {"jwt", "limiter", "done"}
    BY <1>3 DEF Shape, Stage
  <2> QED
    BY <2>1 DEF Shape, Evaluation
<1> QED
  BY <1>2, <1>3

\* The route of an evaluation.
LEMMA TheRoute ==
  ASSUME NEW e \in Shape, Compiles(e.document), NEW route \in RoutesOf(e)
  PROVE  /\ RoutesOf(e) = {route}
         /\ route \in Route
         /\ \A a, b \in route.jwt : a = b
<1>1. e.document \in Documents /\ e.input \in Inputs
  BY DEF Shape
<1>2. e.input.path \in Seq(STRING)
  BY <1>1, InputTypes
<1>3. route \in Resolve(Compile(e.document), e.input.method, e.input.path)
  BY Zenon DEF RoutesOf
<1>4. /\ Resolve(Compile(e.document), e.input.method, e.input.path) = {route}
      /\ route \in Route
      /\ \A a, b \in route.jwt : a = b
  <2> DEFINE d == e.document
             m == e.input.method
             p == e.input.path
  <2>1. d \in Documents /\ Compiles(d) /\ p \in Seq(STRING) /\ route \in Resolve(Compile(d), m, p)
    BY <1>1, <1>2, <1>3
  <2> HIDE DEF d, m, p
  <2>2. /\ Resolve(Compile(d), m, p) = {route}
        /\ route \in Route
        /\ \A a, b \in route.jwt : a = b
    BY <2>1, ResolvedRoute
  <2> QED
    BY <2>2 DEF d, m, p
<1> QED
  BY <1>4, Zenon DEF RoutesOf

\* What is known of the one route is known of all.
LEMMA Sent ==
  ASSUME NEW n \in Shape, n.at # "started", Compiles(n.document),
         Underway(n) => Portable(n.document),
         NEW route \in RoutesOf(n), AtRoute(n, route), n.at = "jwt" => n.charged = ""
  PROVE  EvaluationOK(n)
<1>1. RoutesOf(n) = {route}
  BY TheRoute
<1>2. n \in Evaluation
  BY Shapes
<1> QED
  BY <1>1, <1>2 DEF EvaluationOK

\* evaluate() from the rate limit on, when the earlier stages are passed.
LEMMA Proceeds ==
  ASSUME NEW e \in Shape, Compiles(e.document), Portable(e.document),
         NEW route \in RoutesOf(e), NEW subject \in Text,
         e.charged = "", Passed(e, route),
         subject # "" => \E token \in e.input.token : token.sub = subject
  PROVE  EvaluationOK(Proceed(e, route, subject))
<1> DEFINE n == Proceed(e, route, subject)
<1>2. route \in Route
  BY TheRoute
<1>3. /\ n \in Shape
      /\ n.input = e.input /\ n.document = e.document /\ n.subject = subject
      /\ \/ route.rateLimit = "none" /\ n.at = "done" /\ n.charged = e.charged
         \/ /\ route.rateLimit # "none" /\ n.at = "limiter"
            /\ n.charged = Identity(route, e.input, subject) /\ n.charged # ""
         \/ /\ route.rateLimit # "none" /\ n.at = "done" /\ n.charged = e.charged
            /\ n.verdict # "allowed"
  BY <1>2, ProceedIs
<1> HIDE DEF n
<1>4. RoutesOf(n) = RoutesOf(e)
  BY <1>3 DEF RoutesOf
<1>5. Passed(n, route)
  BY <1>3 DEF Passed
<1>6. n.charged # "" => Owned(n, route)
  <2> SUFFICES ASSUME n.charged # "" PROVE Owned(n, route)
    OBVIOUS
  <2>1. n.charged = Identity(route, e.input, subject)
    BY <1>3
  <2>2. CASE route.rateLimit = "jwt.sub"
    BY <1>3, <2>1, <2>2 DEF Owned, Identity
  <2>3. CASE route.rateLimit # "jwt.sub"
    BY <1>3, <2>1, <2>3 DEF Owned, Identity
  <2> QED
    BY <2>2, <2>3
<1>7. AtRoute(n, route)
  <2>1. n.at # "jwt" /\ (n.at = "limiter" => n.charged # "")
        /\ ((n.at = "done" /\ n.verdict = "allowed") => route.rateLimit = "none")
    BY <1>3
  <2> QED
    BY <1>5, <1>6, <2>1, Zenon DEF AtRoute
<1>8. n.at # "started" /\ n.at # "jwt" /\ Compiles(n.document) /\ Portable(n.document)
  BY <1>3
<1>9. EvaluationOK(n)
  BY <1>3, <1>4, <1>7, <1>8, Sent
<1> QED
  BY <1>9 DEF n

LEMMA Replaced ==
  ASSUME EngineInv, NEW r \in Requests, NEW n, n = Idle \/ EvaluationOK(n),
         evaluations' = [evaluations EXCEPT ![r] = n]
  PROVE  /\ evaluations' \in [Requests -> Evaluation \cup {Idle}]
         /\ \A q \in Requests : evaluations'[q] = Idle \/ EvaluationOK(evaluations'[q])
<1>1. n \in Evaluation \cup {Idle}
  BY DEF EvaluationOK
<1> QED
  BY <1>1 DEF EngineInv

LEMMA Waiting ==
  ASSUME EngineInv, NEW r \in Requests, evaluations[r].at # "idle"
  PROVE  EvaluationOK(evaluations[r]) /\ evaluations[r] \in Shape
<1>1. Idle.at = "idle"
  BY DEF Idle
<1>2. EvaluationOK(evaluations[r])
  BY <1>1 DEF EngineInv
<1> QED
  BY <1>2, Shapes DEF EvaluationOK

-----------------------------------------------------------------------------
(* The invariant                                                           *)

LEMMA InitialState == Init => EngineInv
  BY DEF Init, EngineInv

\* evaluate() up to its first await.
LEMMA DefaultStep ==
  ASSUME EngineInv, NEW r \in Requests, NEW input \in Inputs, EvaluateDefault(r, input)
  PROVE  EngineInv'
<1> DEFINE v == IF document.defaultDecision = "allow" THEN "allowed" ELSE "default_deny"
           n == Started(input, "done", v)
<1>1. v \in Verdict /\ "done" \in Stage /\ document \in Documents /\ Compiles(document)
  BY DEF Verdict, Stage, EngineInv
<1>2. v = "allowed" => document.defaultDecision = "allow"
  OBVIOUS
<1>3. evaluations' = [evaluations EXCEPT ![r] = n]
      /\ Resolve(Compile(document), input.method, input.path) = {}
      /\ Portable(document)
      /\ UNCHANGED <<document, resolvers>>
  BY <1>1, EnginesBuild DEF EvaluateDefault, Begins
<1> HIDE DEF v
<1>4. /\ n \in Shape /\ n.at = "done" /\ n.input = input /\ n.document = document
      /\ n.charged = "" /\ n.verdict = v
  <2>1. n \in Shape
    BY <1>1, Blank DEF Started, Shape
  <2> QED
    BY <2>1 DEF Started
<1> HIDE DEF n
<1>5. RoutesOf(n) = {}
  BY <1>3, <1>4 DEF RoutesOf
<1>6. n \in Evaluation
  BY <1>4, Shapes
<1>7. EvaluationOK(n)
  BY <1>1, <1>2, <1>3, <1>4, <1>5, <1>6 DEF EvaluationOK
<1> QED
  BY <1>3, <1>7, Replaced DEF EngineInv

\* A request that ends at once without being allowed, with an engine or without.
LEMMA RefusedAtOnce ==
  ASSUME EngineInv, NEW input \in Inputs, NEW verdict \in Verdict, verdict # "allowed"
  PROVE  EvaluationOK(Started(input, "done", verdict))
<1> DEFINE n == Started(input, "done", verdict)
<1>1. "done" \in Stage /\ document \in Documents /\ Compiles(document)
  BY DEF Stage, EngineInv
<1>2. /\ n \in Shape /\ n.at = "done" /\ n.input = input /\ n.document = document
      /\ n.charged = "" /\ n.verdict = verdict
  <2>1. n \in Shape
    BY <1>1, Blank DEF Started, Shape
  <2> QED
    BY <2>1 DEF Started
<1> HIDE DEF n
<1>3. n \in Evaluation /\ ~Underway(n)
  BY <1>2, Shapes DEF Underway
<1>4. \A route \in RoutesOf(n) : AtRoute(n, route)
  BY <1>2 DEF AtRoute
<1>5. EvaluationOK(n)
  BY <1>1, <1>2, <1>3, <1>4 DEF EvaluationOK
<1> QED
  BY <1>5 DEF n

\* No engine can be built.
LEMMA FailsStep ==
  ASSUME EngineInv, NEW r \in Requests, NEW input \in Inputs, EvaluateFails(r, input)
  PROVE  EngineInv'
<1>1. "policy_evaluation_failed" \in Verdict
  BY DEF Verdict
<1>2. EvaluationOK(Started(input, "done", "policy_evaluation_failed"))
  BY <1>1, RefusedAtOnce
<1>3. evaluations' = [evaluations EXCEPT ![r] = Started(input, "done", "policy_evaluation_failed")]
      /\ UNCHANGED <<document, resolvers>>
  BY DEF EvaluateFails
<1> QED
  BY <1>2, <1>3, Replaced DEF EngineInv

LEMMA BlockedStep ==
  ASSUME EngineInv, NEW r \in Requests, NEW input \in Inputs, EvaluateBlocked(r, input)
  PROVE  EngineInv'
<1>1. PICK route \in Resolve(Compile(document), input.method, input.path) : Blocked(route.waf, input)
  BY DEF EvaluateBlocked
<1>2. "waf_blocked" \in Verdict
  BY DEF Verdict
<1>3. EvaluationOK(Started(input, "done", "waf_blocked"))
  BY <1>1, <1>2, RefusedAtOnce
<1>4. evaluations' = [evaluations EXCEPT ![r] = Started(input, "done", "waf_blocked")]
      /\ UNCHANGED <<document, resolvers>>
  BY DEF EvaluateBlocked
<1> QED
  BY <1>3, <1>4, Replaced DEF EngineInv

LEMMA JwtStep ==
  ASSUME EngineInv, NEW r \in Requests, NEW input \in Inputs, EvaluateJwt(r, input)
  PROVE  EngineInv'
<1>1. PICK route \in Resolve(Compile(document), input.method, input.path) :
        /\ ~Blocked(route.waf, input)
        /\ \E policy \in route.jwt :
            \/ /\ evaluations' = [evaluations EXCEPT ![r] = Started(input, "done", "jwt_invalid")]
               /\ UNCHANGED resolvers
            \/ /\ resolvers' = ResolversWith(policy)
               /\ evaluations' = [evaluations EXCEPT ![r] =
                    [Started(input, "jwt", "none") EXCEPT !.keys = resolvers'[ResolverKey(policy)]]]
  BY Zenon DEF EvaluateJwt
<1>2. document' = document /\ document \in Documents /\ Compiles(document)
  BY DEF EvaluateJwt, EngineInv
<1>3. PICK policy \in route.jwt :
        \/ /\ evaluations' = [evaluations EXCEPT ![r] = Started(input, "done", "jwt_invalid")]
           /\ UNCHANGED resolvers
        \/ /\ resolvers' = ResolversWith(policy)
           /\ evaluations' = [evaluations EXCEPT ![r] =
                [Started(input, "jwt", "none") EXCEPT !.keys = resolvers'[ResolverKey(policy)]]]
  BY <1>1, Zenon
<1>4. CASE evaluations' = [evaluations EXCEPT ![r] = Started(input, "done", "jwt_invalid")]
           /\ UNCHANGED resolvers
  <2>1. "jwt_invalid" \in Verdict
    BY DEF Verdict
  <2>2. EvaluationOK(Started(input, "done", "jwt_invalid"))
    BY <2>1, RefusedAtOnce
  <2> QED
    BY <1>2, <1>4, <2>2, Replaced DEF EngineInv
<1>5. CASE /\ resolvers' = ResolversWith(policy)
           /\ evaluations' = [evaluations EXCEPT ![r] =
                [Started(input, "jwt", "none") EXCEPT !.keys = resolvers'[ResolverKey(policy)]]]
  <2>1. /\ route \in Route /\ \A a, b \in route.jwt : a = b
        /\ policy.jwksUrl \in STRING
    <3>1. input.path \in Seq(STRING)
      BY InputTypes
    <3>2. route \in Route /\ \A a, b \in route.jwt : a = b
      BY <1>2, <3>1, ResolvedRoute
    <3> QED
      BY <3>2, RouteTypes
  <2>2. /\ \A key \in DOMAIN resolvers' : key \in STRING /\ resolvers'[key] = key
        /\ resolvers'[ResolverKey(policy)] = policy.jwksUrl
    BY <1>5, <2>1 DEF ResolversWith, ResolverKey, EngineInv
  <2> DEFINE s == Started(input, "jwt", "none")
             n == [s EXCEPT !.keys = policy.jwksUrl]
  <2>3. "jwt" \in Stage /\ "none" \in Verdict /\ policy.jwksUrl \in Text
    BY <2>1 DEF Stage, Verdict, Text
  <2>4. /\ s \in Shape /\ s.at = "jwt" /\ s.input = input /\ s.document = document
        /\ s.charged = ""
    <3>1. s \in Shape
      BY <1>2, <2>3, Blank DEF Started, Shape
    <3> QED
      BY <3>1 DEF Started
  <2> HIDE DEF s
  <2>5. n \in Shape
    BY <2>3, <2>4 DEF Shape
  <2>6. /\ n.at = "jwt" /\ n.input = input /\ n.document = document
        /\ n.charged = "" /\ n.keys = policy.jwksUrl
    BY <2>4 DEF Shape
  <2>7. evaluations' = [evaluations EXCEPT ![r] = n]
    BY <1>5, <2>2 DEF s
  <2> HIDE DEF n
  <2>8. route \in RoutesOf(n)
    BY <2>6 DEF RoutesOf
  <2>9. AtRoute(n, route)
    BY <1>1, <2>1, <2>6 DEF AtRoute
  <2>10. Portable(document)
    BY <1>2, EnginesBuild DEF EvaluateJwt, Begins
  <2>11. EvaluationOK(n)
    BY <1>2, <2>5, <2>6, <2>8, <2>9, <2>10, Sent
  <2> QED
    BY <1>2, <2>2, <2>7, <2>11, Replaced DEF EngineInv
<1> QED
  BY <1>3, <1>4, <1>5

LEMMA OpenStep ==
  ASSUME EngineInv, NEW r \in Requests, NEW input \in Inputs, EvaluateOpen(r, input)
  PROVE  EngineInv'
<1> DEFINE s == Started(input, "started", "none")
<1>1. PICK route \in Resolve(Compile(document), input.method, input.path) :
        /\ ~Blocked(route.waf, input) /\ route.jwt = {}
        /\ evaluations' = [evaluations EXCEPT ![r] = Proceed(s, route, "")]
  BY Zenon DEF EvaluateOpen
<1>2. /\ document \in Documents /\ Compiles(document) /\ UNCHANGED <<document, resolvers>>
      /\ "started" \in Stage /\ "none" \in Verdict
  BY DEF EvaluateOpen, EngineInv, Stage, Verdict
<1>2a. Portable(document)
  BY <1>2, EnginesBuild DEF EvaluateOpen, Begins
<1>3. s \in Shape /\ s.input = input /\ s.document = document /\ s.charged = ""
  <2>1. s \in Shape
    BY <1>2, Blank DEF Started, Shape
  <2> QED
    BY <2>1 DEF Started
<1> HIDE DEF s
<1>4. route \in RoutesOf(s)
  BY <1>3 DEF RoutesOf
<1>5. Passed(s, route)
  BY <1>1, <1>3 DEF Passed
<1>6. EvaluationOK(Proceed(s, route, ""))
  BY <1>2, <1>2a, <1>3, <1>4, <1>5, Blank, Proceeds
<1> QED
  BY <1>1, <1>2, <1>6, Replaced DEF EngineInv

\* The token is verified by the key set and the issuer of the one policy.
LEMMA VerifyStep ==
  ASSUME EngineInv, NEW r \in Requests, VerifyJwt(r)
  PROVE  EngineInv'
<1> DEFINE e == evaluations[r]
<1>1. PICK route \in RoutesOf(e), token \in e.input.token :
        /\ token.key = e.keys
        /\ \E policy \in route.jwt : token.issuer = policy.issuer
        /\ evaluations' = [evaluations EXCEPT ![r] = Proceed(e, route, token.sub)]
  BY Zenon DEF VerifyJwt
<1>2. e.at = "jwt" /\ UNCHANGED <<document, resolvers>>
  BY DEF VerifyJwt
<1>3. EvaluationOK(e) /\ e \in Shape
  BY <1>2, Waiting
<1> HIDE DEF e
<1>4. /\ Compiles(e.document) /\ Portable(e.document)
      /\ e.charged = "" /\ ~Blocked(route.waf, e.input)
      /\ \A policy \in route.jwt : e.keys = policy.jwksUrl
  BY <1>1, <1>2, <1>3 DEF EvaluationOK, AtRoute, Underway
<1>5. \A a, b \in route.jwt : a = b
  BY <1>1, <1>3, <1>4, TheRoute
<1>6. Passed(e, route)
  BY <1>1, <1>4, <1>5 DEF Passed
<1>7. token.sub \in Text
  <2>1. e.input \in Inputs
    BY <1>3 DEF Shape
  <2>2. token.sub \in STRING
    BY <2>1, InputTypes
  <2> QED
    BY <2>2 DEF Text
<1>8. EvaluationOK(Proceed(e, route, token.sub))
  BY <1>3, <1>4, <1>6, <1>7, Proceeds
<1> QED
  BY <1>1, <1>2, <1>8, Replaced DEF EngineInv

LEMMA RejectStep ==
  ASSUME EngineInv, NEW r \in Requests, RejectJwt(r)
  PROVE  EngineInv'
<1> DEFINE e == evaluations[r]
           n == Ended(e, "jwt_invalid")
<1>1. /\ e.at = "jwt" /\ UNCHANGED <<document, resolvers>>
      /\ evaluations' = [evaluations EXCEPT ![r] = n]
  BY DEF RejectJwt
<1>2. EvaluationOK(e) /\ e \in Shape
  BY <1>1, Waiting
<1> HIDE DEF e
<1>3. "jwt_invalid" \in Verdict /\ "jwt_invalid" # "allowed"
  BY DEF Verdict
<1>4. /\ n \in Shape /\ n.at = "done" /\ n.input = e.input /\ n.document = e.document
      /\ n.charged = e.charged /\ n.verdict = "jwt_invalid"
  BY <1>2, <1>3, EndedIs
<1> HIDE DEF n
<1>5. RoutesOf(n) = RoutesOf(e) /\ RoutesOf(e) # {} /\ Compiles(n.document) /\ n.charged = ""
  BY <1>1, <1>2, <1>4 DEF RoutesOf, EvaluationOK
<1>6. PICK route \in RoutesOf(n) : TRUE
  BY <1>5
<1>7. AtRoute(n, route)
  BY <1>4, <1>5 DEF AtRoute
<1>8. EvaluationOK(n)
  BY <1>4, <1>5, <1>7, Sent DEF Underway
<1> QED
  BY <1>1, <1>8, Replaced DEF EngineInv

LEMMA CheckStep ==
  ASSUME EngineInv, NEW r \in Requests,
         NEW v \in {"allowed", "rate_limited", "rate_limiter_unavailable"}, CheckReturns(r, v)
  PROVE  EngineInv'
<1> DEFINE e == evaluations[r]
           n == Ended(e, v)
<1>1. /\ e.at = "limiter" /\ UNCHANGED <<document, resolvers>>
      /\ evaluations' = [evaluations EXCEPT ![r] = n]
  BY DEF CheckReturns
<1>2. EvaluationOK(e) /\ e \in Shape
  BY <1>1, Waiting
<1> HIDE DEF e
<1>3. v \in Verdict
  BY DEF Verdict
<1>4. /\ n \in Shape /\ n.at = "done" /\ n.input = e.input /\ n.document = e.document
      /\ n.charged = e.charged /\ n.subject = e.subject
  BY <1>2, <1>3, EndedIs
<1> HIDE DEF n
<1>5. RoutesOf(n) = RoutesOf(e) /\ RoutesOf(e) # {} /\ Compiles(n.document)
  BY <1>1, <1>2, <1>4 DEF RoutesOf, EvaluationOK
<1>6. PICK route \in RoutesOf(n) : TRUE
  BY <1>5
<1>7. Passed(e, route) /\ e.charged # "" /\ Owned(e, route)
  BY <1>1, <1>2, <1>5, <1>6 DEF EvaluationOK, AtRoute
<1>8. Passed(n, route) /\ n.charged # "" /\ Owned(n, route)
  BY <1>4, <1>7 DEF Passed, Owned
<1>9. AtRoute(n, route)
  BY <1>4, <1>8 DEF AtRoute
<1>10. Portable(n.document)
  BY <1>1, <1>2, <1>4 DEF EvaluationOK, Underway
<1>11. EvaluationOK(n)
  BY <1>4, <1>5, <1>9, <1>10, Sent
<1> QED
  BY <1>1, <1>11, Replaced DEF EngineInv

LEMMA InvariantStep ==
  ASSUME EngineInv, [Next]_vars
  PROVE  EngineInv'
<1>1. ASSUME NEW d \in Documents, Publish(d) PROVE EngineInv'
  BY <1>1 DEF Publish, EngineInv
<1>2. ASSUME NEW r \in Requests, Reuse(r) PROVE EngineInv'
  <2>1. evaluations' = [evaluations EXCEPT ![r] = Idle] /\ UNCHANGED <<document, resolvers>>
    BY <1>2 DEF Reuse
  <2> QED
    BY <2>1, Replaced DEF EngineInv
<1>3. CASE UNCHANGED vars
  BY <1>3 DEF vars, EngineInv
<1> QED
  BY <1>1, <1>2, <1>3, FailsStep, DefaultStep, BlockedStep, JwtStep, OpenStep, VerifyStep, RejectStep,
     CheckStep DEF Next

LEMMA EngineInvariant == Spec => []EngineInv
  BY InitialState, InvariantStep, PTL DEF Spec

\* An evaluation is where a reader of its document would expect it.
LEMMA WhereItBelongs ==
  ASSUME NEW e, EvaluationOK(e)
  PROVE  RoutesOf(e) = FirstMatch(e.document, e.input.method, e.input.path)
<1>1. e.document \in Documents /\ Compiles(e.document) /\ e.input \in Inputs
  BY DEF EvaluationOK, Evaluation
<1>2. e.input.path \in Seq(STRING)
  BY <1>1, InputTypes
<1> DEFINE d == e.document
           m == e.input.method
           p == e.input.path
<1>3. d \in Documents /\ Compiles(d) /\ p \in Seq(STRING)
  BY <1>1, <1>2
<1> HIDE DEF d, m, p
<1>4. Resolve(Compile(d), m, p) = FirstMatch(d, m, p)
  BY <1>3, RoutesAgree
<1> QED
  BY <1>4 DEF RoutesOf, d, m, p

-----------------------------------------------------------------------------
(* Theorems                                                                *)

\* Every reachable state has its type: resolvers hold URLs of key sets,
\* evaluations are records of the documents and requests there are.
THEOREM EngineTypeCorrect == Spec => []TypeOK
<1>1. EngineInv => TypeOK
  BY DEF EngineInv, TypeOK
<1> QED
  BY <1>1, EngineInvariant, PTL

\* Whatever documents there are: the tables and expressions that the compiler
\* makes of one that it accepts send every request to the route that a reader
\* of the document would choose, and nothing but a pattern that JavaScript does
\* not accept makes the edge's constructors refuse them.
THEOREM CompiledAsDocumented == Spec => RoutesAsDocumented
<1>1. ASSUME EngineInv', document' # document
      PROVE  /\ Portable(document') => EngineBuilds(Compile(document'))
             /\ \A m \in Methods, p \in Paths :
                  Resolve(Compile(document'), m, p) = FirstMatch(document', m, p)
  <2>1. document' \in Documents /\ Compiles(document')
    BY <1>1 DEF EngineInv
  <2>2. \A p \in Paths : p \in Seq(STRING)
    BY InputTypes DEF Paths
  <2> DEFINE d == document'
  <2>3. d \in Documents /\ Compiles(d)
    BY <2>1
  <2> HIDE DEF d
  <2>4. Portable(d) => EngineBuilds(Compile(d))
    BY <2>3, EnginesBuild
  <2>5. \A m \in Methods, p \in Paths : Resolve(Compile(d), m, p) = FirstMatch(d, m, p)
    BY <2>2, <2>3, RoutesAgree
  <2> QED
    BY <2>4, <2>5 DEF d
<1> QED
  BY <1>1, EngineInvariant, PTL DEF RoutesAsDocumented

\* For any number of requests and publications: a request is allowed only if
\* the document in force at its start has been enforced in full, and never under
\* one with a rule that the edge cannot read.
THEOREM AllowedMeansEnforced == Spec => []EnforcedInFull
<1>1. EngineInv => EnforcedInFull
  <2> SUFFICES ASSUME EngineInv, NEW r \in Requests,
                      evaluations[r].at = "done", evaluations[r].verdict = "allowed"
               PROVE  LET e == evaluations[r]
                          routes == FirstMatch(e.document, e.input.method, e.input.path)
                      IN /\ Portable(e.document)
                         /\ routes = {} => e.document.defaultDecision = "allow"
                         /\ \A route \in routes :
                              /\ \A rule \in route.waf :
                                   rule.action = "block" => rule.target \notin e.input.tainted
                              /\ \A policy \in route.jwt :
                                   \E token \in e.input.token : token.issuer = policy.issuer
                              /\ route.rateLimit # "none" => e.charged # ""
    BY Zenon DEF EnforcedInFull
  <2> DEFINE e == evaluations[r]
             routes == FirstMatch(e.document, e.input.method, e.input.path)
  <2>1. EvaluationOK(e) /\ e.at = "done" /\ e.verdict = "allowed"
    BY Waiting
  <2> HIDE DEF e
  <2>2. RoutesOf(e) = routes
    BY <2>1, WhereItBelongs
  <2> HIDE DEF routes
  <2>3. Portable(e.document) /\ (routes = {} => e.document.defaultDecision = "allow")
    BY <2>1, <2>2 DEF EvaluationOK, Underway
  <2>4. ASSUME NEW route \in routes
        PROVE  Passed(e, route) /\ (route.rateLimit # "none" => e.charged # "")
    BY <2>1, <2>2 DEF EvaluationOK, AtRoute
  <2>5. ASSUME NEW route \in routes
        PROVE  /\ \A rule \in route.waf : rule.action = "block" => rule.target \notin e.input.tainted
               /\ \A policy \in route.jwt :
                    \E token \in e.input.token : token.issuer = policy.issuer
    BY <2>4 DEF Passed, Blocked
  <2> QED
    BY <2>3, <2>4, <2>5 DEF e, routes
<1> QED
  BY <1>1, EngineInvariant, PTL

\* For any identities: a limiter is asked only for the verified subject or the
\* address of the request itself.
THEOREM ChargesAreOwned == Spec => []ChargedToItsOwner
<1>1. EngineInv => ChargedToItsOwner
  <2> SUFFICES ASSUME EngineInv, NEW r \in Requests, evaluations[r].at # "idle",
                      evaluations[r].at # "jwt", evaluations[r].charged # "",
                      NEW route \in FirstMatch(evaluations[r].document, evaluations[r].input.method,
                                               evaluations[r].input.path)
               PROVE  Owned(evaluations[r], route)
    BY Zenon DEF ChargedToItsOwner, Owned
  <2> DEFINE e == evaluations[r]
  <2>1. EvaluationOK(e)
    BY Waiting
  <2>2. route \in RoutesOf(e)
    BY <2>1, WhereItBelongs
  <2> QED
    BY <2>1, <2>2 DEF EvaluationOK, AtRoute
<1> QED
  BY <1>1, EngineInvariant, PTL

\* For any key sets and any publications: a request gets past the verifier only
\* with a key from the key set that its own document names.
THEOREM VerifiedByTheRightKeys == Spec => []VerifiedByItsPolicy
<1>1. EngineInv => VerifiedByItsPolicy
  <2> SUFFICES ASSUME EngineInv, NEW r \in Requests,
                      \/ evaluations[r].at = "limiter"
                      \/ evaluations[r].at = "done" /\ evaluations[r].verdict = "allowed",
                      NEW route \in FirstMatch(evaluations[r].document, evaluations[r].input.method,
                                               evaluations[r].input.path)
               PROVE  Passed(evaluations[r], route)
    BY Zenon DEF VerifiedByItsPolicy, Passed
  <2> DEFINE e == evaluations[r]
  <2>1. EvaluationOK(e)
    BY Waiting
  <2>2. route \in RoutesOf(e)
    BY <2>1, WhereItBelongs
  <2> QED
    BY <2>1, <2>2 DEF EvaluationOK, AtRoute
<1> QED
  BY <1>1, EngineInvariant, PTL

=============================================================================
