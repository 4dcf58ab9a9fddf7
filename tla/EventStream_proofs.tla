------------------------- MODULE EventStream_proofs -------------------------
(***************************************************************************)
(* Proofs about the decoder of the event stream, for every text and every  *)
(* way of cutting it into chunks: what has been delivered is always what   *)
(* the whole text means.                                                   *)
(***************************************************************************)
EXTENDS EventStream, TLAPS, FiniteSetTheorems

-----------------------------------------------------------------------------
(* Sets of numbers in their order                                          *)

Rank(S, x) == Cardinality({y \in S : y <= x})

\* The rank of an element is a number between 1 and the size of the set.
LEMMA RankType ==
  ASSUME NEW S \in SUBSET Nat, IsFiniteSet(S), NEW x \in S
  PROVE  Rank(S, x) \in 1 .. Cardinality(S)
<1> DEFINE T == {y \in S : y <= x}
<1>1. T \subseteq S /\ x \in T
  OBVIOUS
<1>2. IsFiniteSet(T) /\ Cardinality(T) <= Cardinality(S)
  BY <1>1, FS_Subset
<1>3. Cardinality(T) # 0
  BY <1>1, <1>2, FS_EmptySet
<1>4. Cardinality(T) \in Nat /\ Cardinality(S) \in Nat
  BY <1>2, FS_CardinalityType
<1> HIDE DEF T
<1>5. Cardinality(T) \in 1 .. Cardinality(S)
  BY <1>2, <1>3, <1>4
<1> QED
  BY <1>5 DEF T, Rank

\* A greater element has a greater rank.
LEMMA RankGrows ==
  ASSUME NEW S \in SUBSET Nat, IsFiniteSet(S), NEW x \in S, NEW z \in S, x < z
  PROVE  Rank(S, x) < Rank(S, z)
<1> DEFINE T == {y \in S : y <= x}
           U == {y \in S : y <= z}
<1>0. x \in Nat /\ z \in Nat /\ ~(z <= x)
  OBVIOUS
<1>1. T \subseteq U /\ z \in U /\ z \notin T /\ U \subseteq S
  <2>1. \A y \in S : y \in Nat /\ (y <= x => y <= z)
    BY <1>0
  <2>2. z <= z
    BY <1>0
  <2> QED
    BY <1>0, <2>1, <2>2
<1>2. IsFiniteSet(U)
  BY <1>1, FS_Subset
<1> HIDE DEF T, U
<1>3. Cardinality(T) <= Cardinality(U) /\ IsFiniteSet(T)
  BY <1>1, <1>2, FS_Subset
<1>4. Cardinality(T) # Cardinality(U)
  BY <1>1, <1>2, FS_Subset
<1>5. Cardinality(T) \in Nat /\ Cardinality(U) \in Nat
  BY <1>2, <1>3, FS_CardinalityType
<1>6. Cardinality(T) < Cardinality(U)
  BY <1>3, <1>4, <1>5
<1> QED
  BY <1>6 DEF T, U, Rank

\* Every number up to the size of the set is the rank of an element: otherwise
\* two elements would share one.
LEMMA EveryRank ==
  ASSUME NEW S \in SUBSET Nat, IsFiniteSet(S), NEW k \in 1 .. Cardinality(S)
  PROVE  \E x \in S : Rank(S, x) = k
<1> SUFFICES ASSUME \A x \in S : Rank(S, x) # k PROVE FALSE
  OBVIOUS
<1> DEFINE n == Cardinality(S)
           I == 1 .. n
           T == I \ {k}
           rank == [x \in S |-> Rank(S, x)]
<1>1. n \in Nat
  BY FS_CardinalityType
<1> HIDE DEF n
<1>2. IsFiniteSet(I) /\ Cardinality(I) = n
  BY <1>1, FS_Interval
<1>3. k \in I
  BY DEF n
<1>4. IsFiniteSet(T) /\ Cardinality(T) = n - 1
  <2> HIDE DEF I
  <2>1. IsFiniteSet(I \ {k}) /\ Cardinality(I \ {k}) = IF k \in I THEN Cardinality(I) - 1 ELSE Cardinality(I)
    BY <1>2, FS_RemoveElement
  <2> QED
    BY <1>2, <1>3, <2>1
<1>5. \A x \in S : Rank(S, x) \in I
  BY RankType DEF n
<1>6. rank \in [S -> T]
  BY <1>5
<1>7. Cardinality(T) < Cardinality(S)
  BY <1>1, <1>4 DEF n
<1> HIDE DEF T, rank
<1>8. PICK x \in S, z \in S : x # z /\ rank[x] = rank[z]
  BY <1>4, <1>6, <1>7, FS_PigeonHole
<1>9. Rank(S, x) = Rank(S, z)
  BY <1>8 DEF rank
<1>10. x \in Nat /\ z \in Nat /\ (x < z \/ z < x)
  BY <1>8
<1>11. Rank(S, x) \in Nat /\ Rank(S, z) \in Nat
  BY <1>5
<1>12. Rank(S, x) < Rank(S, z) \/ Rank(S, z) < Rank(S, x)
  BY <1>10, RankGrows
<1> QED
  BY <1>9, <1>11, <1>12

\* Ordered lists elements of the set.
LEMMA OrderedElements ==
  ASSUME NEW S \in SUBSET Nat, IsFiniteSet(S)
  PROVE  /\ Cardinality(S) \in Nat
         /\ DOMAIN Ordered(S) = 1 .. Cardinality(S)
         /\ \A k \in 1 .. Cardinality(S) : Ordered(S)[k] \in S
<1>1. Cardinality(S) \in Nat
  BY FS_CardinalityType
<1>2. DOMAIN Ordered(S) = 1 .. Cardinality(S)
  BY DEF Ordered
<1>3. ASSUME NEW k \in 1 .. Cardinality(S)
      PROVE  Ordered(S)[k] \in S
  <2> DEFINE T == {x \in S : Cardinality({y \in S : y <= x}) = k}
  <2>1. Ordered(S)[k] = TheOnly(T)
    BY DEF Ordered
  <2>2. \E x \in S : x \in T
    BY EveryRank DEF Rank
  <2>3. TheOnly(T) \in T
    BY <2>2 DEF TheOnly
  <2> QED
    BY <2>1, <2>3
<1> QED
  BY <1>1, <1>2, <1>3

\* A new greatest element comes last; the others keep their places.
LEMMA OrderedAdd ==
  ASSUME NEW S \in SUBSET Nat, IsFiniteSet(S), NEW e \in Nat, \A x \in S : x < e
  PROVE  /\ Cardinality(S \cup {e}) = Cardinality(S) + 1
         /\ Ordered(S \cup {e}) =
              [k \in 1 .. Cardinality(S) + 1 |->
                 IF k = Cardinality(S) + 1 THEN e ELSE Ordered(S)[k]]
<1> DEFINE n == Cardinality(S)
           W == S \cup {e}
           At(V, k) == {x \in V : Cardinality({y \in V : y <= x}) = k}
<1>1. n \in Nat
  BY FS_CardinalityType
<1>2. e \notin S
  OBVIOUS
<1>3. Cardinality(W) = n + 1 /\ IsFiniteSet(W)
  BY <1>2, FS_AddElement
<1>4. ASSUME NEW x \in S
      PROVE  {y \in W : y <= x} = {y \in S : y <= x}
  <2>1. ~(e <= x)
    OBVIOUS
  <2> QED
    BY <2>1
<1>5. {y \in W : y <= e} = W
  <2>1. \A y \in W : y <= e
    OBVIOUS
  <2> QED
    BY <2>1
<1>6. \A x \in S : Cardinality({y \in S : y <= x}) \in 1 .. n
  BY RankType DEF Rank
<1> HIDE DEF n
<1>7. ASSUME NEW k \in 1 .. n
      PROVE  At(W, k) = At(S, k)
  <2>1. k # n + 1
    BY <1>1
  <2> QED
    BY <1>3, <1>4, <1>5, <2>1
<1>8. At(W, n + 1) = {e}
  <2>1. n + 1 \notin 1 .. n
    BY <1>1
  <2> QED
    BY <1>3, <1>4, <1>5, <1>6, <2>1
<1>9. TheOnly({e}) = e
  BY DEF TheOnly
<1> HIDE DEF At, W
<1>10. Ordered(W) = [k \in 1 .. n + 1 |-> TheOnly(At(W, k))]
  BY <1>3 DEF Ordered, At
<1>11. Ordered(S) = [k \in 1 .. n |-> TheOnly(At(S, k))]
  BY DEF Ordered, At, n
<1>12. ASSUME NEW k \in 1 .. n + 1
       PROVE  TheOnly(At(W, k)) = IF k = n + 1 THEN e ELSE Ordered(S)[k]
  <2>1. k = n + 1 \/ (k \in 1 .. n /\ k # n + 1)
    BY <1>1
  <2> QED
    BY <1>7, <1>8, <1>9, <1>11, <2>1
<1>13. Ordered(W) = [k \in 1 .. n + 1 |-> IF k = n + 1 THEN e ELSE Ordered(S)[k]]
  BY <1>10, <1>12
<1> QED
  BY <1>3, <1>13 DEF W, n

\* A finite set of numbers that is not empty has a greatest element: the one
\* whose rank is the size of the set.
LEMMA MaxInSet ==
  ASSUME NEW S \in SUBSET Nat, IsFiniteSet(S), S # {}
  PROVE  Max(S) \in S /\ \A y \in S : Max(S) >= y
<1>1. Cardinality(S) \in Nat /\ Cardinality(S) # 0
  BY FS_CardinalityType, FS_EmptySet
<1>2. Cardinality(S) \in 1 .. Cardinality(S)
  BY <1>1
<1>3. PICK x \in S : Rank(S, x) = Cardinality(S)
  BY <1>2, EveryRank
<1> DEFINE T == {y \in S : y <= x}
<1>4. T \in SUBSET S /\ Cardinality(S) = Cardinality(T)
  BY <1>3 DEF Rank
<1> HIDE DEF T
<1>5. S = T
  BY <1>4, FS_Subset
<1>6. \A y \in S : x >= y
  BY <1>5 DEF T
<1> QED
  BY <1>6 DEF Max

\* It has a least element too: the one whose rank is 1.
LEMMA FirstInSet ==
  ASSUME NEW S \in SUBSET Nat, IsFiniteSet(S), S # {}
  PROVE  FirstOf(S) \in S /\ \A y \in S : FirstOf(S) <= y
<1>1. Cardinality(S) \in Nat /\ Cardinality(S) # 0
  BY FS_CardinalityType, FS_EmptySet
<1>2. 1 \in 1 .. Cardinality(S)
  BY <1>1
<1>3. PICK x \in S : Rank(S, x) = 1
  BY <1>2, EveryRank
<1>4. ASSUME NEW y \in S, y < x
      PROVE  FALSE
  <2>1. Rank(S, y) \in 1 .. Cardinality(S)
    BY RankType
  <2>2. Rank(S, y) < 1
    BY <1>3, <1>4, RankGrows
  <2> QED
    BY <1>1, <2>1, <2>2
<1>5. \A y \in S : x <= y
  BY <1>4
<1> QED
  BY <1>5 DEF FirstOf

\* A new greatest element is the greatest.
LEMMA MaxAdd ==
  ASSUME NEW S \in SUBSET Nat, NEW e \in Nat, \A x \in S : x < e
  PROVE  Max(S \cup {e}) = e
<1> DEFINE W == S \cup {e}
<1>1. e \in W /\ \A y \in W : e >= y
  OBVIOUS
<1>2. \A x \in W : (\A y \in W : x >= y) => x = e
  OBVIOUS
<1> HIDE DEF W
<1>3. Max(W) = e
  BY <1>1, <1>2 DEF Max
<1> QED
  BY <1>3 DEF W

\* A sequence with one more place, as a function.
LEMMA AppendAsFunction ==
  ASSUME NEW S, NEW d \in Seq(S), NEW v
  PROVE  Append(d, v) = [k \in 1 .. Len(d) + 1 |-> IF k = Len(d) + 1 THEN v ELSE d[k]]
<1> DEFINE T == S \cup {v}
           w == Append(d, v)
<1>1. d \in Seq(T) /\ v \in T
  OBVIOUS
<1> HIDE DEF T
<1>2. Len(d) \in Nat /\ w \in Seq(T) /\ Len(w) = Len(d) + 1
  BY <1>1
<1>3. \A k \in 1 .. Len(d) + 1 : w[k] = IF k = Len(d) + 1 THEN v ELSE d[k]
  BY <1>1
<1> HIDE DEF w
<1>4. w = [k \in 1 .. Len(d) + 1 |-> w[k]]
  BY <1>2
<1>5. w = [k \in 1 .. Len(d) + 1 |-> IF k = Len(d) + 1 THEN v ELSE d[k]]
  BY <1>3, <1>4
<1> QED
  BY <1>5 DEF w

-----------------------------------------------------------------------------
(* One more line                                                           *)

\* The lines Q are the lines P, all of which end by c, and one more that ends
\* at e.
Grows(P, c, e, line, Q) ==
  /\ c \in Nat
  /\ e \in Nat
  /\ c < e
  /\ DOMAIN P \subseteq 1 .. c
  /\ DOMAIN Q = DOMAIN P \cup {e}
  /\ Q[e] = line
  /\ \A x \in DOMAIN P : Q[x] = P[x]

\* The places of finitely many lines.
LEMMA GrownDomain ==
  ASSUME NEW P, NEW c \in Nat, DOMAIN P \subseteq 1 .. c, NEW S \in SUBSET DOMAIN P
  PROVE  S \in SUBSET Nat /\ IsFiniteSet(S)
<1> DEFINE I == 1 .. c
<1>1. IsFiniteSet(I)
  BY FS_Interval
<1>2. S \in SUBSET I
  OBVIOUS
<1>3. IsFiniteSet(S)
  <2> HIDE DEF I
  <2> QED
    BY <1>1, <1>2, FS_Subset
<1> QED
  BY <1>2, <1>3

\* A blank line closes the open block and leaves an empty one, any other line
\* joins it; the blocks before are not touched.
LEMMA BlockGrows ==
  ASSUME NEW P, NEW c, NEW e, NEW line, NEW Q, Grows(P, c, e, line, Q)
  PROVE  /\ Block(Q, e) = Block(P, c + 1)
         /\ line = <<>> => Block(Q, e + 1) = {}
         /\ line # <<>> => Block(Q, e + 1) = Block(P, c + 1) \cup {e}
         /\ \A x \in DOMAIN P : Block(Q, x) = Block(P, x)
<1> DEFINE D == DOMAIN P
<1>1. /\ \A x \in D : x \in Nat /\ x < c + 1 /\ x < e /\ x < e + 1 /\ x <= e /\ ~(e <= x) /\ ~(e < x)
      /\ e \notin D
      /\ ~(e < e) /\ e <= e /\ e < e + 1
  BY DEF Grows
<1>2. DOMAIN Q = D \cup {e} /\ Q[e] = line /\ \A x \in D : Q[x] = P[x]
  BY DEF Grows
<1> HIDE DEF D
<1>3. Block(P, c + 1) = {f \in D : \A g \in D : f <= g => P[g] # <<>>}
  BY <1>1 DEF Block, D
<1>4. Block(Q, e) = {f \in D : \A g \in D : f <= g => P[g] # <<>>}
  <2>1. ASSUME NEW f \in D
        PROVE  f \in Block(Q, e) <=> \A g \in D : f <= g => P[g] # <<>>
    BY <1>1, <1>2 DEF Block
  <2>2. Block(Q, e) \subseteq D
    BY <1>1, <1>2 DEF Block
  <2> QED
    BY <2>1, <2>2
<1>5. Block(Q, e + 1) = IF line = <<>> THEN {} ELSE Block(P, c + 1) \cup {e}
  <2>1. ASSUME NEW f \in D
        PROVE  f \in Block(Q, e + 1) <=> line # <<>> /\ \A g \in D : f <= g => P[g] # <<>>
    BY <1>1, <1>2 DEF Block
  <2>2. e \in Block(Q, e + 1) <=> line # <<>>
    BY <1>1, <1>2 DEF Block
  <2>3. Block(Q, e + 1) \subseteq D \cup {e}
    BY <1>2 DEF Block
  <2> QED
    BY <1>3, <2>1, <2>2, <2>3
<1>6. ASSUME NEW x \in D
      PROVE  Block(Q, x) = Block(P, x)
  <2>1. ASSUME NEW f \in D
        PROVE  f \in Block(Q, x) <=> f \in Block(P, x)
    BY <1>1, <1>2 DEF Block, D
  <2>2. Block(Q, x) \subseteq D /\ Block(P, x) \subseteq D
    BY <1>1, <1>2 DEF Block, D
  <2> QED
    BY <2>1, <2>2
<1> QED
  BY <1>3, <1>4, <1>5, <1>6 DEF D

\* The same for the lines of one field.
LEMMA FieldsGrow ==
  ASSUME NEW P, NEW c, NEW e, NEW line, NEW Q, NEW name, Grows(P, c, e, line, Q)
  PROVE  /\ FieldsOf(Q, e, name) = FieldsOf(P, c + 1, name)
         /\ line = <<>> => FieldsOf(Q, e + 1, name) = {}
         /\ line # <<>> /\ Field(line) = name =>
              FieldsOf(Q, e + 1, name) = FieldsOf(P, c + 1, name) \cup {e}
         /\ line # <<>> /\ Field(line) # name =>
              FieldsOf(Q, e + 1, name) = FieldsOf(P, c + 1, name)
<1>1. /\ Q[e] = line
      /\ \A x \in DOMAIN P : Q[x] = P[x]
  BY DEF Grows
<1>2. \A y : Block(P, y) \subseteq DOMAIN P
  BY DEF Block
<1>3. Block(Q, e) = Block(P, c + 1)
  BY BlockGrows
<1>3a. line = <<>> => Block(Q, e + 1) = {}
  BY BlockGrows
<1>3b. line # <<>> => Block(Q, e + 1) = Block(P, c + 1) \cup {e}
  BY BlockGrows
<1>4. ASSUME NEW T \in SUBSET DOMAIN P
      PROVE  {f \in T : Field(Q[f]) = name} = {f \in T : Field(P[f]) = name}
  BY <1>1
<1>5. FieldsOf(Q, e, name) = FieldsOf(P, c + 1, name)
  BY <1>2, <1>3, <1>4 DEF FieldsOf
<1>7. line = <<>> => FieldsOf(Q, e + 1, name) = {}
  BY <1>3a DEF FieldsOf
<1>8. ASSUME line # <<>>
      PROVE  FieldsOf(Q, e + 1, name) =
               IF Field(line) = name THEN FieldsOf(P, c + 1, name) \cup {e}
               ELSE FieldsOf(P, c + 1, name)
  <2> DEFINE T == Block(P, c + 1)
  <2>1. FieldsOf(Q, e + 1, name) = {f \in T \cup {e} : Field(Q[f]) = name}
    BY <1>3b, <1>8 DEF FieldsOf
  <2>2. FieldsOf(P, c + 1, name) = {f \in T : Field(Q[f]) = name}
    BY <1>2, <1>4 DEF FieldsOf
  <2> HIDE DEF T
  <2> QED
    BY <1>1, <2>1, <2>2
<1> QED
  BY <1>5, <1>7, <1>8

\* A line with the field joins its lines.
LEMMA FieldJoins ==
  ASSUME NEW P, NEW c, NEW e, NEW line, NEW Q, NEW name, Grows(P, c, e, line, Q),
         line # <<>>, Field(line) = name
  PROVE  FieldsOf(Q, e + 1, name) = FieldsOf(P, c + 1, name) \cup {e}
BY FieldsGrow

\* The closed blocks keep their fields.
LEMMA FieldsKept ==
  ASSUME NEW P, NEW c, NEW e, NEW line, NEW Q, NEW name, Grows(P, c, e, line, Q),
         NEW x \in DOMAIN P
  PROVE  FieldsOf(Q, x, name) = FieldsOf(P, x, name)
<1>1. Block(Q, x) = Block(P, x)
  BY BlockGrows
<1>2. Block(P, x) \subseteq DOMAIN P
  BY DEF Block
<1>3. \A f \in DOMAIN P : Q[f] = P[f]
  BY DEF Grows
<1> QED
  BY <1>1, <1>2, <1>3 DEF FieldsOf

\* Blocks with the same data lines have the same data.
LEMMA SameData ==
  ASSUME NEW P, NEW c, NEW e, NEW line, NEW Q, Grows(P, c, e, line, Q), NEW x, NEW y,
         FieldsOf(Q, x, <<"data">>) = FieldsOf(P, y, <<"data">>)
  PROVE  Data(Q, x) = Data(P, y)
<1> DEFINE S == FieldsOf(P, y, <<"data">>)
<1>1. S \subseteq DOMAIN P
  BY DEF FieldsOf, Block
<1>2. S \in SUBSET Nat /\ IsFiniteSet(S)
  BY <1>1, GrownDomain DEF Grows
<1> HIDE DEF S
<1>3. \A k \in DOMAIN Ordered(S) : Ordered(S)[k] \in DOMAIN P
  BY <1>1, <1>2, OrderedElements
<1>4. \A k \in DOMAIN Ordered(S) : Value(Q[Ordered(S)[k]]) = Value(P[Ordered(S)[k]])
  BY <1>3 DEF Grows
<1> QED
  BY <1>4 DEF Data, S

\* The data of the open block gains the value of a data line, and is empty
\* after a blank line.
LEMMA DataGrows ==
  ASSUME NEW P, NEW c, NEW e, NEW line, NEW Q, Grows(P, c, e, line, Q)
  PROVE  /\ Data(Q, e) = Data(P, c + 1)
         /\ line = <<>> => Data(Q, e + 1) = <<>>
         /\ line # <<>> /\ Field(line) = <<"data">> =>
              Data(Q, e + 1) = Append(Data(P, c + 1), Value(line))
         /\ line # <<>> /\ Field(line) # <<"data">> => Data(Q, e + 1) = Data(P, c + 1)
         /\ \A x \in DOMAIN P : Data(Q, x) = Data(P, x)
<1> DEFINE S == FieldsOf(P, c + 1, <<"data">>)
           n == Cardinality(S)
           o == Ordered(S)
           d == Data(P, c + 1)
<1>1. Data(Q, e) = Data(P, c + 1)
  <2>1. FieldsOf(Q, e, <<"data">>) = S
    BY FieldsGrow
  <2> QED
    BY <2>1, SameData
<1>2. ASSUME NEW x \in DOMAIN P
      PROVE  Data(Q, x) = Data(P, x)
  <2>1. FieldsOf(Q, x, <<"data">>) = FieldsOf(P, x, <<"data">>)
    BY FieldsKept
  <2> QED
    BY <2>1, SameData
<1>3. ASSUME line # <<>>, Field(line) # <<"data">>
      PROVE  Data(Q, e + 1) = Data(P, c + 1)
  <2>1. FieldsOf(Q, e + 1, <<"data">>) = S
    BY <1>3, FieldsGrow
  <2> QED
    BY <2>1, SameData
<1>4. ASSUME line = <<>>
      PROVE  Data(Q, e + 1) = <<>>
  <2>1. FieldsOf(Q, e + 1, <<"data">>) = {}
    BY <1>4, FieldsGrow
  <2>2. DOMAIN Ordered({}) = 1 .. 0
    BY FS_EmptySet DEF Ordered
  <2>3. Data(Q, e + 1) = [k \in 1 .. 0 |-> Value(Q[Ordered({})[k]])]
    BY <2>1, <2>2, Zenon DEF Data
  <2> QED
    BY <2>3
<1>5. ASSUME line # <<>>, Field(line) = <<"data">>
      PROVE  Data(Q, e + 1) = Append(Data(P, c + 1), Value(line))
  <2>1. FieldsOf(Q, e + 1, <<"data">>) = S \cup {e}
    BY <1>5, FieldJoins
  <2>2. S \subseteq DOMAIN P
    BY DEF FieldsOf, Block
  <2>3. S \in SUBSET Nat /\ IsFiniteSet(S) /\ e \in Nat /\ \A x \in S : x < e
    BY <2>2, GrownDomain DEF Grows
  <2> HIDE DEF S
  <2>4. n \in Nat /\ DOMAIN o = 1 .. n /\ \A k \in 1 .. n : o[k] \in DOMAIN P
    BY <2>2, <2>3, OrderedElements
  <2>5. Ordered(S \cup {e}) = [k \in 1 .. n + 1 |-> IF k = n + 1 THEN e ELSE o[k]]
    BY <2>3, OrderedAdd
  <2>6. d = [k \in 1 .. n |-> Value(P[o[k]])]
    BY <2>4 DEF Data, S
  <2>7. Data(Q, e + 1) =
          [k \in 1 .. n + 1 |-> Value(Q[IF k = n + 1 THEN e ELSE o[k]])]
    BY <2>1, <2>5 DEF Data, S
  <2> HIDE DEF n, o, d
  <2>8. \A k \in 1 .. n + 1 :
          Value(Q[IF k = n + 1 THEN e ELSE o[k]]) = IF k = n + 1 THEN Value(line) ELSE d[k]
    <3>1. Q[e] = line /\ \A x \in DOMAIN P : Q[x] = P[x]
      BY DEF Grows
    <3>2. \A k \in 1 .. n + 1 : k = n + 1 \/ (k \in 1 .. n /\ k # n + 1)
      BY <2>4
    <3>3. \A k \in 1 .. n : d[k] = Value(Q[o[k]])
      BY <2>4, <2>6, <3>1
    <3> QED
      BY <3>1, <3>2, <3>3
  <2>9. Data(Q, e + 1) = [k \in 1 .. n + 1 |-> IF k = n + 1 THEN Value(line) ELSE d[k]]
    BY <2>7, <2>8
  <2>10. d \in Seq({Value(P[o[k]]) : k \in 1 .. n}) /\ Len(d) = n
    BY <2>4, <2>6
  <2> QED
    BY <2>4, <2>9, <2>10 DEF d
<1> QED
  BY <1>1, <1>2, <1>3, <1>4, <1>5

\* Blocks with the same type lines have the same type.
LEMMA SameType ==
  ASSUME NEW P, NEW c, NEW e, NEW line, NEW Q, Grows(P, c, e, line, Q), NEW x, NEW y,
         FieldsOf(Q, x, <<"event">>) = FieldsOf(P, y, <<"event">>)
  PROVE  Type(Q, x) = Type(P, y)
<1> DEFINE S == FieldsOf(P, y, <<"event">>)
<1>1. S \subseteq DOMAIN P
  BY DEF FieldsOf, Block
<1>2. S \in SUBSET Nat /\ IsFiniteSet(S)
  BY <1>1, GrownDomain DEF Grows
<1> HIDE DEF S
<1>3. S # {} => Value(Q[Max(S)]) = Value(P[Max(S)])
  BY <1>1, <1>2, MaxInSet DEF Grows
<1> QED
  BY <1>3 DEF Type, S

\* The type of the open block is the value of the latest type line, and none
\* after a blank line.
LEMMA TypeGrows ==
  ASSUME NEW P, NEW c, NEW e, NEW line, NEW Q, Grows(P, c, e, line, Q)
  PROVE  /\ Type(Q, e) = Type(P, c + 1)
         /\ line = <<>> => Type(Q, e + 1) = <<>>
         /\ line # <<>> /\ Field(line) = <<"event">> => Type(Q, e + 1) = Value(line)
         /\ line # <<>> /\ Field(line) # <<"event">> => Type(Q, e + 1) = Type(P, c + 1)
<1> DEFINE S == FieldsOf(P, c + 1, <<"event">>)
<1>1. Type(Q, e) = Type(P, c + 1)
  <2>1. FieldsOf(Q, e, <<"event">>) = S
    BY FieldsGrow
  <2> QED
    BY <2>1, SameType
<1>2. ASSUME line # <<>>, Field(line) # <<"event">>
      PROVE  Type(Q, e + 1) = Type(P, c + 1)
  <2>1. FieldsOf(Q, e + 1, <<"event">>) = S
    BY <1>2, FieldsGrow
  <2> QED
    BY <2>1, SameType
<1>3. ASSUME line = <<>>
      PROVE  Type(Q, e + 1) = <<>>
  <2>1. FieldsOf(Q, e + 1, <<"event">>) = {}
    BY <1>3, FieldsGrow
  <2> QED
    BY <2>1 DEF Type
<1>4. ASSUME line # <<>>, Field(line) = <<"event">>
      PROVE  Type(Q, e + 1) = Value(line)
  <2>1. FieldsOf(Q, e + 1, <<"event">>) = S \cup {e}
    BY <1>4, FieldJoins
  <2>2. S \subseteq DOMAIN P
    BY DEF FieldsOf, Block
  <2>3. S \in SUBSET Nat /\ e \in Nat /\ \A x \in S : x < e
    BY <2>2 DEF Grows
  <2> HIDE DEF S
  <2>4. Max(S \cup {e}) = e /\ S \cup {e} # {}
    BY <2>3, MaxAdd
  <2>5. Q[e] = line
    BY DEF Grows
  <2> QED
    BY <2>1, <2>4, <2>5 DEF Type
<1> QED
  BY <1>1, <1>2, <1>3, <1>4

\* The closed blocks keep their events, and the block that e closes is the one
\* that was open.
LEMMA EventsKept ==
  ASSUME NEW P, NEW c, NEW e, NEW line, NEW Q, Grows(P, c, e, line, Q)
  PROVE  /\ EventAt(Q, e) = EventAt(P, c + 1)
         /\ \A x \in DOMAIN P : EventAt(Q, x) = EventAt(P, x)
<1>1. Data(Q, e) = Data(P, c + 1)
  BY DataGrows
<1>2. Type(Q, e) = Type(P, c + 1)
  BY TypeGrows
<1>3. ASSUME NEW x \in DOMAIN P
      PROVE  Data(Q, x) = Data(P, x)
  BY DataGrows
<1>4. ASSUME NEW x \in DOMAIN P
      PROVE  Type(Q, x) = Type(P, x)
  <2>1. FieldsOf(Q, x, <<"event">>) = FieldsOf(P, x, <<"event">>)
    BY FieldsKept
  <2> QED
    BY <2>1, SameType
<1> QED
  BY <1>1, <1>2, <1>3, <1>4 DEF EventAt

\* A block has data exactly when it has a data line.
LEMMA NoData ==
  ASSUME NEW P, NEW c \in Nat, DOMAIN P \subseteq 1 .. c, NEW x
  PROVE  Data(P, x) = <<>> <=> FieldsOf(P, x, <<"data">>) = {}
<1> DEFINE S == FieldsOf(P, x, <<"data">>)
<1>1. S \subseteq DOMAIN P
  BY DEF FieldsOf, Block
<1>2. S \in SUBSET Nat /\ IsFiniteSet(S)
  BY <1>1, GrownDomain
<1> HIDE DEF S
<1>3. Cardinality(S) \in Nat /\ DOMAIN Ordered(S) = 1 .. Cardinality(S)
  BY <1>2, OrderedElements
<1>4. Cardinality(S) = 0 <=> S = {}
  BY <1>2, FS_EmptySet
<1>5. DOMAIN Data(P, x) = 1 .. Cardinality(S)
  BY <1>3 DEF Data, S
<1>6. S = {} => Data(P, x) = <<>>
  <2> SUFFICES ASSUME S = {} PROVE Data(P, x) = <<>>
    OBVIOUS
  <2>1. DOMAIN Ordered(S) = 1 .. 0
    BY <1>3, <1>4
  <2>2. Data(P, x) = [k \in 1 .. 0 |-> Value(P[Ordered(S)[k]])]
    BY <2>1, Zenon DEF Data, S
  <2> QED
    BY <2>2
<1>7. Data(P, x) = <<>> => 1 .. Cardinality(S) = {}
  BY <1>5
<1>8. S # {} => 1 \in 1 .. Cardinality(S)
  BY <1>3, <1>4
<1> QED
  BY <1>6, <1>7, <1>8 DEF S

\* Only a blank line after data makes one more event.
LEMMA DeliveringGrows ==
  ASSUME NEW P, NEW c, NEW e, NEW line, NEW Q, Grows(P, c, e, line, Q)
  PROVE  Delivering(Q) = IF line = <<>> /\ Data(P, c + 1) # <<>>
                         THEN Delivering(P) \cup {e} ELSE Delivering(P)
<1> DEFINE S == FieldsOf(P, c + 1, <<"data">>)
<1>1. FieldsOf(Q, e, <<"data">>) = S
  BY FieldsGrow
<1>2. ASSUME NEW x \in DOMAIN P
      PROVE  FieldsOf(Q, x, <<"data">>) = FieldsOf(P, x, <<"data">>)
  BY FieldsKept
<1>3. /\ DOMAIN Q = DOMAIN P \cup {e}
      /\ Q[e] = line
      /\ \A x \in DOMAIN P : Q[x] = P[x]
      /\ e \notin DOMAIN P
  BY DEF Grows
<1>4. Data(P, c + 1) = <<>> <=> S = {}
  BY NoData DEF Grows
<1>5. ASSUME NEW x \in DOMAIN P
      PROVE  x \in Delivering(Q) <=> x \in Delivering(P)
  BY <1>2, <1>3 DEF Delivering
<1>6. e \in Delivering(Q) <=> line = <<>> /\ Data(P, c + 1) # <<>>
  BY <1>1, <1>3, <1>4 DEF Delivering
<1>7. Delivering(Q) \subseteq DOMAIN P \cup {e} /\ Delivering(P) \subseteq DOMAIN P
  BY <1>3 DEF Delivering
<1>8. CASE line = <<>> /\ Data(P, c + 1) # <<>>
  <2>1. Delivering(Q) = Delivering(P) \cup {e}
    BY <1>5, <1>6, <1>7, <1>8
  <2> QED
    BY <1>8, <2>1
<1>9. CASE ~(line = <<>> /\ Data(P, c + 1) # <<>>)
  <2>1. e \notin Delivering(Q)
    BY <1>6, <1>9
  <2>2. Delivering(Q) = Delivering(P)
    BY <1>5, <1>7, <2>1
  <2> QED
    BY <1>9, <2>2
<1> QED
  BY <1>8, <1>9

\* The events of the lines gain the event of the block that was open, when a
\* blank line closes it and it has data.
LEMMA EventsGrow ==
  ASSUME NEW P, NEW c, NEW e, NEW line, NEW Q, Grows(P, c, e, line, Q)
  PROVE  EventsOf(Q) = IF line = <<>> /\ Data(P, c + 1) # <<>>
                       THEN Append(EventsOf(P), EventAt(P, c + 1)) ELSE EventsOf(P)
<1> DEFINE S == Delivering(P)
           n == Cardinality(S)
           o == Ordered(S)
           d == EventsOf(P)
           v == EventAt(P, c + 1)
<1>1. S \subseteq DOMAIN P
  BY DEF Delivering
<1>2. S \in SUBSET Nat /\ IsFiniteSet(S) /\ e \in Nat /\ \A x \in S : x < e
  BY <1>1, GrownDomain DEF Grows
<1>3. Delivering(Q) = IF line = <<>> /\ Data(P, c + 1) # <<>> THEN S \cup {e} ELSE S
  BY DeliveringGrows
<1> HIDE DEF S
<1>4. n \in Nat /\ DOMAIN o = 1 .. n /\ \A k \in 1 .. n : o[k] \in DOMAIN P
  BY <1>1, <1>2, OrderedElements
<1>5. Ordered(S \cup {e}) = [k \in 1 .. n + 1 |-> IF k = n + 1 THEN e ELSE o[k]]
  BY <1>2, OrderedAdd
<1>6. d = [k \in 1 .. n |-> EventAt(P, o[k])]
  BY <1>4 DEF EventsOf, S
<1>7. EventAt(Q, e) = v
  BY EventsKept
<1>8. \A x \in DOMAIN P : EventAt(Q, x) = EventAt(P, x)
  BY EventsKept
<1>9. CASE line = <<>> /\ Data(P, c + 1) # <<>>
  <2>1. EventsOf(Q) = [k \in 1 .. n + 1 |-> EventAt(Q, IF k = n + 1 THEN e ELSE o[k])]
    BY <1>3, <1>5, <1>9 DEF EventsOf
  <2> HIDE DEF n, o, d, v
  <2>2. \A k \in 1 .. n + 1 :
          EventAt(Q, IF k = n + 1 THEN e ELSE o[k]) = IF k = n + 1 THEN v ELSE d[k]
    <3>1. \A k \in 1 .. n + 1 : k = n + 1 \/ (k \in 1 .. n /\ k # n + 1)
      BY <1>4
    <3>2. \A k \in 1 .. n : d[k] = EventAt(Q, o[k])
      BY <1>4, <1>6, <1>8
    <3> QED
      BY <1>7, <3>1, <3>2
  <2>3. EventsOf(Q) = [k \in 1 .. n + 1 |-> IF k = n + 1 THEN v ELSE d[k]]
    BY <2>1, <2>2
  <2>4. d \in Seq({EventAt(P, o[k]) : k \in 1 .. n}) /\ Len(d) = n
    BY <1>4, <1>6
  <2>5. EventsOf(Q) = Append(d, v)
    BY <2>3, <2>4, AppendAsFunction
  <2> QED
    BY <1>9, <2>5 DEF d, v
<1>10. CASE ~(line = <<>> /\ Data(P, c + 1) # <<>>)
  <2>1. EventsOf(Q) = [k \in 1 .. n |-> EventAt(Q, o[k])]
    BY <1>3, <1>4, <1>10 DEF EventsOf
  <2> HIDE DEF n, o, d
  <2>2. EventsOf(Q) = d
    BY <1>4, <1>6, <1>8, <2>1
  <2> QED
    BY <1>10, <2>2 DEF d
<1> QED
  BY <1>9, <1>10

-----------------------------------------------------------------------------
(* Lines of a text                                                         *)

\* What findLineEnding finds: the first character that may end a line, when
\* what it ends is settled.
LEMMA EndingFound ==
  ASSUME NEW value \in Seq(STRING), FindLineEnding(value) # NoEnding
  PROVE  \E i \in 1 .. Len(value), l \in {1, 2} :
           /\ FindLineEnding(value) = [index |-> i, length |-> l]
           /\ \A j \in 1 .. Len(value) : j < i => value[j] # CR /\ value[j] # LF
           /\ \/ l = 1 /\ value[i] = LF
              \/ l = 1 /\ value[i] = CR /\ i < Len(value) /\ value[i + 1] # LF
              \/ l = 2 /\ value[i] = CR /\ i < Len(value) /\ value[i + 1] = LF
<1> DEFINE E == EndingCharacters(value)
           k == FirstOf(E)
           pair == k < Len(value) /\ value[k] = CR /\ value[k + 1] = LF
<1>1. E # {}
  BY DEF FindLineEnding
<1>2. E \subseteq 1 .. Len(value) /\ Len(value) \in Nat
  BY DEF EndingCharacters
<1>3. E \in SUBSET Nat /\ IsFiniteSet(E)
  <2> DEFINE I == 1 .. Len(value)
  <2>1. IsFiniteSet(I)
    BY <1>2, FS_Interval
  <2>2. E \in SUBSET I
    BY <1>2
  <2> HIDE DEF E
  <2>3. E \in SUBSET Nat
    BY <2>2
  <2> HIDE DEF I
  <2> QED
    BY <2>1, <2>2, <2>3, FS_Subset
<1>4. k \in E /\ \A y \in E : k <= y
  <2> HIDE DEF E
  <2> QED
    BY <1>1, <1>3, FirstInSet
<1>5. ~(value[k] = CR /\ k = Len(value))
  BY <1>1 DEF FindLineEnding
<1>6. FindLineEnding(value) = [index |-> k, length |-> IF pair THEN 2 ELSE 1]
  BY <1>1, <1>5 DEF FindLineEnding
<1> HIDE DEF k
<1>7. k \in 1 .. Len(value) /\ (value[k] = CR \/ value[k] = LF)
  BY <1>4 DEF EndingCharacters
<1>8. ASSUME NEW j \in 1 .. Len(value), j < k
      PROVE  value[j] # CR /\ value[j] # LF
  <2>1. j \notin E
    <3> HIDE DEF E
    <3> QED
      BY <1>2, <1>4, <1>7, <1>8
  <2> QED
    BY <1>2, <2>1 DEF EndingCharacters
<1> HIDE DEF E
<1>9. value[k] = CR => k < Len(value)
  BY <1>2, <1>5, <1>7
<1>10. CASE pair
  <2>1. FindLineEnding(value) = [index |-> k, length |-> 2]
    BY <1>6, <1>10
  <2> QED
    BY <1>7, <1>8, <1>10, <2>1
<1>11. CASE ~pair
  <2>1. FindLineEnding(value) = [index |-> k, length |-> 1]
    BY <1>6, <1>11
  <2>2. value[k] = LF \/ (value[k] = CR /\ k < Len(value) /\ value[k + 1] # LF)
    BY <1>7, <1>9, <1>11
  <2> QED
    BY <1>7, <1>8, <2>1, <2>2
<1> QED
  BY <1>10, <1>11

\* The line that ends at e begins after the line end before it.
LEMMA BeginOfLine ==
  ASSUME NEW text \in Seq(STRING), NEW c \in Nat, NEW e \in Nat, c < e,
         c = 0 \/ c \in LineEnds(text),
         \A j \in LineEnds(text) : j < e => j <= c
  PROVE  Max({0} \cup {i \in LineEnds(text) : i < e}) = c
<1> DEFINE W == {0} \cup {i \in LineEnds(text) : i < e}
<1>1. LineEnds(text) \subseteq Nat
  BY DEF LineEnds
<1>2. c \in W
  OBVIOUS
<1>3. \A x \in W : x \in Nat /\ x <= c
  BY <1>1
<1> HIDE DEF W
<1>4. \A x \in W : (\A y \in W : x >= y) => x = c
  BY <1>2, <1>3
<1>5. \A y \in W : c >= y
  BY <1>3
<1>6. Max(W) = c
  BY <1>2, <1>4, <1>5 DEF Max
<1> QED
  BY <1>6 DEF W

\* What the buffer holds of the text.
LEMMA BufferOfText ==
  ASSUME NEW text \in Seq(STRING), NEW c \in Nat, NEW r \in Nat, c <= r, r <= Len(text),
         NEW buf, buf = SubSeq(text, c + 1, r)
  PROVE  /\ buf \in Seq(STRING)
         /\ Len(buf) = r - c
         /\ \A j \in 1 .. r - c : buf[j] = text[c + j]
         /\ \A j \in 1 .. r : j > c => buf[j - c] = text[j]
<1>1. buf \in Seq(STRING) /\ Len(buf) = r - c
  OBVIOUS
<1>2. \A j \in 1 .. r - c : buf[j] = text[c + j]
  OBVIOUS
<1>3. ASSUME NEW j \in 1 .. r, j > c
      PROVE  buf[j - c] = text[j]
  <2>1. j - c \in 1 .. r - c /\ c + (j - c) = j
    BY <1>3
  <2> QED
    BY <1>2, <2>1
<1> QED
  BY <1>1, <1>2, <1>3

\* A part of a part.
LEMMA PartOfPart ==
  ASSUME NEW text \in Seq(STRING), NEW c \in Nat, NEW r \in Nat, c <= r, r <= Len(text),
         NEW a \in Nat, NEW b \in Nat, 1 <= a, b <= r - c
  PROVE  SubSeq(SubSeq(text, c + 1, r), a, b) = SubSeq(text, c + a, c + b)
<1> DEFINE buf == SubSeq(text, c + 1, r)
<1>1. /\ buf \in Seq(STRING)
      /\ Len(buf) = r - c
      /\ \A j \in 1 .. r - c : buf[j] = text[c + j]
  BY BufferOfText
<1> HIDE DEF buf
<1>2. SubSeq(buf, a, b) = [j \in 1 .. b - a + 1 |-> buf[a + j - 1]]
  BY <1>1
<1>3. SubSeq(text, c + a, c + b) = [j \in 1 .. b - a + 1 |-> text[c + a + j - 1]]
  <2>1. (c + b) - (c + a) + 1 = b - a + 1
    OBVIOUS
  <2> QED
    BY <2>1
<1>4. ASSUME NEW j \in 1 .. b - a + 1
      PROVE  buf[a + j - 1] = text[c + a + j - 1]
  <2>1. a + j - 1 \in 1 .. r - c /\ c + (a + j - 1) = c + a + j - 1
    OBVIOUS
  <2> QED
    BY <1>1, <2>1
<1>5. SubSeq(buf, a, b) = SubSeq(text, c + a, c + b)
  BY <1>2, <1>3, <1>4
<1> QED
  BY <1>5 DEF buf

\* The next line of a text after position c, when p is the first character
\* after c that may end it and e the last of its ending.
NextEnding(text, c, r, p, e) ==
  /\ c \in Nat /\ r \in Nat /\ p \in Nat /\ e \in Nat
  /\ c < p /\ p <= r /\ r <= Len(text)
  /\ c = 0 \/ c \in LineEnds(text)
  /\ \A j \in 1 .. r : j > c /\ j < p => text[j] # CR /\ text[j] # LF
  /\ \/ e = p /\ text[p] = LF
     \/ e = p /\ text[p] = CR /\ p < r /\ text[p + 1] # LF
     \/ e = p + 1 /\ p < r /\ text[p] = CR /\ text[p + 1] = LF

LEMMA NextLine ==
  ASSUME NEW text \in Seq(STRING), NEW c, NEW r, NEW p, NEW e, NextEnding(text, c, r, p, e)
  PROVE  /\ c < e /\ e <= r
         /\ e \in LineEnds(text)
         /\ \A j \in LineEnds(text) : j < e => j <= c
         /\ LineAt(text, e) = SubSeq(text, c + 1, p - 1)
         /\ e = r => text[e] # CR
<1>0. /\ c \in Nat /\ r \in Nat /\ p \in Nat /\ e \in Nat
      /\ c < p /\ p <= r /\ r <= Len(text)
      /\ c = 0 \/ c \in LineEnds(text)
      /\ \A j \in 1 .. r : j > c /\ j < p => text[j] # CR /\ text[j] # LF
      /\ \/ e = p /\ text[p] = LF
         \/ e = p /\ text[p] = CR /\ p < r /\ text[p + 1] # LF
         \/ e = p + 1 /\ p < r /\ text[p] = CR /\ text[p + 1] = LF
  BY DEF NextEnding
<1> USE <1>0
<1>1. c < e /\ e <= r /\ e \in 1 .. Len(text)
  OBVIOUS
<1>2. e \in LineEnds(text)
  BY <1>1 DEF LineEnds
<1>3. ASSUME NEW j \in LineEnds(text), j < e
      PROVE  j <= c
  <2> SUFFICES ASSUME j > c PROVE FALSE
    BY <1>3 DEF LineEnds
  <2>1. j \in 1 .. r /\ (text[j] = LF \/ (text[j] = CR /\ text[j + 1] # LF))
    BY <1>1, <1>3 DEF LineEnds
  <2>2. ~(j < p)
    BY <2>1
  <2>3. j = p /\ e = p + 1 /\ text[p] = CR /\ text[p + 1] = LF
    BY <1>3, <2>1, <2>2
  <2> QED
    BY <2>1, <2>3 DEF CR, LF
<1>4. LineAt(text, e) = SubSeq(text, c + 1, p - 1)
  <2> DEFINE isPair == text[e] = LF /\ c + 1 < e /\ text[e - 1] = CR
  <2>1. Max({0} \cup {j \in LineEnds(text) : j < e}) = c
    BY <1>1, <1>3, BeginOfLine
  <2>2. LineAt(text, e) = SubSeq(text, c + 1, IF isPair THEN e - 2 ELSE e - 1)
    BY <2>1 DEF LineAt
  <2>3. CASE e = p + 1 /\ text[p] = CR /\ text[p + 1] = LF
    <3>1. e - 1 = p /\ e - 2 = p - 1 /\ c + 1 < e
      BY <2>3
    <3>2. isPair
      BY <2>3, <3>1
    <3> QED
      BY <2>2, <3>1, <3>2
  <2>4. CASE e = p /\ text[p] = LF
    <3>1. c + 1 < e => e - 1 \in 1 .. r /\ e - 1 > c /\ e - 1 < p
      BY <1>1, <2>4
    <3>2. ~isPair
      BY <3>1
    <3> QED
      BY <2>2, <2>4, <3>2
  <2>5. CASE e = p /\ text[p] = CR
    <3>1. ~isPair
      BY <2>5 DEF CR, LF
    <3> QED
      BY <2>2, <2>5, <3>1
  <2> QED
    BY <2>3, <2>4, <2>5
<1>5. e = r => text[e] # CR
  BY DEF CR, LF
<1> QED
  BY <1>1, <1>2, <1>3, <1>4, <1>5

\* After the lines up to c the buffer's line ending ends the next line at e: the
\* slice before it is that line, the slice after it the rest of what was received.
NextLineIs(text, c, r, buf, i, l, e) ==
  /\ FindLineEnding(buf) = [index |-> i, length |-> l]
  /\ c < e /\ e <= r
  /\ e \in LineEnds(text)
  /\ \A j \in LineEnds(text) : j < e => j <= c
  /\ LineAt(text, e) = SubSeq(buf, 1, i - 1)
  /\ SubSeq(buf, i + l, Len(buf)) = SubSeq(text, e + 1, r)
  /\ e = r => text[e] # CR

\* A turn of push()'s loop takes the next line of the text, whole.
LEMMA LineTaken ==
  ASSUME NEW text \in Seq(STRING), NEW c \in Nat, NEW r \in Nat, c <= r, r <= Len(text),
         c = 0 \/ c \in LineEnds(text),
         NEW buf, buf = SubSeq(text, c + 1, r), FindLineEnding(buf) # NoEnding
  PROVE  \E i \in Nat, l \in Nat, e \in Nat : NextLineIs(text, c, r, buf, i, l, e)
<1>1. buf \in Seq(STRING) /\ Len(buf) = r - c
  BY BufferOfText
<1>2. \A j \in 1 .. r - c : buf[j] = text[c + j]
  BY BufferOfText
<1>3. \A j \in 1 .. r : j > c => buf[j - c] = text[j]
  BY BufferOfText
<1>4. PICK i \in 1 .. r - c, l \in {1, 2} :
        /\ FindLineEnding(buf) = [index |-> i, length |-> l]
        /\ \A j \in 1 .. r - c : j < i => buf[j] # CR /\ buf[j] # LF
        /\ \/ l = 1 /\ buf[i] = LF
           \/ l = 1 /\ buf[i] = CR /\ i < r - c /\ buf[i + 1] # LF
           \/ l = 2 /\ buf[i] = CR /\ i < r - c /\ buf[i + 1] = LF
  <2>1. \E i \in 1 .. Len(buf), l \in {1, 2} :
          /\ FindLineEnding(buf) = [index |-> i, length |-> l]
          /\ \A j \in 1 .. Len(buf) : j < i => buf[j] # CR /\ buf[j] # LF
          /\ \/ l = 1 /\ buf[i] = LF
             \/ l = 1 /\ buf[i] = CR /\ i < Len(buf) /\ buf[i + 1] # LF
             \/ l = 2 /\ buf[i] = CR /\ i < Len(buf) /\ buf[i + 1] = LF
    BY <1>1, EndingFound, Zenon
  <2> QED
    BY <1>1, <2>1
<1> DEFINE p == c + i
           e == p + (l - 1)
<1>5. p \in Nat /\ e \in Nat /\ c < p /\ p <= r /\ c + (i + 1) = p + 1
  OBVIOUS
<1>6. buf[i] = text[p] /\ (p < r => buf[i + 1] = text[p + 1])
  <2>1. buf[i] = text[p]
    BY <1>2
  <2>2. p < r => i + 1 \in 1 .. r - c
    OBVIOUS
  <2> HIDE DEF p
  <2>3. p < r => buf[i + 1] = text[p + 1]
    BY <1>2, <1>5, <2>2
  <2> QED
    BY <2>1, <2>3
<1>7. ASSUME NEW j \in 1 .. r, j > c, j < p
      PROVE  text[j] # CR /\ text[j] # LF
  <2>1. j - c \in 1 .. r - c /\ j - c < i
    BY <1>7
  <2>2. buf[j - c] = text[j]
    BY <1>3, <1>7
  <2> HIDE DEF p
  <2> QED
    BY <1>4, <2>1, <2>2
<1>8. \/ e = p /\ text[p] = LF
      \/ e = p /\ text[p] = CR /\ p < r /\ text[p + 1] # LF
      \/ e = p + 1 /\ p < r /\ text[p] = CR /\ text[p + 1] = LF
  <2>1. i < r - c <=> p < r
    OBVIOUS
  <2>2. (l = 1 => e = p) /\ (l = 2 => e = p + 1)
    BY <1>5
  <2> HIDE DEF p, e
  <2> QED
    BY <1>4, <1>6, <2>1, <2>2
<1>9. i - 1 \in Nat /\ i - 1 <= r - c /\ c + (i - 1) = p - 1
      /\ i \in Nat /\ l \in Nat /\ i + l \in Nat /\ 1 <= i + l /\ c + (i + l) = e + 1
      /\ r - c \in Nat /\ c + (r - c) = r
  OBVIOUS
<1> HIDE DEF p, e
<1>9a. NextEnding(text, c, r, p, e)
  BY <1>5, <1>7, <1>8 DEF NextEnding
<1>10. c < e /\ e <= r /\ e \in LineEnds(text)
  BY <1>9a, NextLine
<1>11. \A j \in LineEnds(text) : j < e => j <= c
  BY <1>9a, NextLine
<1>12. LineAt(text, e) = SubSeq(text, c + 1, p - 1)
  BY <1>9a, NextLine
<1>13. e = r => text[e] # CR
  BY <1>9a, NextLine
<1>14. SubSeq(buf, 1, i - 1) = SubSeq(text, c + 1, p - 1)
  BY <1>9, PartOfPart
<1>15. SubSeq(buf, i + l, Len(buf)) = SubSeq(text, e + 1, r)
  <2>1. SubSeq(buf, i + l, r - c) = SubSeq(text, c + (i + l), c + (r - c))
    BY <1>9, PartOfPart
  <2> QED
    BY <1>1, <1>9, <2>1
<1>16. FindLineEnding(buf) = [index |-> i, length |-> l]
  BY <1>4
<1>17. i \in Nat /\ l \in Nat /\ e \in Nat
  BY <1>5, <1>9
<1>18. LineAt(text, e) = SubSeq(buf, 1, i - 1)
  BY <1>12, <1>14
<1> USE <1>17
<1> WITNESS i \in Nat, l \in Nat, e \in Nat
<1> QED
  BY <1>10, <1>11, <1>13, <1>15, <1>16, <1>18 DEF NextLineIs

\* When findLineEnding finds nothing, nothing after the last line taken ends a
\* line of what was received.
LEMMA NoEndingLeft ==
  ASSUME NEW value \in Seq(STRING), FindLineEnding(value) = NoEnding, NEW j \in 1 .. Len(value)
  PROVE  value[j] # LF /\ (value[j] = CR => j = Len(value))
<1> DEFINE E == EndingCharacters(value)
           k == FirstOf(E)
<1>1. CASE E = {}
  BY <1>1 DEF EndingCharacters
<1>2. CASE E # {}
  <2>1. E \subseteq 1 .. Len(value) /\ Len(value) \in Nat
    BY DEF EndingCharacters
  <2>2. E \in SUBSET Nat /\ IsFiniteSet(E)
    <3> DEFINE I == 1 .. Len(value)
    <3>1. IsFiniteSet(I)
      BY <2>1, FS_Interval
    <3> HIDE DEF E
    <3>2. E \in SUBSET I /\ E \in SUBSET Nat
      BY <2>1
    <3> HIDE DEF I
    <3> QED
      BY <3>1, <3>2, FS_Subset
  <2>3. k \in E /\ \A y \in E : k <= y
    <3> HIDE DEF E
    <3> QED
      BY <1>2, <2>2, FirstInSet
  <2>4. value[k] = CR /\ k = Len(value)
    <3>1. k # 0
      BY <2>1, <2>3
    <3> SUFFICES ASSUME ~(value[k] = CR /\ k = Len(value)) PROVE FALSE
      OBVIOUS
    <3>2. FindLineEnding(value).index = k
      BY <1>2 DEF FindLineEnding
    <3> QED
      BY <3>1, <3>2 DEF NoEnding
  <2>5. j \in E => j = k
    <3> HIDE DEF E, k
    <3> QED
      BY <2>1, <2>3, <2>4
  <2> QED
    BY <2>4, <2>5 DEF EndingCharacters, CR, LF
<1> QED
  BY <1>1, <1>2

\* The lines of a text that end by position c.
LinesUpTo(text, c) == [e \in {i \in LineEnds(text) : i <= c} |-> LineAt(text, e)]

\* When findLineEnding finds nothing, the lines taken are all the lines of what
\* was received, as if the rest of the text did not exist.
LEMMA AllLinesTaken ==
  ASSUME NEW text \in Seq(STRING), NEW c \in Nat, NEW r \in Nat, c <= r, r <= Len(text),
         NEW buf, buf = SubSeq(text, c + 1, r), FindLineEnding(buf) = NoEnding,
         c = r => c = 0 \/ text[c] # CR
  PROVE  Lines(SubSeq(text, 1, r)) = LinesUpTo(text, c)
<1> DEFINE s == SubSeq(text, 1, r)
<1>1. s \in Seq(STRING) /\ Len(s) = r /\ \A j \in 1 .. r : s[j] = text[j]
  OBVIOUS
<1>2. buf \in Seq(STRING) /\ Len(buf) = r - c
  BY BufferOfText
<1>3. \A j \in 1 .. r : j > c => buf[j - c] = text[j]
  BY BufferOfText
<1>4. ASSUME NEW j \in 1 .. r, j > c
      PROVE  text[j] # LF /\ (text[j] = CR => j = r)
  <2>1. j - c \in 1 .. Len(buf) /\ (j - c = Len(buf) => j = r)
    BY <1>2, <1>4
  <2>2. buf[j - c] # LF /\ (buf[j - c] = CR => j - c = Len(buf))
    BY <1>2, <2>1, NoEndingLeft
  <2> QED
    BY <1>3, <1>4, <2>1, <2>2
<1> HIDE DEF s
<1>5. LineEnds(s) = {j \in LineEnds(text) : j <= c}
  <2>1. ASSUME NEW j \in LineEnds(s)
        PROVE  j \in LineEnds(text) /\ j <= c
    <3>1. j \in 1 .. r /\ (s[j] = LF \/ (s[j] = CR /\ j < r /\ s[j + 1] # LF))
      BY <1>1, <2>1 DEF LineEnds
    <3>2. text[j] = LF \/ (text[j] = CR /\ j < r /\ text[j + 1] # LF)
      BY <1>1, <3>1
    <3>3. j \in LineEnds(text)
      BY <3>1, <3>2 DEF LineEnds
    <3>4. ~(j > c)
      BY <1>4, <3>1, <3>2
    <3> QED
      BY <3>1, <3>3, <3>4
  <2>2. ASSUME NEW j \in LineEnds(text), j <= c
        PROVE  j \in LineEnds(s)
    <3>1. j \in 1 .. r /\ (text[j] = LF \/ (text[j] = CR /\ text[j + 1] # LF))
      BY <2>2 DEF LineEnds
    <3>2. text[j] = CR => j < r
      BY <2>2, <3>1
    <3>3. s[j] = LF \/ (s[j] = CR /\ j < r /\ s[j + 1] # LF)
      BY <1>1, <3>1, <3>2
    <3> QED
      BY <1>1, <3>1, <3>3 DEF LineEnds
  <2> QED
    BY <2>1, <2>2
<1>6. ASSUME NEW e \in LineEnds(s)
      PROVE  LineAt(s, e) = LineAt(text, e)
  <2> DEFINE W == {0} \cup {i \in LineEnds(text) : i < e}
             b == Max(W) + 1
             isPair == text[e] = LF /\ b < e /\ text[e - 1] = CR
             last == IF isPair THEN e - 2 ELSE e - 1
  <2>1. e \in 1 .. r /\ e <= c
    BY <1>1, <1>5, <1>6 DEF LineEnds
  <2>2. {i \in LineEnds(s) : i < e} = {i \in LineEnds(text) : i < e}
    <3>1. LineEnds(text) \subseteq Nat
      BY DEF LineEnds
    <3>2. \A i \in LineEnds(text) : i < e => i <= c
      BY <2>1, <3>1
    <3> QED
      BY <1>5, <3>2
  <2>3. b \in Nat /\ 1 <= b
    <3>1. LineEnds(text) \subseteq Nat
      BY DEF LineEnds
    <3>2. W \in SUBSET 0 .. e /\ W \in SUBSET Nat /\ W # {}
      BY <2>1, <3>1
    <3>3. IsFiniteSet(W)
      <4> DEFINE I == 0 .. e
      <4>1. IsFiniteSet(I)
        BY <2>1, FS_Interval
      <4> HIDE DEF W
      <4>2. W \in SUBSET I
        BY <3>2
      <4> HIDE DEF I
      <4> QED
        BY <4>1, <4>2, FS_Subset
    <3> HIDE DEF W
    <3>4. Max(W) \in Nat
      BY <3>2, <3>3, MaxInSet
    <3> QED
      BY <3>4
  <2>4. LineAt(text, e) = SubSeq(text, b, last)
    BY DEF LineAt
  <2>5. LineAt(s, e) =
          SubSeq(s, b, IF s[e] = LF /\ b < e /\ s[e - 1] = CR THEN e - 2 ELSE e - 1)
    BY <2>2 DEF LineAt
  <2> HIDE DEF b
  <2>6. s[e] = text[e] /\ (b < e => s[e - 1] = text[e - 1])
    <3>1. b < e => e - 1 \in 1 .. r
      BY <2>1, <2>3
    <3> QED
      BY <1>1, <2>1, <3>1
  <2>7. LineAt(s, e) = SubSeq(s, b, last)
    BY <2>5, <2>6
  <2>8. last \in Int /\ last <= r
    BY <2>1
  <2> HIDE DEF last
  <2>9. SubSeq(s, b, last) = SubSeq(text, b, last)
    BY <1>1, <2>3, <2>8
  <2> QED
    BY <2>4, <2>7, <2>9
<1> QED
  BY <1>5, <1>6 DEF Lines, LinesUpTo, s

-----------------------------------------------------------------------------
(* The invariant                                                           *)

\* The decoder has taken the lines of the text that end by c: the buffer is
\* what was received after c, and what it keeps and has delivered is what those
\* lines mean.  A CR at the end of what was received is not taken.
TakenUpTo(c) ==
  /\ buffer = SubSeq(input, c + 1, read)
  /\ c = 0 \/ c \in LineEnds(input)
  /\ c = read => c = 0 \/ input[c] # CR
  /\ dataLines = Data(LinesUpTo(input, c), c + 1)
  /\ eventType = Type(LinesUpTo(input, c), c + 1)
  /\ events = EventsOf(LinesUpTo(input, c))

DecoderInv ==
  /\ input \in Seq(STRING)
  /\ read \in 0 .. Len(input)
  /\ open => \E c \in 0 .. read : TakenUpTo(c)
  /\ open /\ ~decoding => FindLineEnding(buffer) = NoEnding
  /\ ~open => ~decoding /\ events = Decode(SubSeq(input, 1, read))

\* Taking the line that ends at e makes one more line.
LEMMA OneMoreLine ==
  ASSUME NEW text \in Seq(STRING), NEW c \in Nat, NEW e \in Nat, c < e, e \in LineEnds(text),
         \A j \in LineEnds(text) : j < e => j <= c
  PROVE  Grows(LinesUpTo(text, c), c, e, LineAt(text, e), LinesUpTo(text, e))
<1> DEFINE P == LinesUpTo(text, c)
           Q == LinesUpTo(text, e)
<1>1. LineEnds(text) \subseteq Nat /\ \A j \in LineEnds(text) : j >= 1
  BY DEF LineEnds
<1>2. DOMAIN P = {j \in LineEnds(text) : j <= c} /\ DOMAIN Q = {j \in LineEnds(text) : j <= e}
  BY DEF LinesUpTo
<1>3. DOMAIN P \subseteq 1 .. c
  BY <1>1, <1>2
<1>4. DOMAIN Q = DOMAIN P \cup {e}
  <2>1. \A j \in LineEnds(text) : j <= e <=> j <= c \/ j = e
    BY <1>1
  <2> QED
    BY <1>2, <2>1
<1>5. Q[e] = LineAt(text, e)
  BY <1>1 DEF LinesUpTo
<1>6. \A x \in DOMAIN P : Q[x] = P[x]
  <2>1. \A x \in DOMAIN P : x \in LineEnds(text) /\ x <= c /\ x <= e
    BY <1>1, <1>2
  <2> QED
    BY <2>1 DEF LinesUpTo
<1> QED
  BY <1>3, <1>4, <1>5, <1>6 DEF Grows

\* Before the first line there is nothing to deliver.
LEMMA NothingTaken ==
  ASSUME NEW text \in Seq(STRING)
  PROVE  /\ Data(LinesUpTo(text, 0), 1) = <<>>
         /\ Type(LinesUpTo(text, 0), 1) = <<>>
         /\ EventsOf(LinesUpTo(text, 0)) = <<>>
<1> DEFINE P == LinesUpTo(text, 0)
<1>1. DOMAIN P = {}
  <2>1. \A j \in LineEnds(text) : ~(j <= 0)
    BY DEF LineEnds
  <2> QED
    BY <2>1 DEF LinesUpTo
<1> HIDE DEF P
<1>2. FieldsOf(P, 1, <<"data">>) = {} /\ FieldsOf(P, 1, <<"event">>) = {} /\ Delivering(P) = {}
  BY <1>1 DEF FieldsOf, Block, Delivering
<1>3. DOMAIN P \subseteq 1 .. 0 /\ 0 \in Nat
  BY <1>1
<1>4. Data(P, 1) = <<>>
  BY <1>2, <1>3, NoData
<1>5. Type(P, 1) = <<>>
  BY <1>2 DEF Type
<1>6. DOMAIN Ordered({}) = 1 .. 0
  BY FS_EmptySet DEF Ordered
<1>7. EventsOf(P) = [k \in 1 .. 0 |-> EventAt(P, Ordered({})[k])]
  BY <1>2, <1>6, Zenon DEF EventsOf
<1>8. EventsOf(P) = <<>>
  BY <1>7
<1> QED
  BY <1>4, <1>5, <1>8 DEF P

LEMMA DecoderInvInit == Init => DecoderInv
<1> SUFFICES ASSUME Init PROVE DecoderInv
  OBVIOUS
<1>1. input \in Seq(STRING)
  BY StreamsAssumption DEF Init
<1>2. read \in 0 .. Len(input)
  BY <1>1 DEF Init
<1>3. TakenUpTo(0)
  <2>1. SubSeq(input, 1, 0) = <<>>
    BY <1>1
  <2> QED
    BY <1>1, <2>1, NothingTaken DEF Init, TakenUpTo
<1>4. 0 \in 0 .. read
  BY DEF Init
<1>5. FindLineEnding(buffer) = NoEnding
  BY DEF Init, FindLineEnding, EndingCharacters
<1> QED
  BY <1>1, <1>2, <1>3, <1>4, <1>5 DEF Init, DecoderInv

\* A turn of the loop takes the next line, and does with it what it means.
LEMMA DecodeLineKeeps ==
  ASSUME DecoderInv, DecodeLine
  PROVE  DecoderInv'
<1>1. /\ input \in Seq(STRING) /\ read \in 0 .. Len(input) /\ Len(input) \in Nat
      /\ open /\ decoding
      /\ UNCHANGED <<input, read, open, decoding>>
  BY DEF DecoderInv, DecodeLine
<1>2. PICK c \in 0 .. read : TakenUpTo(c)
  BY <1>1 DEF DecoderInv
<1>3. c \in Nat /\ read \in Nat /\ c <= read /\ read <= Len(input)
  BY <1>1
<1>4. buffer = SubSeq(input, c + 1, read) /\ (c = 0 \/ c \in LineEnds(input))
  BY <1>2 DEF TakenUpTo
<1>5. FindLineEnding(buffer) # NoEnding
  BY DEF DecodeLine
<1>5a. PICK i \in Nat, l \in Nat, e \in Nat : NextLineIs(input, c, read, buffer, i, l, e)
  BY <1>1, <1>3, <1>4, <1>5, LineTaken
<1>6. /\ FindLineEnding(buffer) = [index |-> i, length |-> l]
      /\ c < e /\ e <= read
      /\ e \in LineEnds(input)
      /\ \A j \in LineEnds(input) : j < e => j <= c
      /\ LineAt(input, e) = SubSeq(buffer, 1, i - 1)
      /\ SubSeq(buffer, i + l, Len(buffer)) = SubSeq(input, e + 1, read)
      /\ e = read => input[e] # CR
  BY <1>5a DEF NextLineIs
<1> DEFINE line == LineAt(input, e)
           P == LinesUpTo(input, c)
           Q == LinesUpTo(input, e)
           d == Data(P, c + 1)
           t == Type(P, c + 1)
<1>7. Grows(P, c, e, line, Q)
  BY <1>1, <1>3, <1>6, OneMoreLine
<1>8. dataLines = d /\ eventType = t /\ events = EventsOf(P)
  BY <1>2 DEF TakenUpTo
<1>9. FindLineEnding(buffer).index = i /\ FindLineEnding(buffer).length = l
  BY <1>6
<1>10. /\ buffer' = SubSeq(input, e + 1, read)
       /\ IF line = <<>> THEN Dispatch ELSE TakeField(line)
  BY <1>6, <1>9 DEF DecodeLine
<1> HIDE DEF line, P, Q, d, t
<1>11. dataLines' = Data(Q, e + 1)
  <2>1. CASE line = <<>>
    BY <1>7, <1>10, <2>1, DataGrows DEF Dispatch
  <2>2. CASE line # <<>> /\ Field(line) = <<"data">>
    BY <1>7, <1>8, <1>10, <2>2, DataGrows DEF TakeField, d
  <2>3. CASE line # <<>> /\ Field(line) # <<"data">>
    BY <1>7, <1>8, <1>10, <2>3, DataGrows DEF TakeField, d
  <2> QED
    BY <2>1, <2>2, <2>3
<1>12. eventType' = Type(Q, e + 1)
  <2>1. CASE line = <<>>
    BY <1>7, <1>10, <2>1, TypeGrows DEF Dispatch
  <2>2. CASE line # <<>> /\ Field(line) = <<"event">>
    BY <1>7, <1>8, <1>10, <2>2, TypeGrows DEF TakeField, t
  <2>3. CASE line # <<>> /\ Field(line) # <<"event">>
    BY <1>7, <1>8, <1>10, <2>3, TypeGrows DEF TakeField, t
  <2> QED
    BY <2>1, <2>2, <2>3
<1>13. events' = EventsOf(Q)
  <2>1. EventsOf(Q) = IF line = <<>> /\ d # <<>>
                      THEN Append(EventsOf(P), EventAt(P, c + 1)) ELSE EventsOf(P)
    BY <1>7, EventsGrow DEF d
  <2>2. EventAt(P, c + 1) = [event |-> IF t = <<>> THEN <<"message">> ELSE t, data |-> d]
    BY DEF EventAt, t, d
  <2>3. CASE line = <<>>
    BY <1>8, <1>10, <2>1, <2>2, <2>3 DEF Dispatch
  <2>4. CASE line # <<>>
    BY <1>8, <1>10, <2>1, <2>4 DEF TakeField
  <2> QED
    BY <2>3, <2>4
<1>14. TakenUpTo(e)'
  BY <1>1, <1>6, <1>10, <1>11, <1>12, <1>13 DEF TakenUpTo, Q
<1>15. e \in 0 .. read
  BY <1>1, <1>6
<1> QED
  BY <1>1, <1>14, <1>15 DEF DecoderInv

\* Whenever the loop finds no line, everything received has been decoded.
LEMMA IdleMeansDecoded ==
  ASSUME DecoderInv, open, FindLineEnding(buffer) = NoEnding
  PROVE  events = Decode(SubSeq(input, 1, read))
<1>1. PICK c \in 0 .. read : TakenUpTo(c)
  BY DEF DecoderInv
<1>2. input \in Seq(STRING) /\ c \in Nat /\ read \in Nat /\ c <= read /\ read <= Len(input)
  BY DEF DecoderInv
<1>3. buffer = SubSeq(input, c + 1, read) /\ (c = read => c = 0 \/ input[c] # CR)
  BY <1>1 DEF TakenUpTo
<1>4. Lines(SubSeq(input, 1, read)) = LinesUpTo(input, c)
  BY <1>2, <1>3, AllLinesTaken
<1> QED
  BY <1>1, <1>4 DEF TakenUpTo, Decode

\* Another chunk lengthens the buffer.
LEMMA ReadChunkKeeps ==
  ASSUME DecoderInv, NEW n \in 1 .. Len(input), ReadChunk(n)
  PROVE  DecoderInv'
<1>1. /\ input \in Seq(STRING) /\ read \in 0 .. Len(input) /\ Len(input) \in Nat
      /\ open /\ open' /\ decoding' /\ input' = input
      /\ read + n <= Len(input) /\ read' = read + n
      /\ buffer' = buffer \o SubSeq(input, read + 1, read + n)
      /\ UNCHANGED <<eventType, dataLines, events>>
  BY DEF DecoderInv, ReadChunk
<1>2. PICK c \in 0 .. read : TakenUpTo(c)
  BY <1>1 DEF DecoderInv
<1>3. buffer' = SubSeq(input, c + 1, read + n)
  <2>1. buffer = SubSeq(input, c + 1, read)
    BY <1>2 DEF TakenUpTo
  <2> QED
    BY <1>1, <2>1
<1>4. TakenUpTo(c)'
  <2>1. c # read'
    BY <1>1
  <2> QED
    BY <1>1, <1>2, <1>3, <2>1 DEF TakenUpTo
<1>5. c \in 0 .. read' /\ read' \in 0 .. Len(input)
  BY <1>1
<1> QED
  BY <1>1, <1>4, <1>5 DEF DecoderInv

LEMMA DecoderInvNext == DecoderInv /\ [Next]_vars => DecoderInv'
<1> SUFFICES ASSUME DecoderInv, [Next]_vars PROVE DecoderInv'
  OBVIOUS
<1>1. ASSUME NEW n \in 1 .. Len(input), ReadChunk(n) PROVE DecoderInv'
  BY <1>1, ReadChunkKeeps
<1>2. CASE DecodeLine
  BY <1>2, DecodeLineKeeps
<1>3. CASE PushReturns
  <2>1. UNCHANGED <<input, read, open, buffer, eventType, dataLines, events>>
    BY <1>3 DEF PushReturns, decoderVars
  <2>2. open /\ FindLineEnding(buffer) = NoEnding
    BY <1>3 DEF PushReturns, DecoderInv
  <2>3. PICK c \in 0 .. read : TakenUpTo(c)
    BY <2>2 DEF DecoderInv
  <2>4. TakenUpTo(c)'
    BY <2>1, <2>3 DEF TakenUpTo
  <2> QED
    BY <2>1, <2>2, <2>4 DEF DecoderInv
<1>4. CASE Finish
  <2>1. events = Decode(SubSeq(input, 1, read))
    BY <1>4, IdleMeansDecoded DEF Finish, DecoderInv
  <2> QED
    BY <1>4, <2>1 DEF Finish, DecoderInv
<1>5. CASE UNCHANGED vars
  <2>1. UNCHANGED <<input, read, open, decoding, buffer, eventType, dataLines, events>>
    BY <1>5 DEF vars, decoderVars
  <2>2. ASSUME NEW c \in 0 .. read, TakenUpTo(c) PROVE TakenUpTo(c)'
    BY <2>1, <2>2 DEF TakenUpTo
  <2> QED
    BY <2>1, <2>2 DEF DecoderInv
<1> QED
  BY <1>1, <1>2, <1>3, <1>4, <1>5 DEF Next

-----------------------------------------------------------------------------
(* What holds of the decoder                                               *)

\* However the network cuts the stream, and wherever it breaks off: when push()
\* has returned, the edge has been given exactly the events of the text
\* received so far.
THEOREM CutsDoNotMatter == Spec => []DecodedAsWhole
<1>1. DecoderInv => DecodedAsWhole
  BY IdleMeansDecoded DEF DecoderInv, DecodedAsWhole
<1> QED
  BY <1>1, DecoderInvInit, DecoderInvNext, PTL DEF Spec

=============================================================================
