-------------------------------- MODULE Sums --------------------------------
(***************************************************************************)
(* What sums are.  SumFunction of the community modules is a fold, defined *)
(* by recursion over the subsets of the domain; what it computes follows   *)
(* by taking a smallest counterexample.  The proofs about the values of    *)
(* payments and about the statistics of the RPC server rest on this        *)
(* module.                                                                 *)
(***************************************************************************)
EXTENDS Integers, Functions, FiniteSetTheorems, TLAPS

\* A set of naturals has a least element.
LEMMA LeastNatural ==
    ASSUME NEW T \in SUBSET Nat, T # {}
    PROVE  \E n \in T : \A m \in T : n <= m
  <1> DEFINE Less == {r \in Nat \X Nat : r[1] < r[2]}
  <1>1. IsWellFoundedOn(Less, Nat)
    BY NatLessThanWellFounded DEF OpToRel
  <1>2. PICK n \in T : \A m \in T : <<m, n>> \notin Less
    BY <1>1, WFMin
  <1>3. ASSUME NEW m \in T PROVE n <= m
    <2>1. m \in Nat /\ n \in Nat /\ <<m, n>> \notin Less
      BY <1>2
    <2>2. ~(m < n)
      BY <2>1
    <2> QED BY <2>1, <2>2
  <1> QED BY <1>3

\* A set of finite sets has a smallest one.
LEMMA SmallestSet ==
    ASSUME NEW D, IsFiniteSet(D), NEW B \in SUBSET SUBSET D, B # {}
    PROVE  \E s \in B : \A r \in B : Cardinality(s) <= Cardinality(r)
  <1>1. \A s \in B : Cardinality(s) \in Nat
    BY FS_Subset, FS_CardinalityType
  <1> DEFINE Sizes == {Cardinality(s) : s \in B}
  <1>2. Sizes \in SUBSET Nat /\ Sizes # {}
    BY <1>1
  <1>3. PICK n \in Sizes : \A m \in Sizes : n <= m
    BY <1>2, LeastNatural
  <1> QED BY <1>3

\* The element that a fold takes from a set.
Pick(s) == CHOOSE x \in s : TRUE

\* h is the fold of f, on every subset of D.
IsFold(h, f, D) ==
    h = [s \in SUBSET D |-> IF s = {} THEN 0 ELSE f[Pick(s)] + h[s \ {Pick(s)}]]

\* The element a fold takes next, and the size of what remains.
LEMMA PickFacts ==
    ASSUME NEW D, IsFiniteSet(D), NEW s \in SUBSET D, s # {}
    PROVE  /\ Pick(s) \in s
           /\ \A x \in s : /\ s \ {x} \in SUBSET D
                           /\ Cardinality(s \ {x}) + 1 = Cardinality(s)
                           /\ Cardinality(s \ {x}) \in Nat /\ Cardinality(s) \in Nat
  <1>1. Pick(s) \in s
    BY DEF Pick
  <1>2. IsFiniteSet(s)
    BY FS_Subset
  <1>3. ASSUME NEW x \in s
        PROVE  /\ Cardinality(s \ {x}) = Cardinality(s) - 1
               /\ Cardinality(s \ {x}) \in Nat /\ Cardinality(s) \in Nat
    BY <1>2, FS_RemoveElement, FS_CardinalityType
  <1> QED BY <1>1, <1>3

\* What IsFold says of one subset.
LEMMA FoldAt ==
    ASSUME NEW f, NEW D, NEW h, IsFold(h, f, D)
    PROVE  /\ h[{}] = 0
           /\ \A s \in SUBSET D : s # {} => h[s] = f[Pick(s)] + h[s \ {Pick(s)}]
  BY DEF IsFold

\* There is a fold: on the sets of up to n elements, for every n.
LEMMA FoldExists ==
    ASSUME NEW D, IsFiniteSet(D), NEW f \in [D -> Int]
    PROVE  \E h : IsFold(h, f, D)
  <1> DEFINE Upto(n) == {s \in SUBSET D : Cardinality(s) <= n}
             Has(n) == \E g \in [Upto(n) -> Int] : \A s \in Upto(n) :
                           g[s] = IF s = {} THEN 0 ELSE f[Pick(s)] + g[s \ {Pick(s)}]
             Bad == {n \in Nat : ~Has(n)}
  <1>0. \A s \in SUBSET D : Cardinality(s) \in Nat /\ (Cardinality(s) = 0 => s = {})
    BY FS_Subset, FS_CardinalityType, FS_EmptySet
  <1>1. Has(0)
    <2>1. \A s \in Upto(0) : s = {}
      BY <1>0
    <2> WITNESS [s \in Upto(0) |-> 0] \in [Upto(0) -> Int]
    <2> QED BY <2>1
  <1>2. ASSUME NEW n \in Nat, Has(n) PROVE Has(n + 1)
    <2>1. PICK g \in [Upto(n) -> Int] : \A s \in Upto(n) :
              g[s] = IF s = {} THEN 0 ELSE f[Pick(s)] + g[s \ {Pick(s)}]
      BY <1>2
    <2> DEFINE k == [s \in Upto(n + 1) |->
                        IF s = {} THEN 0 ELSE f[Pick(s)] + g[s \ {Pick(s)}]]
    <2>2. \A s \in Upto(n + 1) : s # {} => s \ {Pick(s)} \in Upto(n) /\ Pick(s) \in D
      <3> TAKE s \in Upto(n + 1)
      <3> HAVE s # {}
      <3>1. /\ s \in SUBSET D /\ Cardinality(s) <= n + 1 /\ Pick(s) \in s
            /\ s \ {Pick(s)} \in SUBSET D /\ Cardinality(s \ {Pick(s)}) + 1 = Cardinality(s)
            /\ Cardinality(s \ {Pick(s)}) \in Nat
        BY PickFacts
      <3> QED BY <3>1
    <2>3. k \in [Upto(n + 1) -> Int]
      BY <2>2
    <2>4. Upto(n) \subseteq Upto(n + 1)
      BY <1>0
    <2>5. \A s \in Upto(n) : k[s] = g[s]
      BY <2>1, <2>4
    <2>6. \A s \in Upto(n + 1) : k[s] = IF s = {} THEN 0 ELSE f[Pick(s)] + k[s \ {Pick(s)}]
      BY <2>2, <2>5
    <2> QED BY <2>3, <2>6
  <1>3. Bad = {}
    <2> SUFFICES ASSUME Bad # {} PROVE FALSE
      OBVIOUS
    <2>1. Bad \in SUBSET Nat
      OBVIOUS
    <2> HIDE DEF Bad
    <2>2. PICK n \in Bad : \A m \in Bad : n <= m
      BY <2>1, LeastNatural
    <2>3. n \in Nat /\ ~Has(n)
      BY <2>2 DEF Bad
    <2> HIDE DEF Has
    <2>4. n # 0
      BY <1>1, <2>3
    <2>5. n - 1 \in Nat /\ n - 1 \notin Bad
      BY <2>1, <2>2, <2>3, <2>4
    <2>6. Has(n - 1)
      BY <2>5 DEF Bad
    <2>7. Has(n - 1 + 1)
      BY <1>2, <2>5, <2>6
    <2>8. n - 1 + 1 = n
      BY <2>3
    <2> QED BY <2>3, <2>7, <2>8
  <1>4. Has(Cardinality(D))
    BY <1>0, <1>3
  <1>5. Upto(Cardinality(D)) = SUBSET D
    BY FS_Subset
  <1>6. PICK g \in [SUBSET D -> Int] : \A s \in SUBSET D :
            g[s] = IF s = {} THEN 0 ELSE f[Pick(s)] + g[s \ {Pick(s)}]
    BY <1>4, <1>5
  <1>7. g = [s \in SUBSET D |-> IF s = {} THEN 0 ELSE f[Pick(s)] + g[s \ {Pick(s)}]]
    BY <1>6
  <1> QED BY <1>7 DEF IsFold

\* The fold is a number on every subset, and any element may be taken first.
IsSum(h, f, D) == \A s \in SUBSET D : h[s] \in Int /\ \A x \in s : h[s] = f[x] + h[s \ {x}]

\* A fold adds up its function, whichever element it takes first: a smallest set on
\* which it did not would have a smaller one.
LEMMA FoldFacts ==
    ASSUME NEW D, IsFiniteSet(D), NEW f \in [D -> Int], NEW h, IsFold(h, f, D)
    PROVE  IsSum(h, f, D)
  <1>0. /\ h[{}] = 0
        /\ \A s \in SUBSET D : s # {} => h[s] = f[Pick(s)] + h[s \ {Pick(s)}]
    BY FoldAt
  <1> DEFINE Good(s) == h[s] \in Int /\ \A x \in s : h[s] = f[x] + h[s \ {x}]
             Bad == {s \in SUBSET D : ~Good(s)}
  <1> SUFFICES ASSUME Bad # {} PROVE FALSE
    BY DEF IsSum
  <1>1. Bad \in SUBSET SUBSET D
    OBVIOUS
  <1> HIDE DEF Bad
  <1>2. PICK s \in Bad : \A r \in Bad : Cardinality(s) <= Cardinality(r)
    BY <1>1, SmallestSet
  <1>3. s \in SUBSET D /\ ~Good(s)
    BY <1>2 DEF Bad
  <1>4. s # {}
    <2>1. h[{}] \in Int
      BY <1>0
    <2> QED BY <1>3, <2>1
  <1>5. Pick(s) \in s /\ Pick(s) \in D
    BY <1>3, <1>4, PickFacts
  <1>6. ASSUME NEW x \in s PROVE s \ {x} \in SUBSET D /\ Good(s \ {x})
    <2>1. /\ s \ {x} \in SUBSET D /\ Cardinality(s \ {x}) + 1 = Cardinality(s)
          /\ Cardinality(s \ {x}) \in Nat /\ Cardinality(s) \in Nat
      BY <1>3, <1>4, PickFacts
    <2>2. s \ {x} \notin Bad
      BY <1>2, <2>1
    <2> QED BY <2>1, <2>2 DEF Bad
  <1>7. h[s] = f[Pick(s)] + h[s \ {Pick(s)}]
    BY <1>0, <1>3, <1>4
  <1>8. h[s] \in Int
    BY <1>5, <1>6, <1>7
  <1>9. ASSUME NEW x \in s PROVE h[s] = f[x] + h[s \ {x}]
    <2>1. CASE x = Pick(s)
      BY <1>7, <2>1
    <2>2. CASE x # Pick(s)
      <3> DEFINE y == Pick(s)
                 rest == (s \ {x}) \ {y}
      <3>1. x \in s \ {y} /\ y \in s \ {x} /\ (s \ {y}) \ {x} = rest
        BY <1>5, <2>2
      <3>2. h[s \ {y}] = f[x] + h[rest]
        BY <1>5, <1>6, <3>1
      <3>3. h[s \ {x}] = f[y] + h[rest] /\ h[s \ {x}] \in Int
        BY <1>6, <3>1
      <3>4. rest \in SUBSET D /\ f[x] \in Int /\ f[y] \in Int
        BY <1>3, <1>5
      <3>5. h[rest] \in Int
        <4>1. /\ s \ {x} \in SUBSET D /\ s \ {x} # {}
              /\ Cardinality(s \ {x}) + 1 = Cardinality(s) /\ Cardinality(s \ {x}) \in Nat
          BY <1>3, <1>4, <3>1, PickFacts
        <4>2. Cardinality(rest) + 1 = Cardinality(s \ {x}) /\ Cardinality(rest) \in Nat
          BY <3>1, <4>1, PickFacts
        <4>3. rest \notin Bad
          BY <1>2, <4>1, <4>2
        <4> QED BY <3>4, <4>3 DEF Bad
      <3> HIDE DEF y, rest
      <3>6. h[s] = f[y] + (f[x] + h[rest])
        BY <1>7, <3>2 DEF y
      <3> QED BY <3>3, <3>4, <3>5, <3>6
    <2> QED BY <2>1, <2>2
  <1> QED BY <1>3, <1>8, <1>9

\* Two folds agree where they fold the same values.
LEMMA FoldsAgree ==
    ASSUME NEW D, IsFiniteSet(D), NEW E \in SUBSET D, NEW f, NEW g, \A x \in E : f[x] = g[x],
           NEW h, IsFold(h, f, D), NEW k, IsFold(k, g, E)
    PROVE  h[E] = k[E]
  <1> DEFINE Bad == {s \in SUBSET E : h[s] # k[s]}
  <1> SUFFICES ASSUME Bad # {} PROVE FALSE
    OBVIOUS
  <1>1. Bad \in SUBSET SUBSET D
    OBVIOUS
  <1> HIDE DEF Bad
  <1>2. PICK s \in Bad : \A r \in Bad : Cardinality(s) <= Cardinality(r)
    BY <1>1, SmallestSet
  <1>3. s \in SUBSET E /\ h[s] # k[s]
    BY <1>2 DEF Bad
  <1>4. s # {}
    BY <1>3, FoldAt
  <1>5. /\ Pick(s) \in s /\ Cardinality(s \ {Pick(s)}) + 1 = Cardinality(s)
        /\ Cardinality(s \ {Pick(s)}) \in Nat /\ Cardinality(s) \in Nat
    BY <1>3, <1>4, PickFacts
  <1>6. s \ {Pick(s)} \notin Bad
    BY <1>2, <1>5
  <1>7. h[s \ {Pick(s)}] = k[s \ {Pick(s)}]
    BY <1>3, <1>6 DEF Bad
  <1>8. h[s] = f[Pick(s)] + h[s \ {Pick(s)}] /\ k[s] = g[Pick(s)] + k[s \ {Pick(s)}]
    BY <1>3, <1>4, FoldAt
  <1> QED BY <1>3, <1>5, <1>7, <1>8

\* SumFunction is the fold of the whole domain.
LEMMA SumIsFold ==
    ASSUME NEW D, IsFiniteSet(D), NEW f \in [D -> Int]
    PROVE  \E h : IsFold(h, f, D) /\ SumFunction(f) = h[D]
  <1> DEFINE H == CHOOSE h : h = [s \in SUBSET D |-> IF s = {} THEN 0 ELSE f[Pick(s)] + h[s \ {Pick(s)}]]
  <1>1. DOMAIN f = D
    OBVIOUS
  <1>2. SumFunctionOnSet(f, D) = H[D]
    BY DEF SumFunctionOnSet, FoldFunctionOnSet, MapThenFoldSet, Pick
  <1>3. SumFunction(f) = H[D]
    BY <1>1, <1>2 DEF SumFunction
  <1>4. \E h : h = [s \in SUBSET D |-> IF s = {} THEN 0 ELSE f[Pick(s)] + h[s \ {Pick(s)}]]
    <2>1. PICK h : IsFold(h, f, D)
      BY FoldExists
    <2> QED BY <2>1 DEF IsFold
  <1>5. H = [s \in SUBSET D |-> IF s = {} THEN 0 ELSE f[Pick(s)] + H[s \ {Pick(s)}]]
    BY <1>4
  <1> HIDE DEF H
  <1> QED BY <1>3, <1>5 DEF IsFold

\* What a sum is: a number, 0 for nothing, and one term and the rest.
LEMMA SumFacts ==
    ASSUME NEW D, IsFiniteSet(D), NEW f \in [D -> Int]
    PROVE  /\ SumFunction(f) \in Int
           /\ D = {} => SumFunction(f) = 0
           /\ \A x \in D : SumFunction(f) = f[x] + SumFunction([y \in D \ {x} |-> f[y]])
  <1>1. PICK h : IsFold(h, f, D) /\ SumFunction(f) = h[D]
    BY SumIsFold
  <1>2. h[D] \in Int /\ \A x \in D : h[D] = f[x] + h[D \ {x}]
    <2>1. IsSum(h, f, D)
      BY <1>1, FoldFacts
    <2>2. D \in SUBSET D
      OBVIOUS
    <2> QED BY <2>1, <2>2 DEF IsSum
  <1>3. ASSUME NEW x \in D PROVE h[D \ {x}] = SumFunction([y \in D \ {x} |-> f[y]])
    <2> DEFINE E == D \ {x}
               g == [y \in E |-> f[y]]
    <2>1. IsFiniteSet(E) /\ E \in SUBSET D /\ g \in [E -> Int] /\ \A y \in E : f[y] = g[y]
      BY FS_Subset
    <2> HIDE DEF E, g
    <2>2. PICK k : IsFold(k, g, E) /\ SumFunction(g) = k[E]
      BY <2>1, SumIsFold
    <2>3. h[E] = k[E]
      BY <1>1, <2>1, <2>2, FoldsAgree
    <2> QED BY <2>2, <2>3 DEF E, g
  <1>4. D = {} => h[D] = 0
    BY <1>1, FoldAt
  <1> QED BY <1>1, <1>2, <1>3, <1>4

-----------------------------------------------------------------------------
(* Sums over parts of a set. *)

\* The sum of f over the elements of S.
Over(f, S) == SumFunction([x \in S |-> f[x]])

\* A part's sum is a number, 0 for the empty part, and one term and the rest.
LEMMA OverFacts ==
    ASSUME NEW D, IsFiniteSet(D), NEW f \in [D -> Int], NEW S \in SUBSET D
    PROVE  /\ Over(f, S) \in Int
           /\ S = {} => Over(f, S) = 0
           /\ \A x \in S : Over(f, S) = f[x] + Over(f, S \ {x})
  <1> DEFINE g == [x \in S |-> f[x]]
  <1>1. IsFiniteSet(S) /\ g \in [S -> Int]
    BY FS_Subset
  <1>2. ASSUME NEW x \in S PROVE [y \in S \ {x} |-> g[y]] = [y \in S \ {x} |-> f[y]] /\ g[x] = f[x]
    OBVIOUS
  <1>3. Over(f, S) = SumFunction(g) /\ \A x \in S : Over(f, S \ {x}) = SumFunction([y \in S \ {x} |-> g[y]])
    BY <1>2 DEF Over
  <1> HIDE DEF g
  <1>4. /\ SumFunction(g) \in Int
        /\ S = {} => SumFunction(g) = 0
        /\ \A x \in S : SumFunction(g) = g[x] + SumFunction([y \in S \ {x} |-> g[y]])
    BY <1>1, SumFacts
  <1> QED BY <1>2, <1>3, <1>4

\* The sum over all of the domain.
LEMMA OverAll ==
    ASSUME NEW D, NEW f \in [D -> Int]
    PROVE  SumFunction(f) = Over(f, D)
  <1>1. f = [x \in D |-> f[x]]
    OBVIOUS
  <1> QED BY <1>1 DEF Over

\* Equal terms give equal sums.
LEMMA OverSame ==
    ASSUME NEW S, NEW f, NEW g, \A x \in S : f[x] = g[x]
    PROVE  Over(f, S) = Over(g, S)
  <1>1. [x \in S |-> f[x]] = [x \in S |-> g[x]]
    OBVIOUS
  <1> QED BY <1>1 DEF Over

\* Taking an element away leaves fewer.
LEMMA SmallerSet ==
    ASSUME NEW D, IsFiniteSet(D), NEW B \in SUBSET SUBSET D, NEW s \in B,
           \A r \in B : Cardinality(s) <= Cardinality(r), NEW x \in s
    PROVE  /\ s \ {x} \in SUBSET D /\ s \ {x} \notin B
           /\ Cardinality(s) = Cardinality(s \ {x}) + 1 /\ Cardinality(s \ {x}) \in Nat
  <1>1. /\ s \ {x} \in SUBSET D /\ Cardinality(s \ {x}) + 1 = Cardinality(s)
        /\ Cardinality(s \ {x}) \in Nat /\ Cardinality(s) \in Nat
    <2>1. s \in SUBSET D /\ s # {}
      OBVIOUS
    <2> QED BY <2>1, PickFacts
  <1> QED BY <1>1

\* The sum over two disjoint parts.
LEMMA OverUnion ==
    ASSUME NEW D, IsFiniteSet(D), NEW f \in [D -> Int], NEW A \in SUBSET D, NEW B \in SUBSET D, A \cap B = {}
    PROVE  Over(f, A \cup B) = Over(f, A) + Over(f, B)
  <1> DEFINE Bad == {s \in SUBSET B : Over(f, A \cup s) # Over(f, A) + Over(f, s)}
  <1> SUFFICES ASSUME Bad # {} PROVE FALSE
    OBVIOUS
  <1>1. Bad \in SUBSET SUBSET D
    OBVIOUS
  <1>2. \A s : s \in Bad <=> s \in SUBSET B /\ Over(f, A \cup s) # Over(f, A) + Over(f, s)
    OBVIOUS
  <1> HIDE DEF Bad
  <1>3. PICK s \in Bad : \A r \in Bad : Cardinality(s) <= Cardinality(r)
    BY <1>1, SmallestSet
  <1>4. s \in SUBSET B /\ s \in SUBSET D /\ A \cup s \in SUBSET D /\ Over(f, A) \in Int
    BY <1>2, <1>3, OverFacts
  <1>5. s # {}
    <2>1. Over(f, {}) = 0 /\ A \cup {} = A
      BY OverFacts
    <2>2. Over(f, A \cup {}) = Over(f, A) + Over(f, {})
      BY <1>4, <2>1
    <2> QED BY <1>2, <1>3, <2>2
  <1>6. PICK x \in s : TRUE
    BY <1>5
  <1>7. s \ {x} \in SUBSET B /\ s \ {x} \in SUBSET D /\ s \ {x} \notin Bad
    BY <1>1, <1>3, <1>4, SmallerSet
  <1>8. Over(f, A \cup (s \ {x})) = Over(f, A) + Over(f, s \ {x})
    BY <1>2, <1>7
  <1>9. Over(f, s) = f[x] + Over(f, s \ {x}) /\ Over(f, s \ {x}) \in Int /\ f[x] \in Int
    BY <1>4, <1>7, OverFacts
  <1>10. Over(f, A \cup s) = f[x] + Over(f, A \cup (s \ {x}))
    <2>1. (A \cup s) \ {x} = A \cup (s \ {x}) /\ x \in A \cup s
      BY <1>4
    <2> QED BY <1>4, <2>1, OverFacts
  <1>11. Over(f, A \cup s) = Over(f, A) + Over(f, s)
    BY <1>4, <1>8, <1>9, <1>10
  <1> QED BY <1>2, <1>3, <1>11

\* A sum of equal terms.
LEMMA OverConstant ==
    ASSUME NEW D, IsFiniteSet(D), NEW c \in Int, NEW f \in [D -> Int], NEW S \in SUBSET D,
           \A x \in S : f[x] = c
    PROVE  Over(f, S) = Cardinality(S) * c /\ Cardinality(S) \in Nat
  <1>0. Cardinality(S) \in Nat
    BY FS_Subset, FS_CardinalityType
  <1> DEFINE Bad == {s \in SUBSET S : Over(f, s) # Cardinality(s) * c}
  <1> SUFFICES ASSUME Bad # {} PROVE FALSE
    BY <1>0
  <1>1. Bad \in SUBSET SUBSET D
    OBVIOUS
  <1>2. \A s : s \in Bad <=> s \in SUBSET S /\ Over(f, s) # Cardinality(s) * c
    OBVIOUS
  <1> HIDE DEF Bad
  <1>3. PICK s \in Bad : \A r \in Bad : Cardinality(s) <= Cardinality(r)
    BY <1>1, SmallestSet
  <1>4. s \in SUBSET S /\ s \in SUBSET D
    BY <1>2, <1>3
  <1>5. s # {}
    <2>1. Over(f, {}) = 0 /\ Cardinality({}) = 0
      BY OverFacts, FS_EmptySet
    <2>2. 0 * c = 0
      OBVIOUS
    <2> QED BY <1>2, <1>3, <2>1, <2>2
  <1>6. PICK x \in s : TRUE
    BY <1>5
  <1>7. s \ {x} \in SUBSET S /\ s \ {x} \notin Bad /\ Cardinality(s) = Cardinality(s \ {x}) + 1
        /\ Cardinality(s \ {x}) \in Nat
    BY <1>1, <1>3, <1>4, SmallerSet
  <1>8. Over(f, s \ {x}) = Cardinality(s \ {x}) * c
    BY <1>2, <1>7
  <1>9. Over(f, s) = c + Over(f, s \ {x})
    BY <1>4, OverFacts
  <1>10. \A n \in Nat : (n + 1) * c = c + n * c
    OBVIOUS
  <1>11. Over(f, s) = Cardinality(s) * c
    BY <1>7, <1>8, <1>9, <1>10
  <1> QED BY <1>2, <1>3, <1>11

\* A factor of every value is a factor of the sum.
LEMMA OverTimes ==
    ASSUME NEW D, IsFiniteSet(D), NEW c \in Int, NEW f \in [D -> Int], NEW g \in [D -> Int],
           \A x \in D : g[x] = c * f[x], NEW S \in SUBSET D
    PROVE  Over(g, S) = c * Over(f, S)
  <1> DEFINE Bad == {s \in SUBSET D : Over(g, s) # c * Over(f, s)}
  <1> SUFFICES ASSUME Bad # {} PROVE FALSE
    OBVIOUS
  <1>1. Bad \in SUBSET SUBSET D
    OBVIOUS
  <1>2. \A s \in SUBSET D : s \in Bad <=> Over(g, s) # c * Over(f, s)
    OBVIOUS
  <1> HIDE DEF Bad
  <1>3. PICK s \in Bad : \A r \in Bad : Cardinality(s) <= Cardinality(r)
    BY <1>1, SmallestSet
  <1>4. s \in SUBSET D /\ Over(g, s) # c * Over(f, s)
    BY <1>1, <1>2
  <1>5. s # {}
    <2>1. s = {} => Over(g, s) = 0 /\ Over(f, s) = 0
      BY <1>4, OverFacts
    <2> QED BY <1>4, <2>1
  <1>6. PICK x \in s : TRUE
    BY <1>5
  <1>7. s \ {x} \in SUBSET D /\ s \ {x} \notin Bad
    BY <1>1, <1>3, SmallerSet
  <1>8. Over(g, s \ {x}) = c * Over(f, s \ {x})
    BY <1>2, <1>7
  <1>9. Over(g, s) = g[x] + Over(g, s \ {x}) /\ Over(f, s) = f[x] + Over(f, s \ {x})
    BY <1>4, OverFacts
  <1>10. Over(f, s \ {x}) \in Int /\ f[x] \in Int /\ g[x] = c * f[x]
    BY <1>4, <1>7, OverFacts
  <1>11. \A a, b \in Int : c * (a + b) = c * a + c * b
    OBVIOUS
  <1> QED BY <1>4, <1>8, <1>9, <1>10, <1>11

\* A sum without positive terms is not positive, and one with a negative term is negative.
LEMMA OverSign ==
    ASSUME NEW D, IsFiniteSet(D), NEW f \in [D -> Int], NEW S \in SUBSET D, \A x \in S : f[x] <= 0
    PROVE  /\ Over(f, S) <= 0
           /\ (\E x \in S : f[x] < 0) => Over(f, S) < 0
  <1> DEFINE Bad == {s \in SUBSET S : ~(Over(f, s) <= 0)}
  <1>1. Bad \in SUBSET SUBSET D
    OBVIOUS
  <1>2. \A s : s \in Bad <=> s \in SUBSET S /\ ~(Over(f, s) <= 0)
    OBVIOUS
  <1> HIDE DEF Bad
  <1>3. ASSUME Bad # {} PROVE FALSE
    <2>1. PICK s \in Bad : \A r \in Bad : Cardinality(s) <= Cardinality(r)
      BY <1>1, <1>3, SmallestSet
    <2>2. s \in SUBSET S /\ s \in SUBSET D
      BY <1>2, <2>1
    <2>3. s # {}
      <3>1. Over(f, {}) = 0
        BY OverFacts
      <3> QED BY <1>2, <2>1, <3>1
    <2>4. PICK x \in s : TRUE
      BY <2>3
    <2>5. s \ {x} \in SUBSET S /\ s \ {x} \in SUBSET D /\ s \ {x} \notin Bad
      BY <1>1, <2>1, <2>2, SmallerSet
    <2>6. Over(f, s \ {x}) <= 0
      BY <1>2, <2>5
    <2>7. Over(f, s) = f[x] + Over(f, s \ {x}) /\ Over(f, s \ {x}) \in Int /\ f[x] \in Int /\ f[x] <= 0
      BY <2>2, <2>5, OverFacts
    <2>8. Over(f, s) <= 0
      BY <2>6, <2>7
    <2> QED BY <1>2, <2>1, <2>8
  <1>4. \A s \in SUBSET S : Over(f, s) <= 0
    BY <1>2, <1>3
  <1>5. ASSUME NEW x \in S, f[x] < 0 PROVE Over(f, S) < 0
    <2>1. Over(f, S) = f[x] + Over(f, S \ {x}) /\ Over(f, S \ {x}) \in Int /\ f[x] \in Int
      BY OverFacts
    <2>2. Over(f, S \ {x}) <= 0
      BY <1>4
    <2> QED BY <1>5, <2>1, <2>2
  <1> QED BY <1>4, <1>5

\* A sum taken part by part: the parts of P are disjoint.
LEMMA Regroup ==
    ASSUME NEW D, IsFiniteSet(D), NEW f \in [D -> Int], NEW K, IsFiniteSet(K), NEW P \in [K -> SUBSET D],
           \A k, j \in K : k # j => P[k] \cap P[j] = {},
           NEW g \in [K -> Int], \A k \in K : g[k] = Over(f, P[k])
    PROVE  SumFunction(g) = Over(f, UNION {P[k] : k \in K})
  <1> DEFINE Part(s) == UNION {P[k] : k \in s}
             Bad == {s \in SUBSET K : Over(g, s) # Over(f, Part(s))}
  <1>1. Bad \in SUBSET SUBSET K
    OBVIOUS
  <1>2. \A s : s \in Bad <=> s \in SUBSET K /\ Over(g, s) # Over(f, Part(s))
    OBVIOUS
  <1>3. \A s \in SUBSET K : Part(s) \in SUBSET D
    OBVIOUS
  <1>4. Part({}) = {}
    OBVIOUS
  <1>5. \A s \in SUBSET K : \A k \in s : Part(s) = Part(s \ {k}) \cup P[k] /\ Part(s \ {k}) \cap P[k] = {}
    <2> SUFFICES ASSUME NEW s \in SUBSET K, NEW k \in s
                 PROVE  Part(s) = Part(s \ {k}) \cup P[k] /\ Part(s \ {k}) \cap P[k] = {}
      OBVIOUS
    <2>1. Part(s) = Part(s \ {k}) \cup P[k]
      OBVIOUS
    <2>2. \A j \in s \ {k} : P[j] \cap P[k] = {}
      OBVIOUS
    <2>3. Part(s \ {k}) \cap P[k] = {}
      BY <2>2
    <2> QED BY <2>1, <2>3
  <1> HIDE DEF Bad, Part
  <1>6. ASSUME Bad # {} PROVE FALSE
    <2>1. PICK s \in Bad : \A r \in Bad : Cardinality(s) <= Cardinality(r)
      BY <1>1, <1>6, SmallestSet
    <2>2. s \in SUBSET K
      BY <1>2, <2>1
    <2>3. s # {}
      <3>1. {} \in SUBSET K /\ {} \in SUBSET D
        OBVIOUS
      <3>2. Over(g, {}) = 0 /\ Over(f, {}) = 0
        BY <3>1, OverFacts
      <3> QED BY <1>2, <1>4, <2>1, <3>2
    <2>4. PICK k \in s : TRUE
      BY <2>3
    <2>5. s \ {k} \in SUBSET K /\ s \ {k} \notin Bad
      BY <1>1, <2>1, SmallerSet
    <2>6. Over(g, s \ {k}) = Over(f, Part(s \ {k}))
      BY <1>2, <2>5
    <2>7. Over(g, s) = g[k] + Over(g, s \ {k}) /\ Over(g, s \ {k}) \in Int
      BY <2>2, <2>5, OverFacts
    <2>8. k \in K /\ P[k] \in SUBSET D /\ Part(s \ {k}) \in SUBSET D /\ Part(s \ {k}) \cap P[k] = {}
          /\ Part(s) = Part(s \ {k}) \cup P[k] /\ g[k] = Over(f, P[k]) /\ g[k] \in Int
      BY <1>3, <1>5, <2>2, <2>5
    <2>9. Over(f, Part(s \ {k}) \cup P[k]) = Over(f, Part(s \ {k})) + Over(f, P[k])
      <3>1. \A A, B \in SUBSET D : A \cap B = {} => Over(f, A \cup B) = Over(f, A) + Over(f, B)
        BY OverUnion
      <3> QED BY <2>8, <3>1
    <2>10. Over(g, s) = Over(f, Part(s))
      BY <2>6, <2>7, <2>8, <2>9
    <2> QED BY <1>2, <2>1, <2>10
  <1>7. Over(g, K) = Over(f, Part(K))
    BY <1>2, <1>6
  <1>8. SumFunction(g) = Over(g, K)
    BY OverAll
  <1> QED BY <1>7, <1>8 DEF Part

\* The size of a set is the sum of the sizes of its disjoint parts.
LEMMA SizeByParts ==
    ASSUME NEW D, IsFiniteSet(D), NEW K, IsFiniteSet(K), NEW P \in [K -> SUBSET D],
           \A k, j \in K : k # j => P[k] \cap P[j] = {}
    PROVE  SumFunction([k \in K |-> Cardinality(P[k])]) = Cardinality(UNION {P[k] : k \in K})
  <1> DEFINE f == [x \in D |-> 1]
             g == [k \in K |-> Cardinality(P[k])]
             U == UNION {P[k] : k \in K}
  <1>1. f \in [D -> Int] /\ \A x \in D : f[x] = 1
    OBVIOUS
  <1>2. U \in SUBSET D
    OBVIOUS
  <1> HIDE DEF f
  <1>3. ASSUME NEW S \in SUBSET D PROVE Over(f, S) = Cardinality(S) /\ Cardinality(S) \in Nat
    <2>1. Over(f, S) = Cardinality(S) * 1 /\ Cardinality(S) \in Nat
      <3>1. \A x \in S : f[x] = 1
        BY <1>1
      <3> QED BY <1>1, <3>1, OverConstant
    <2> QED BY <2>1
  <1>4. \A k \in K : P[k] \in SUBSET D
    OBVIOUS
  <1>5. g \in [K -> Int] /\ \A k \in K : g[k] = Over(f, P[k])
    BY <1>3, <1>4
  <1> HIDE DEF g, U
  <1>6. SumFunction(g) = Over(f, UNION {P[k] : k \in K})
    BY <1>1, <1>5, Regroup
  <1>7. SumFunction(g) = Cardinality(U)
    BY <1>2, <1>3, <1>6 DEF U
  <1> QED BY <1>7 DEF g, U

\* A finite set of naturals has a largest element.
LEMMA GreatestNatural ==
    ASSUME NEW T \in SUBSET Nat, IsFiniteSet(T), T # {}
    PROVE  \E n \in T : \A m \in T : m <= n
  <1> DEFINE Bad == {s \in SUBSET T : s # {} /\ ~\E n \in s : \A m \in s : m <= n}
  <1> SUFFICES ASSUME Bad # {} PROVE FALSE
    OBVIOUS
  <1>1. Bad \in SUBSET SUBSET T
    OBVIOUS
  <1>2. \A s : s \in Bad <=> s \in SUBSET T /\ s # {} /\ ~\E n \in s : \A m \in s : m <= n
    OBVIOUS
  <1> HIDE DEF Bad
  <1>3. PICK s \in Bad : \A r \in Bad : Cardinality(s) <= Cardinality(r)
    BY <1>1, SmallestSet
  <1>4. PICK x \in s : TRUE
    BY <1>2, <1>3
  <1>5. s \in SUBSET T /\ s \ {x} \in SUBSET T /\ s \ {x} \notin Bad
    BY <1>1, <1>2, <1>3, SmallerSet
  <1>6. CASE s \ {x} = {}
    <2>1. \A m \in s : m = x /\ m \in Nat
      BY <1>5, <1>6
    <2>2. \A m \in s : m <= x
      BY <2>1
    <2> QED BY <1>2, <1>3, <1>4, <2>2
  <1>7. CASE s \ {x} # {}
    <2>1. PICK n \in s \ {x} : \A m \in s \ {x} : m <= n
      BY <1>2, <1>5, <1>7
    <2>2. n \in Nat /\ x \in Nat /\ \A m \in s : m \in Nat
      BY <1>5
    <2> DEFINE top == IF x <= n THEN n ELSE x
    <2>3. top \in s
      OBVIOUS
    <2>4. \A m \in s : m <= top
      BY <2>1, <2>2
    <2> QED BY <1>2, <1>3, <2>3, <2>4
  <1> QED BY <1>6, <1>7

-----------------------------------------------------------------------------
(* Products, quotients, images, and parts that are counted once. *)

\* Products keep an order.
LEMMA ProductOrder ==
    ASSUME NEW a \in Int, NEW b \in Int, NEW p \in Nat
    PROVE  /\ a * p \in Int
           /\ a <= b => a * p <= b * p
           /\ a < b => (a + 1) * p <= b * p
           /\ (a + 1) * p = a * p + p
           /\ a >= 0 => a * p >= 0
  <1>1. \A n \in Nat : n * p >= 0 /\ n * p \in Int
    OBVIOUS
  <1>2. a <= b => (b - a) \in Nat
    OBVIOUS
  <1>3. (b - a) * p = b * p - a * p /\ (a + 1) * p = a * p + p
    OBVIOUS
  <1>4. a < b => (b - a - 1) \in Nat
    OBVIOUS
  <1>5. (b - a - 1) * p = b * p - a * p - p
    OBVIOUS
  <1>6. a >= 0 => a \in Nat
    OBVIOUS
  <1>7. a * p \in Int /\ b * p \in Int
    OBVIOUS
  <1>8. a < b => (a + 1) * p <= b * p
    <2> HAVE a < b
    <2>1. (b - a - 1) * p >= 0
      BY <1>1, <1>4
    <2> QED BY <1>3, <1>5, <1>7, <2>1
  <1>9. a <= b => a * p <= b * p
    <2> HAVE a <= b
    <2>1. (b - a) * p >= 0
      BY <1>1, <1>2
    <2> QED BY <1>3, <1>7, <2>1
  <1> QED BY <1>1, <1>3, <1>6, <1>7, <1>8, <1>9

\* Division of naturals.
LEMMA DivFacts ==
    ASSUME NEW a \in Nat, NEW b \in Nat, b > 0
    PROVE  /\ a \div b \in Nat /\ (a \div b) * b <= a /\ a < (a \div b) * b + b
           /\ a \div b <= a
           /\ \A l \in Nat : l * b <= a /\ a < l * b + b => a \div b = l
  <1>1. a \div b \in Nat /\ (a \div b) * b <= a /\ a < (a \div b) * b + b
    OBVIOUS
  <1> DEFINE d == a \div b
  <1>2. a \div b <= a
    <2>1. b - 1 \in Nat /\ d \in Nat
      BY <1>1
    <2>2. d * (b - 1) >= 0 /\ d * (b - 1) = d * b - d
      <3> HIDE DEF d
      <3> QED BY <2>1
    <2>3. d * b \in Int
      <3> HIDE DEF d
      <3> QED BY <2>1
    <2> HIDE DEF d
    <2>4. d <= a
      BY <1>1, <2>1, <2>2, <2>3 DEF d
    <2> QED BY <2>4 DEF d
  <1>3. ASSUME NEW l \in Nat, l * b <= a, a < l * b + b PROVE d = l
    <2>1. d \in Nat /\ d * b <= a /\ a < d * b + b
      BY <1>1
    <2> HIDE DEF d
    <2>2. d * b \in Int /\ l * b \in Int /\ (d < l => (d + 1) * b <= l * b) /\ (l < d => (l + 1) * b <= d * b)
          /\ (d + 1) * b = d * b + b /\ (l + 1) * b = l * b + b
      BY <2>1, ProductOrder
    <2> QED BY <1>3, <2>1, <2>2
  <1> QED BY <1>1, <1>2, <1>3

\* A set of numbers that are no more than one apart has two elements at most.
LEMMA TwoAtMost ==
    ASSUME NEW S \in SUBSET Nat, \A d, e \in S : d < e => e = d + 1
    PROVE  Cardinality(S) <= 2
  <1>1. CASE S = {}
    BY <1>1, FS_EmptySet
  <1>2. CASE S # {}
    <2>1. PICK d \in S : \A e \in S : d <= e
      BY <1>2, LeastNatural
    <2>2. S \subseteq {d} \cup {d + 1}
      <3>1. ASSUME NEW e \in S PROVE e \in {d} \cup {d + 1}
        <4>1. d \in Nat /\ e \in Nat /\ d <= e
          BY <2>1
        <4> QED BY <4>1
      <3> QED BY <3>1
    <2>3. IsFiniteSet({d}) /\ Cardinality({d}) = 1
      BY FS_Singleton
    <2>4. IsFiniteSet({d} \cup {d + 1}) /\ Cardinality({d} \cup {d + 1}) <= 2
      BY <2>3, FS_AddElement
    <2>5. Cardinality({d} \cup {d + 1}) \in Nat /\ Cardinality(S) <= Cardinality({d} \cup {d + 1})
          /\ Cardinality(S) \in Nat
      BY <2>2, <2>4, FS_Subset, FS_CardinalityType
    <2> QED BY <2>4, <2>5
  <1> QED BY <1>1, <1>2

\* The image of a finite set is finite.
LEMMA ImageFinite ==
    ASSUME NEW S, IsFiniteSet(S), NEW f, DOMAIN f = S, f = [x \in S |-> f[x]]
    PROVE  IsFiniteSet({f[x] : x \in S})
  <1> DEFINE T == {f[x] : x \in S}
  <1>1. f \in Surjection(S, T)
    BY DEF Surjection
  <1> HIDE DEF T
  <1>2. IsFiniteSet(T)
    BY <1>1, FS_Surjection
  <1> QED BY <1>2 DEF T

\* Leaving the terms that are not positive out makes a sum larger, unless they are all 0.
LEMMA PositivePart ==
    ASSUME NEW D, IsFiniteSet(D), NEW f \in [D -> Int]
    PROVE  /\ (\E x \in D : f[x] < 0) => SumFunction(f) < Over(f, {x \in D : f[x] > 0})
           /\ (\A x \in D : f[x] >= 0) => SumFunction(f) = Over(f, {x \in D : f[x] > 0})
  <1> DEFINE P == {x \in D : f[x] > 0}
             N == {x \in D : ~(f[x] > 0)}
  <1>1. P \in SUBSET D /\ N \in SUBSET D /\ P \cap N = {} /\ P \cup N = D
    OBVIOUS
  <1>2. \A x \in N : f[x] \in Int /\ f[x] <= 0
    OBVIOUS
  <1>3. \A x \in D : f[x] < 0 => x \in N
    OBVIOUS
  <1> HIDE DEF N
  <1>4. SumFunction(f) = Over(f, P) + Over(f, N)
    <2>1. SumFunction(f) = Over(f, D)
      BY OverAll
    <2>2. \A A, B \in SUBSET D : A \cap B = {} => Over(f, A \cup B) = Over(f, A) + Over(f, B)
      BY OverUnion
    <2> HIDE DEF P
    <2> QED BY <1>1, <2>1, <2>2
  <1>5. Over(f, P) \in Int /\ Over(f, N) \in Int
    BY <1>1, OverFacts
  <1>6. (\E x \in N : f[x] < 0) => Over(f, N) < 0
    BY <1>1, <1>2, OverSign
  <1>7. ASSUME \A x \in D : f[x] >= 0 PROVE Over(f, N) = 0
    <2>1. \A x \in N : f[x] = 0
      BY <1>1, <1>2, <1>7
    <2>2. Over(f, N) = Cardinality(N) * 0 /\ Cardinality(N) \in Nat
      BY <1>1, <2>1, OverConstant
    <2> QED BY <2>2
  <1> HIDE DEF P
  <1>8. (\E x \in D : f[x] < 0) => SumFunction(f) < Over(f, P)
    BY <1>3, <1>4, <1>5, <1>6
  <1>9. (\A x \in D : f[x] >= 0) => SumFunction(f) = Over(f, P)
    BY <1>4, <1>5, <1>7
  <1> QED BY <1>8, <1>9 DEF P

\* Counting what each period has and no earlier one had counts every element once.
LEMMA NewInEach ==
    ASSUME NEW D, IsFiniteSet(D), NEW K, IsFiniteSet(K), K \subseteq Nat \ {0}, NEW A \in [K -> SUBSET D],
           \A k \in K : \A j \in 1..(k - 1) : j \in K
    PROVE  SumFunction([k \in K |-> Cardinality(A[k] \ UNION {A[j] : j \in 1..(k - 1)})])
             = Cardinality(UNION {A[k] : k \in K})
  <1> DEFINE P == [k \in K |-> A[k] \ UNION {A[j] : j \in 1..(k - 1)}]
  <1>1. P \in [K -> SUBSET D] /\ \A k \in K : P[k] \subseteq A[k]
    OBVIOUS
  <1>2. ASSUME NEW k \in K, NEW j \in K, k < j PROVE P[k] \cap P[j] = {}
    <2>1. k \in 1..(j - 1)
      BY <1>2
    <2>2. P[j] \cap A[k] = {}
      BY <2>1
    <2> QED BY <1>1, <2>2
  <1>3. \A k, j \in K : k # j => P[k] \cap P[j] = {}
    <2>1. \A k, j \in K : k # j => k < j \/ j < k
      OBVIOUS
    <2> HIDE DEF P
    <2> QED BY <1>2, <2>1
  <1>4. UNION {P[k] : k \in K} = UNION {A[k] : k \in K}
    <2>1. ASSUME NEW k \in K, NEW a \in A[k] PROVE \E l \in K : a \in P[l]
      <3> DEFINE T == {l \in K : a \in A[l]}
      <3>1. T \in SUBSET Nat /\ T # {}
        BY <2>1
      <3>2. PICK l \in T : \A m \in T : l <= m
        BY <3>1, LeastNatural
      <3>3. \A j \in 1..(l - 1) : a \notin A[j]
        <4> TAKE j \in 1..(l - 1)
        <4>1. j \in K /\ l \in Nat /\ j \in Nat /\ ~(l <= j)
          OBVIOUS
        <4> QED BY <3>2, <4>1
      <3>4. l \in K /\ a \in A[l]
        OBVIOUS
      <3>5. a \in P[l]
        BY <3>3, <3>4
      <3> QED BY <3>4, <3>5
    <2> HIDE DEF P
    <2> QED BY <1>1, <2>1
  <1>5. SumFunction([k \in K |-> Cardinality(P[k])]) = Cardinality(UNION {P[k] : k \in K})
    <2> HIDE DEF P
    <2> QED BY <1>1, <1>3, SizeByParts
  <1>6. [k \in K |-> Cardinality(P[k])] = [k \in K |-> Cardinality(A[k] \ UNION {A[j] : j \in 1..(k - 1)})]
    OBVIOUS
  <1> QED BY <1>4, <1>5, <1>6
============================================================================
