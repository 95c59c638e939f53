------------------------------ MODULE CostProofs ------------------------------
(***************************************************************************)
(* Proofs about CostCalibration, for any finite set of rows, and what the    *)
(* proofs about the views of the server and of the local pages share.        *)
(*                                                                         *)
(* Most of it is about sums.  A sum of the views is a fold that takes the    *)
(* elements of a set in an order of its own; Sigma is that fold, it exists    *)
(* for every finite set, and the order does not matter.  Two views that add   *)
(* up the same rows by different keys then have the same total.              *)
(***************************************************************************)
EXTENDS CostCalibration, FiniteSetTheorems, FunctionTheorems, WellFoundedInduction, TLAPS

-----------------------------------------------------------------------------
(* Induction. The induction theorems of the library take an operator; the two*)
(* below take a set.                                                        *)

(* A set of natural numbers that has a member has a least one.              *)
LEMMA LeastNumber ==
  ASSUME NEW T \in SUBSET Nat, T # {} PROVE \E x \in T : \A y \in T : x <= y
<1> DEFINE R == {ss \in Nat \X Nat : ss[1] < ss[2]}
<1>1. IsWellFoundedOn(R, Nat)
  BY NatLessThanWellFounded DEF OpToRel
<1>2. \E x \in T : \A y \in T : <<y, x>> \notin R
  <2> HIDE DEF R
  <2> QED BY <1>1, WFMin
<1>3. PICK x \in T : \A y \in T : ~ (y < x)
  BY <1>2
<1> QED BY <1>3

(* Induction over finite sets, for a set of sets. *)
LEMMA SetsByElements ==
  ASSUME NEW S, IsFiniteSet(S), NEW G, {} \in G,
         \A s \in SUBSET S : s # {} /\ (\A x \in s : s \ {x} \in G) => s \in G
  PROVE  SUBSET S \subseteq G
<1> DEFINE Sizes == {Cardinality(s) : s \in {t \in SUBSET S : t \notin G}}
<1>1. \A s \in SUBSET S : IsFiniteSet(s) /\ Cardinality(s) \in Nat
  BY FS_Subset, FS_CardinalityType
<1>2. SUFFICES ASSUME Sizes # {} PROVE FALSE
  OBVIOUS
<1>3. PICK n \in Sizes : \A m \in Sizes : n <= m
  <2>1. Sizes \in SUBSET Nat
    BY <1>1
  <2> HIDE DEF Sizes
  <2> QED BY <1>2, <2>1, LeastNumber
<1>4. PICK s \in SUBSET S : s \notin G /\ n = Cardinality(s)
  OBVIOUS
<1>5. PICK x \in s : s \ {x} \notin G
  BY <1>4
<1>6. s \ {x} \in SUBSET S /\ Cardinality(s \ {x}) = Cardinality(s) - 1
  BY <1>1, FS_RemoveElement
<1>7. Cardinality(s \ {x}) \in Sizes
  BY <1>5, <1>6
<1>8. Cardinality(s) \in Nat /\ Cardinality(s) <= Cardinality(s \ {x})
  BY <1>1, <1>3, <1>4, <1>7
<1> QED BY <1>6, <1>8

(* A map of finitely many has no more values than arguments.                *)
LEMMA ImageIsFinite ==
  ASSUME NEW S, IsFiniteSet(S), NEW f
  PROVE  IsFiniteSet({f[x] : x \in S}) /\ Cardinality({f[x] : x \in S}) <= Cardinality(S)
<1> DEFINE G == {s \in SUBSET S : /\ IsFiniteSet({f[x] : x \in s})
                                  /\ Cardinality({f[x] : x \in s}) <= Cardinality(s)}
<1>1. {} \in G
  <2>1. {f[x] : x \in {}} = {}
    OBVIOUS
  <2> QED BY <2>1, FS_EmptySet
<1>2. ASSUME NEW s \in SUBSET S, s # {}, \A x \in s : s \ {x} \in G PROVE s \in G
  <2>1. PICK x \in s : TRUE
    BY <1>2
  <2> DEFINE T == {f[y] : y \in s \ {x}}
  <2>2. {f[y] : y \in s} = T \cup {f[x]}
    BY <2>1
  <2>3. IsFiniteSet(T) /\ Cardinality(T) <= Cardinality(s \ {x})
    BY <1>2
  <2> HIDE DEF T
  <2>4. IsFiniteSet(s) /\ Cardinality(s) \in Nat /\ Cardinality(s \ {x}) = Cardinality(s) - 1
    BY <2>1, FS_Subset, FS_CardinalityType, FS_RemoveElement
  <2>5. /\ IsFiniteSet(T \cup {f[x]}) /\ Cardinality(T) \in Nat
        /\ Cardinality(T \cup {f[x]}) \in {Cardinality(T), Cardinality(T) + 1}
    BY <2>3, FS_AddElement, FS_CardinalityType
  <2> QED BY <2>2, <2>3, <2>4, <2>5
<1> HIDE DEF G
<1>3. S \in G
  BY <1>1, <1>2, SetsByElements
<1> QED BY <1>3 DEF G

-----------------------------------------------------------------------------
(* What the fold of the sums is equal to, one element after another. *)
Chosen(s) == CHOOSE x \in s : TRUE
IsSum(g, f, S) ==
  g = [s \in SUBSET S |-> IF s = {} THEN 0 ELSE f[Chosen(s)] + g[s \ {Chosen(s)}]]

(* The element that the fold takes next is one of the set.                  *)
LEMMA ChosenIn == ASSUME NEW s, s # {} PROVE Chosen(s) \in s
BY DEF Chosen

(* The fold is defined on every part of a finite set: by induction on the   *)
(* size of the parts, for no recursion is taken on trust.                   *)
LEMMA SumExists ==
  ASSUME NEW S, IsFiniteSet(S), NEW f \in [S -> Int]
  PROVE  \E g \in [SUBSET S -> Int] : IsSum(g, f, S)
<1> DEFINE Sub(n) == {s \in SUBSET S : Cardinality(s) <= n}
           Good(g, n) == \A s \in Sub(n) :
                           g[s] = IF s = {} THEN 0 ELSE f[Chosen(s)] + g[s \ {Chosen(s)}]
           Bad == {n \in Nat : ~\E g \in [Sub(n) -> Int] : Good(g, n)}
<1>1. \A s \in SUBSET S : IsFiniteSet(s) /\ Cardinality(s) \in Nat
  BY FS_Subset, FS_CardinalityType
<1>2. \A s \in SUBSET S : s # {} => /\ Chosen(s) \in s /\ f[Chosen(s)] \in Int
                                    /\ s \ {Chosen(s)} \in SUBSET S
                                    /\ Cardinality(s \ {Chosen(s)}) = Cardinality(s) - 1
  BY <1>1, ChosenIn, FS_RemoveElement
<1>3. 0 \notin Bad
  <2>1. Sub(0) = {{}}
    BY <1>1, FS_EmptySet
  <2>2. [s \in Sub(0) |-> 0] \in [Sub(0) -> Int]
    OBVIOUS
  <2>3. Good([s \in Sub(0) |-> 0], 0)
    BY <2>1
  <2> HIDE DEF Sub, Good
  <2> QED BY <2>2, <2>3
<1>4. ASSUME NEW n \in Nat, n \notin Bad PROVE n + 1 \notin Bad
  <2>1. PICK g \in [Sub(n) -> Int] : Good(g, n)
    BY <1>4
  <2> DEFINE h == [s \in Sub(n + 1) |-> IF s = {} THEN 0 ELSE f[Chosen(s)] + g[s \ {Chosen(s)}]]
  <2>2. \A s \in Sub(n + 1) : s # {} => s \ {Chosen(s)} \in Sub(n)
    BY <1>1, <1>2
  <2>3. h \in [Sub(n + 1) -> Int]
    BY <1>2, <2>2
  <2>4. \A s \in Sub(n) : s \in Sub(n + 1) /\ h[s] = g[s]
    <3>1. \A s \in Sub(n) : s \in Sub(n + 1)
      BY <1>1
    <3> QED BY <2>1, <3>1
  <2>5. Good(h, n + 1)
    BY <2>2, <2>4
  <2> HIDE DEF h, Good, Sub
  <2> QED BY <2>3, <2>5
<1>5. Bad = {}
  <2>1. SUFFICES ASSUME Bad # {} PROVE FALSE
    OBVIOUS
  <2>2. PICK n \in Bad : \A m \in Bad : n <= m
    <3>1. Bad \in SUBSET Nat
      OBVIOUS
    <3> HIDE DEF Bad
    <3> QED BY <2>1, <3>1, LeastNumber
  <2> DEFINE m == n - 1
  <2>3. m \in Nat /\ m \notin Bad /\ m + 1 = n
    <3>1. n \in Nat /\ n # 0
      BY <1>3, <2>2
    <3>2. m \in Nat /\ ~(n <= m) /\ m + 1 = n
      BY <3>1
    <3> HIDE DEF Bad, m
    <3> QED BY <2>2, <3>2
  <2> HIDE DEF Bad, m
  <2> QED BY <1>4, <2>2, <2>3
<1>6. PICK g \in [Sub(Cardinality(S)) -> Int] : Good(g, Cardinality(S))
  BY <1>1, <1>5
<1>7. Sub(Cardinality(S)) = SUBSET S
  <2>1. \A s \in SUBSET S : Cardinality(s) <= Cardinality(S)
    BY FS_Subset
  <2> QED BY <2>1
<1> QED BY <1>6, <1>7 DEF IsSum

(* In whatever order. *)
Takes(g, f, S) ==
  \A s \in SUBSET S : /\ g[s] \in Int /\ g[{}] = 0
                      /\ \A x \in s : g[s] = f[x] + g[s \ {x}]
(* Whatever satisfies the fold may take any element first.                  *)
LEMMA SumTakes ==
  ASSUME NEW S, IsFiniteSet(S), NEW f \in [S -> Int], NEW g, IsSum(g, f, S)
  PROVE  Takes(g, f, S)
<1>0. \A s \in SUBSET S : g[s] = IF s = {} THEN 0 ELSE f[Chosen(s)] + g[s \ {Chosen(s)}]
  BY DEF IsSum
<1> DEFINE N == {s \in SUBSET S : g[s] \in Int}
           G == {s \in SUBSET S : \A x \in s : g[s] = f[x] + g[s \ {x}]}
<1>1. SUBSET S \subseteq N
  <2>1. {} \in N
    <3>1. g[{}] = 0
      BY <1>0
    <3> QED BY <3>1
  <2>2. ASSUME NEW s \in SUBSET S, s # {}, \A x \in s : s \ {x} \in N
        PROVE  s \in N
    <3>1. Chosen(s) \in s
      BY <2>2, ChosenIn
    <3>2. f[Chosen(s)] \in Int /\ g[s \ {Chosen(s)}] \in Int
      BY <2>2, <3>1
    <3>3. g[s] = f[Chosen(s)] + g[s \ {Chosen(s)}]
      BY <1>0, <2>2
    <3> QED BY <3>2, <3>3
  <2> HIDE DEF N
  <2> QED BY <2>1, <2>2, SetsByElements
<1>2. ASSUME NEW s \in SUBSET S, s # {}, \A x \in s : s \ {x} \in G
      PROVE  s \in G
  <2> DEFINE y == Chosen(s)
  <2>1. y \in s /\ g[s] = f[y] + g[s \ {y}] /\ s \ {y} \in G
    BY <1>0, <1>2, ChosenIn
  <2> HIDE DEF y
  <2>2. f[y] \in Int /\ g[s \ {y}] \in Int
    BY <1>1, <2>1
  <2>3. ASSUME NEW x \in s PROVE g[s] = f[x] + g[s \ {x}]
    <3>1. CASE x = y
      BY <2>1, <3>1
    <3>2. CASE x # y
      <4>1. s \ {x} \in G /\ x \in s \ {y} /\ y \in s \ {x}
        BY <1>2, <2>1, <3>2
      <4>2. g[s \ {y}] = f[x] + g[(s \ {y}) \ {x}] /\ g[s \ {x}] = f[y] + g[(s \ {x}) \ {y}]
        BY <2>1, <4>1
      <4>3. (s \ {y}) \ {x} = (s \ {x}) \ {y}
        OBVIOUS
      <4> DEFINE r == g[(s \ {x}) \ {y}]
      <4>4. r \in Int
        <5>1. (s \ {x}) \ {y} \in SUBSET S
          OBVIOUS
        <5> QED BY <1>1, <5>1
      <4>5. f[x] \in Int
        OBVIOUS
      <4> HIDE DEF r
      <4>6. g[s \ {y}] = f[x] + r /\ g[s \ {x}] = f[y] + r
        BY <4>2, <4>3 DEF r
      <4> QED BY <2>1, <2>2, <4>4, <4>5, <4>6
    <3> QED BY <3>1, <3>2
  <2> QED BY <2>1, <2>2, <2>3
<1>3. SUBSET S \subseteq G
  <2>1. {} \in G
    OBVIOUS
  <2> HIDE DEF G
  <2> QED BY <1>2, <2>1, SetsByElements
<1>4. g[{}] = 0
  BY <1>0
<1> QED BY <1>1, <1>3, <1>4 DEF Takes

(* The sum of a function over a part of its domain. *)
Sigma(f, S) == (CHOOSE g : IsSum(g, f, DOMAIN f))[S]

(* Any element may be taken first.                                          *)
LEMMA SigmaTakes ==
  ASSUME NEW D, IsFiniteSet(D), NEW f \in [D -> Int]
  PROVE  /\ Sigma(f, {}) = 0
         /\ \A S \in SUBSET D : Sigma(f, S) \in Int /\ \A x \in S : Sigma(f, S) = f[x] + Sigma(f, S \ {x})
<1>1. DOMAIN f = D
  OBVIOUS
<1> DEFINE g == CHOOSE g : IsSum(g, f, D)
<1>2. IsSum(g, f, D)
  BY SumExists
<1>3. \A S : Sigma(f, S) = g[S]
  BY <1>1 DEF Sigma
<1> HIDE DEF g
<1>4. Takes(g, f, D)
  BY <1>2, SumTakes
<1>5. {} \in SUBSET D
  OBVIOUS
<1>6. g[{}] = 0 /\ \A S \in SUBSET D : g[S] \in Int
  BY <1>4, <1>5 DEF Takes
<1>7. ASSUME NEW S \in SUBSET D, NEW x \in S PROVE Sigma(f, S) = f[x] + Sigma(f, S \ {x})
  <2>1. g[S] = f[x] + g[S \ {x}]
    BY <1>4 DEF Takes
  <2>2. Sigma(f, S) = g[S] /\ Sigma(f, S \ {x}) = g[S \ {x}]
    BY <1>3
  <2> QED BY <2>1, <2>2
<1>8. Sigma(f, {}) = 0
  BY <1>3, <1>6
<1>9. ASSUME NEW S \in SUBSET D PROVE Sigma(f, S) \in Int
  BY <1>3, <1>6
<1> QED BY <1>7, <1>8, <1>9

(* Two parts that have nothing in common add up.                            *)
LEMMA SigmaUnion ==
  ASSUME NEW D, IsFiniteSet(D), NEW f \in [D -> Int],
         NEW A \in SUBSET D, NEW B \in SUBSET D, A \cap B = {}
  PROVE  Sigma(f, A \cup B) = Sigma(f, A) + Sigma(f, B)
<1> DEFINE G == {s \in SUBSET B : Sigma(f, A \cup s) = Sigma(f, A) + Sigma(f, s)}
<1>0. \A S \in SUBSET D : Sigma(f, S) \in Int
  BY SigmaTakes
<1>1. {} \in G
  <2>1. A \cup {} = A /\ Sigma(f, {}) = 0
    BY SigmaTakes
  <2> QED BY <1>0, <2>1
<1>2. ASSUME NEW s \in SUBSET B, s # {}, \A x \in s : s \ {x} \in G PROVE s \in G
  <2>1. PICK x \in s : TRUE
    BY <1>2
  <2>2. (A \cup s) \ {x} = A \cup (s \ {x}) /\ A \cup s \in SUBSET D /\ x \in D /\ x \in A \cup s
    OBVIOUS
  <2>3. Sigma(f, A \cup s) = f[x] + Sigma(f, A \cup (s \ {x})) /\ Sigma(f, s) = f[x] + Sigma(f, s \ {x})
    BY <2>1, <2>2, SigmaTakes
  <2>4. Sigma(f, A \cup (s \ {x})) = Sigma(f, A) + Sigma(f, s \ {x})
    BY <1>2
  <2>5. f[x] \in Int /\ Sigma(f, A) \in Int /\ Sigma(f, s \ {x}) \in Int
    BY <1>0, <2>2
  <2> QED BY <2>3, <2>4, <2>5
<1>3. IsFiniteSet(B)
  BY FS_Subset
<1> HIDE DEF G
<1>4. B \in G
  BY <1>1, <1>2, <1>3, SetsByElements
<1> QED BY <1>4 DEF G

(* A sum is monotone in what is summed.                                     *)
LEMMA SigmaAtMost ==
  ASSUME NEW D, IsFiniteSet(D), NEW f \in [D -> Int],
         NEW E, IsFiniteSet(E), NEW h \in [E -> Int],
         NEW A \in SUBSET (D \cap E), \A x \in A : f[x] <= h[x]
  PROVE  Sigma(f, A) <= Sigma(h, A)
<1> DEFINE G == {s \in SUBSET A : Sigma(f, s) <= Sigma(h, s)}
<1>0. \A s \in SUBSET A : Sigma(f, s) \in Int /\ Sigma(h, s) \in Int
  BY SigmaTakes
<1>1. {} \in G
  BY SigmaTakes
<1>2. ASSUME NEW s \in SUBSET A, s # {}, \A x \in s : s \ {x} \in G PROVE s \in G
  <2>1. PICK x \in s : TRUE
    BY <1>2
  <2>2. s \in SUBSET D /\ s \in SUBSET E
    OBVIOUS
  <2>3. Sigma(f, s) = f[x] + Sigma(f, s \ {x})
    BY <2>1, <2>2, SigmaTakes
  <2>4. Sigma(h, s) = h[x] + Sigma(h, s \ {x})
    BY <2>1, <2>2, SigmaTakes
  <2>5. f[x] \in Int /\ h[x] \in Int /\ f[x] <= h[x]
    BY <2>1, <2>2
  <2>6. /\ Sigma(f, s \ {x}) \in Int /\ Sigma(h, s \ {x}) \in Int
        /\ Sigma(f, s \ {x}) <= Sigma(h, s \ {x})
    BY <1>0, <1>2
  <2> QED BY <2>3, <2>4, <2>5, <2>6
<1>3. IsFiniteSet(A)
  BY FS_Subset
<1> HIDE DEF G
<1>4. A \in G
  BY <1>1, <1>2, <1>3, SetsByElements
<1> QED BY <1>4 DEF G

(* A sum depends on what is summed only.                                    *)
LEMMA SigmaSame ==
  ASSUME NEW D, IsFiniteSet(D), NEW f \in [D -> Int],
         NEW E, IsFiniteSet(E), NEW h \in [E -> Int],
         NEW A \in SUBSET (D \cap E), \A x \in A : f[x] = h[x]
  PROVE  Sigma(f, A) = Sigma(h, A)
<1>1. \A x \in A : f[x] <= h[x] /\ h[x] <= f[x]
  OBVIOUS
<1>2. A \in SUBSET D /\ A \in SUBSET E /\ A \in SUBSET (E \cap D)
  OBVIOUS
<1>3. Sigma(f, A) \in Int /\ Sigma(h, A) \in Int
  BY <1>2, SigmaTakes
<1>4. Sigma(f, A) <= Sigma(h, A) /\ Sigma(h, A) <= Sigma(f, A)
  BY <1>1, <1>2, SigmaAtMost
<1> QED BY <1>3, <1>4

(* Of natural numbers, over more and more of them. *)
LEMMA SigmaGrows ==
  ASSUME NEW D, IsFiniteSet(D), NEW f \in [D -> Int],
         NEW B \in SUBSET D, \A x \in B : f[x] >= 0, NEW A \in SUBSET B
  PROVE  0 <= Sigma(f, A) /\ Sigma(f, A) <= Sigma(f, B)
<1> DEFINE z == [x \in D |-> 0]
           G == {s \in SUBSET B : Sigma(f, s) >= 0}
<1>0. \A s \in SUBSET B : Sigma(f, s) \in Int
  BY SigmaTakes
<1>1. {} \in G
  BY SigmaTakes
<1>2. ASSUME NEW s \in SUBSET B, s # {}, \A x \in s : s \ {x} \in G PROVE s \in G
  <2>1. PICK x \in s : TRUE
    BY <1>2
  <2>2. Sigma(f, s) = f[x] + Sigma(f, s \ {x})
    BY <2>1, SigmaTakes
  <2>3. f[x] \in Int /\ f[x] >= 0
    BY <2>1
  <2>4. Sigma(f, s \ {x}) \in Int /\ Sigma(f, s \ {x}) >= 0
    BY <1>0, <1>2
  <2> QED BY <2>2, <2>3, <2>4
<1>3. IsFiniteSet(B)
  BY FS_Subset
<1>4. SUBSET B \subseteq G
  <2> HIDE DEF G
  <2> QED BY <1>1, <1>2, <1>3, SetsByElements
<1>5. Sigma(f, A) >= 0 /\ Sigma(f, B \ A) >= 0
  BY <1>4
<1>6. Sigma(f, A \cup (B \ A)) = Sigma(f, A) + Sigma(f, B \ A)
  <2>1. A \in SUBSET D /\ B \ A \in SUBSET D /\ A \cap (B \ A) = {}
    OBVIOUS
  <2> QED BY <2>1, SigmaUnion
<1>7. A \cup (B \ A) = B
  OBVIOUS
<1> DEFINE a == Sigma(f, A)  b == Sigma(f, B \ A)
<1>8. a \in Int /\ b \in Int /\ a >= 0 /\ b >= 0 /\ Sigma(f, B) = a + b
  BY <1>0, <1>5, <1>6, <1>7
<1> HIDE DEF a, b
<1>9. 0 <= a /\ a <= Sigma(f, B)
  BY <1>8
<1> QED BY <1>9 DEF a

(* Sorted by a key and added key by key. *)
LEMMA SigmaByKey ==
  ASSUME NEW D, IsFiniteSet(D), NEW f \in [D -> Int], NEW A \in SUBSET D,
         NEW K, IsFiniteSet(K), NEW key \in [A -> K]
  PROVE  LET part == [d \in K |-> Sigma(f, {x \in A : key[x] = d})]
         IN part \in [K -> Int] /\ Sigma(part, K) = Sigma(f, A)
<1> DEFINE part == [d \in K |-> Sigma(f, {x \in A : key[x] = d})]
           In(L) == {x \in A : key[x] \in L}
           G == {L \in SUBSET K : Sigma(part, L) = Sigma(f, In(L))}
<1>0. part \in [K -> Int]
  <2>1. \A d \in K : Sigma(f, {x \in A : key[x] = d}) \in Int
    BY SigmaTakes
  <2> QED BY <2>1
<1>1. {} \in G
  <2>1. In({}) = {}
    OBVIOUS
  <2>2. Sigma(f, {}) = 0 /\ Sigma(part, {}) = 0
    <3> HIDE DEF part
    <3> QED BY <1>0, SigmaTakes
  <2> QED BY <2>1, <2>2
<1>2. ASSUME NEW L \in SUBSET K, L # {}, \A d \in L : L \ {d} \in G PROVE L \in G
  <2>1. PICK d \in L : TRUE
    BY <1>2
  <2> DEFINE P == {x \in A : key[x] = d}  Q == In(L \ {d})
  <2>2. P \cup Q = In(L) /\ P \cap Q = {} /\ P \in SUBSET D /\ Q \in SUBSET D
    BY <2>1
  <2>3. Sigma(f, P \cup Q) = Sigma(f, P) + Sigma(f, Q)
    <3> HIDE DEF P, Q
    <3> QED BY <2>2, SigmaUnion
  <2>4. Sigma(part, L) = part[d] + Sigma(part, L \ {d})
    <3> HIDE DEF part
    <3> QED BY <1>0, <2>1, SigmaTakes
  <2>5. part[d] = Sigma(f, P) /\ Sigma(part, L \ {d}) = Sigma(f, Q)
    BY <1>2
  <2> QED BY <2>2, <2>3, <2>4, <2>5
<1>3. K \in G
  <2> HIDE DEF G
  <2> QED BY <1>1, <1>2, SetsByElements
<1>4. In(K) = A
  OBVIOUS
<1> QED BY <1>0, <1>3, <1>4

(* A sum of ones counts.                                                    *)
LEMMA SigmaOfOnes ==
  ASSUME NEW D, IsFiniteSet(D), NEW f \in [D -> Int], NEW A \in SUBSET D, \A x \in A : f[x] = 1
  PROVE  Sigma(f, A) = Cardinality(A)
<1> DEFINE G == {s \in SUBSET A : Sigma(f, s) = Cardinality(s)}
<1>1. {} \in G
  BY SigmaTakes, FS_EmptySet
<1>2. ASSUME NEW s \in SUBSET A, s # {}, \A x \in s : s \ {x} \in G PROVE s \in G
  <2>1. PICK x \in s : TRUE
    BY <1>2
  <2>2. Sigma(f, s) = 1 + Sigma(f, s \ {x})
    BY <2>1, SigmaTakes
  <2>3. IsFiniteSet(s) /\ Cardinality(s) \in Nat /\ Cardinality(s \ {x}) = Cardinality(s) - 1
    BY <2>1, FS_Subset, FS_CardinalityType, FS_RemoveElement
  <2> QED BY <1>2, <2>2, <2>3
<1>3. IsFiniteSet(A)
  BY FS_Subset
<1> HIDE DEF G
<1>4. A \in G
  BY <1>1, <1>2, <1>3, SetsByElements
<1> QED BY <1>4 DEF G

-----------------------------------------------------------------------------
(* The sums of the views are Sigma.                                         *)

(* SumOver, whatever it runs over.                                          *)
LEMMA SumOverIsSigma ==
  ASSUME NEW K, NEW f, f = [x \in K |-> f[x]]
  PROVE  SumOver(f) = Sigma(f, K)
<1> DEFINE Is(g) == g = [s \in SUBSET K |-> IF s = {} THEN 0
                     ELSE f[CHOOSE x \in s : TRUE] + g[s \ {CHOOSE x \in s : TRUE}]]
<1>0. DOMAIN f = K
  OBVIOUS
<1>2. \A g : Is(g) <=> IsSum(g, f, K)
  BY DEF IsSum, Chosen
<1>3. (CHOOSE g : Is(g)) = CHOOSE g : IsSum(g, f, K)
  <2> HIDE DEF Is
  <2> QED BY <1>2, Zenon
<1>4. SumOver(f) = (CHOOSE g : Is(g))[K]
  BY <1>0 DEF SumOver, MapThenSumSet, MapThenFoldSet
<1> QED BY <1>0, <1>3, <1>4 DEF Sigma

(* The sum over a part of what a function is given for.                      *)
LEMMA SumOfPart ==
  ASSUME NEW D, IsFiniteSet(D), NEW h \in [D -> Int], NEW S \in SUBSET D, NEW f, f = [x \in S |-> h[x]]
  PROVE  SumOver(f) = Sigma(h, S)
<1>1. f = [x \in S |-> f[x]] /\ f \in [S -> Int] /\ \A x \in S : f[x] = h[x]
  OBVIOUS
<1>2. IsFiniteSet(S) /\ S \in SUBSET (S \cap D)
  BY FS_Subset
<1>3. Sigma(f, S) = Sigma(h, S)
  BY <1>1, <1>2, SigmaSame
<1> QED BY <1>1, <1>3, SumOverIsSigma

(* Sums of the same rows add up.                                            *)
LEMMA SigmaPlus ==
  ASSUME NEW D, IsFiniteSet(D), NEW f \in [D -> Int], NEW h \in [D -> Int], NEW A \in SUBSET D,
         NEW both \in [D -> Int], \A x \in A : both[x] = f[x] + h[x]
  PROVE  Sigma(both, A) = Sigma(f, A) + Sigma(h, A)
<1> DEFINE G == {s \in SUBSET A : Sigma(both, s) = Sigma(f, s) + Sigma(h, s)}
<1>0. \A s \in SUBSET A : Sigma(f, s) \in Int /\ Sigma(h, s) \in Int /\ Sigma(both, s) \in Int
  BY SigmaTakes
<1>1. {} \in G
  BY SigmaTakes
<1>2. ASSUME NEW s \in SUBSET A, s # {}, \A x \in s : s \ {x} \in G PROVE s \in G
  <2>1. PICK x \in s : TRUE
    BY <1>2
  <2>2. Sigma(f, s) = f[x] + Sigma(f, s \ {x})
    BY <2>1, SigmaTakes
  <2>3. Sigma(h, s) = h[x] + Sigma(h, s \ {x})
    BY <2>1, SigmaTakes
  <2>4. Sigma(both, s) = both[x] + Sigma(both, s \ {x})
    BY <2>1, SigmaTakes
  <2>5. f[x] \in Int /\ h[x] \in Int /\ both[x] = f[x] + h[x]
    BY <2>1
  <2>6. /\ Sigma(f, s \ {x}) \in Int /\ Sigma(h, s \ {x}) \in Int
        /\ Sigma(both, s \ {x}) = Sigma(f, s \ {x}) + Sigma(h, s \ {x})
    BY <1>0, <1>2
  <2> QED BY <2>2, <2>3, <2>4, <2>5, <2>6
<1>3. IsFiniteSet(A)
  BY FS_Subset
<1> HIDE DEF G
<1>4. A \in G
  BY <1>1, <1>2, <1>3, SetsByElements
<1> QED BY <1>4 DEF G

(* A factor may be taken out of a sum.                                      *)
LEMMA SigmaTimes ==
  ASSUME NEW D, IsFiniteSet(D), NEW f \in [D -> Int], NEW n \in Int, NEW A \in SUBSET D
  PROVE  Sigma([x \in D |-> n * f[x]], A) = n * Sigma(f, A)
<1> DEFINE h == [x \in D |-> n * f[x]]
           G == {s \in SUBSET A : Sigma(h, s) = n * Sigma(f, s)}
<1>0. h \in [D -> Int] /\ \A s \in SUBSET A : Sigma(f, s) \in Int /\ Sigma(h, s) \in Int
  <2>1. h \in [D -> Int]
    OBVIOUS
  <2> HIDE DEF h
  <2> QED BY <2>1, SigmaTakes
<1>1. {} \in G
  <2>1. Sigma(f, {}) = 0 /\ Sigma(h, {}) = 0
    <3> HIDE DEF h
    <3> QED BY <1>0, SigmaTakes
  <2> QED BY <2>1
<1>2. ASSUME NEW s \in SUBSET A, s # {}, \A x \in s : s \ {x} \in G PROVE s \in G
  <2>1. PICK x \in s : TRUE
    BY <1>2
  <2>2. Sigma(f, s) = f[x] + Sigma(f, s \ {x})
    BY <2>1, SigmaTakes
  <2>3. Sigma(h, s) = h[x] + Sigma(h, s \ {x})
    <3> HIDE DEF h
    <3> QED BY <1>0, <2>1, SigmaTakes
  <2>4. h[x] = n * f[x] /\ f[x] \in Int
    BY <2>1
  <2> DEFINE r == Sigma(f, s \ {x})
  <2>5. r \in Int /\ Sigma(h, s \ {x}) = n * r
    BY <1>0, <1>2
  <2> HIDE DEF h, r
  <2>6. n * (f[x] + r) = n * f[x] + n * r
    BY <2>4, <2>5
  <2> QED BY <2>2, <2>3, <2>4, <2>5, <2>6 DEF r
<1>3. IsFiniteSet(A)
  BY FS_Subset
<1> HIDE DEF G, h
<1>4. A \in G
  BY <1>1, <1>2, <1>3, SetsByElements
<1> QED BY <1>4 DEF G, h

(* A sum of equal amounts.                                                  *)
LEMMA SigmaOfEqual ==
  ASSUME NEW D, IsFiniteSet(D), NEW f \in [D -> Int], NEW A \in SUBSET D, NEW n \in Int,
         \A x \in A : f[x] = n
  PROVE  Sigma(f, A) = n * Cardinality(A)
<1> DEFINE one == [x \in D |-> 1]  equal == [x \in D |-> n * one[x]]
<1>1. /\ one \in [D -> Int] /\ equal \in [D -> Int] /\ A \in SUBSET (D \cap D)
      /\ \A x \in A : one[x] = 1 /\ f[x] = equal[x]
  OBVIOUS
<1> HIDE DEF one
<1>2. Sigma(equal, A) = n * Sigma(one, A)
  BY <1>1, SigmaTimes
<1>3. Sigma(one, A) = Cardinality(A)
  BY <1>1, SigmaOfOnes
<1> HIDE DEF equal
<1>4. Sigma(f, A) = Sigma(equal, A)
  BY <1>1, SigmaSame
<1> QED BY <1>2, <1>3, <1>4

-----------------------------------------------------------------------------
(* Numbers.                                                                 *)

(* A quotient of natural numbers is one.                                    *)
LEMMA Quotients == ASSUME NEW a \in Nat, NEW b \in Nat, b > 0 PROVE a \div b \in Nat
<1>1. a \div b \in Int
  OBVIOUS
<1>2. a \div b >= 0
  OBVIOUS
<1> QED BY <1>1, <1>2

(* A quotient grows with what is divided.                                   *)
LEMMA QuotientsGrow ==
  ASSUME NEW a \in Int, NEW b \in Int, NEW d \in Int, d > 0, a <= b
  PROVE  a \div d <= b \div d
<1> DEFINE p == a \div d  q == b \div d
<1>1. p \in Int /\ q \in Int /\ p * d <= a /\ b < q * d + d
  OBVIOUS
<1> HIDE DEF p, q
<1>2. ASSUME p >= q + 1 PROVE FALSE
  <2>1. p * d >= (q + 1) * d
    BY <1>1, <1>2
  <2>2. (q + 1) * d = q * d + d
    BY <1>1
  <2> DEFINE pd == p * d  qd == q * d
  <2>3. pd \in Int /\ qd \in Int /\ pd >= qd + d
    BY <1>1, <2>1, <2>2
  <2>4. pd <= a /\ b < qd + d
    BY <1>1
  <2> HIDE DEF pd, qd
  <2> QED BY <2>3, <2>4
<1>3. p <= q
  BY <1>1, <1>2
<1> QED BY <1>3 DEF p, q

(* Which page a row is on, and where.                                       *)
LEMMA Remainders ==
  ASSUME NEW a \in Nat, NEW n \in Nat \ {0}
  PROVE  /\ a \div n \in Nat /\ a % n \in 0 .. (n - 1) /\ a = (a \div n) * n + (a % n)
         /\ \A m \in Nat : a < m * n => a \div n < m
<1>1. a \div n \in Nat
  BY Quotients
<1>2. a % n \in 0 .. (n - 1) /\ a = (a \div n) * n + (a % n)
  OBVIOUS
<1>3. ASSUME NEW m \in Nat, a < m * n PROVE a \div n < m
  <2> DEFINE q == a \div n
  <2>1. q * n <= a
    BY <1>2
  <2> HIDE DEF q
  <2>2. q * n < m * n /\ q \in Nat
    BY <1>1, <1>2, <1>3, <2>1 DEF q
  <2>3. CASE q >= m
    <3>1. q * n >= m * n
      BY <2>2, <2>3
    <3> QED BY <2>2, <3>1
  <2> QED BY <2>2, <2>3 DEF q
<1> QED BY <1>1, <1>2, <1>3

(* Products of numbers that are not negative.                               *)
LEMMA Products ==
  ASSUME NEW m \in Int, NEW n \in Int
  PROVE  /\ m * n \in Int /\ m * n = n * m /\ m * m >= 0
         /\ m > 0 /\ m * n >= 0 => n >= 0
<1>1. m * n \in Int /\ m * n = n * m
  OBVIOUS
<1>2. m * m >= 0
  <2>1. CASE m >= 0
    BY <2>1
  <2>2. CASE m < 0
    BY <2>2
  <2> QED BY <2>1, <2>2
<1>3. ASSUME m > 0, n < 0 PROVE m * n < 0
  BY <1>3
<1> QED BY <1>1, <1>2, <1>3

(* One more term, against the square of the sum.                            *)
LEMMA SquareOfSum ==
  ASSUME NEW k \in Nat \ {0}, NEW t \in Int, NEW q \in Int, NEW a \in Int, t * t <= k * q
  PROVE  (t + a) * (t + a) <= (k + 1) * (q + a * a)
<1> DEFINE d == q + k * (a * a) - 2 * (t * a)
           e == t - k * a
<1>1. e * e = t * t - 2 * (k * (t * a)) + k * (k * (a * a))
  OBVIOUS
<1>2. k * d = k * q + k * (k * (a * a)) - 2 * (k * (t * a))
  OBVIOUS
<1>3. d \in Int /\ e \in Int /\ e * e \in Int /\ k * d \in Int
  OBVIOUS
<1>4. e * e >= 0 /\ k * d >= e * e
  <2>1. e * e >= 0
    <3> HIDE DEF e
    <3> QED BY <1>3, Products
  <2> QED BY <1>1, <1>2, <2>1
<1>5. d >= 0
  <2> HIDE DEF d, e
  <2>1. k \in Int /\ k > 0 /\ k * d >= 0
    BY <1>3, <1>4
  <2> QED BY <1>3, <2>1, Products
<1>6. (t + a) * (t + a) = t * t + 2 * (t * a) + a * a
  OBVIOUS
<1>7. (k + 1) * (q + a * a) = k * q + q + k * (a * a) + a * a
  OBVIOUS
<1> DEFINE tt == t * t  kq == k * q  ta == t * a  aa == a * a  kaa == k * (a * a)
<1>8. tt \in Int /\ kq \in Int /\ ta \in Int /\ aa \in Int /\ kaa \in Int
  OBVIOUS
<1>9. tt <= kq /\ q + kaa - 2 * ta >= 0
  BY <1>5
<1>10. (t + a) * (t + a) = tt + 2 * ta + aa /\ (k + 1) * (q + a * a) = kq + q + kaa + aa
  BY <1>6, <1>7
<1> HIDE DEF tt, kq, ta, aa, kaa
<1> QED BY <1>8, <1>9, <1>10

(* The lesser of two numbers.                                               *)
LEMMA LeastAmong ==
  ASSUME NEW a \in Int, NEW b \in Int
  PROVE  Min({a, b}) = IF a <= b THEN a ELSE b
BY DEF Min

(* The greater of two numbers.                                              *)
LEMMA GreatestOf ==
  ASSUME NEW a \in Int, NEW b \in Int
  PROVE  Max({a, b}) = IF a >= b THEN a ELSE b
BY DEF Max

(* The least and the greatest of finitely many numbers. *)
LEMMA LeastAndGreatest ==
  ASSUME NEW S \in SUBSET Int, IsFiniteSet(S), S # {}
  PROVE  /\ \E x \in S : \A y \in S : x <= y
         /\ \E x \in S : \A y \in S : y <= x
<1> DEFINE Has(s) == (\E x \in s : \A y \in s : x <= y) /\ (\E x \in s : \A y \in s : y <= x)
           G == {s \in SUBSET S : s # {} => Has(s)}
<1>1. {} \in G
  OBVIOUS
<1>2. ASSUME NEW s \in SUBSET S, s # {}, \A x \in s : s \ {x} \in G PROVE s \in G
  <2>1. PICK z \in s : TRUE
    BY <1>2
  <2>2. CASE s \ {z} = {}
    <3>1. \A y \in s : y = z
      BY <2>2
    <3> QED BY <2>1, <3>1
  <2>3. CASE s \ {z} # {}
    <3>1. PICK a \in s \ {z} : \A y \in s \ {z} : a <= y
      BY <1>2, <2>1, <2>3
    <3>2. PICK b \in s \ {z} : \A y \in s \ {z} : y <= b
      BY <1>2, <2>1, <2>3
    <3>3. \E x \in s : \A y \in s : x <= y
      <4>1. CASE a <= z
        BY <3>1, <4>1
      <4>2. CASE ~(a <= z)
        BY <3>1, <4>2
      <4> QED BY <4>1, <4>2
    <3>4. \E x \in s : \A y \in s : y <= x
      <4>1. CASE z <= b
        BY <3>2, <4>1
      <4>2. CASE ~(z <= b)
        BY <3>2, <4>2
      <4> QED BY <4>1, <4>2
    <3> QED BY <3>3, <3>4
  <2> QED BY <2>2, <2>3
<1> HIDE DEF G
<1>3. S \in G
  BY <1>1, <1>2, SetsByElements
<1> QED BY <1>3 DEF G

(* Min and Max are bounds, and attained.                                    *)
LEMMA MinAndMax ==
  ASSUME NEW S \in SUBSET Int, IsFiniteSet(S), S # {}
  PROVE  Min(S) \in S /\ Max(S) \in S /\ \A y \in S : Min(S) <= y /\ y <= Max(S)
<1>1. Min(S) \in S /\ \A y \in S : Min(S) <= y
  BY LeastAndGreatest DEF Min
<1>2. Max(S) \in S /\ \A y \in S : y <= Max(S)
  BY LeastAndGreatest DEF Max
<1> QED BY <1>1, <1>2

(* A limit that is not reached cuts nothing off.                            *)
LEMMA WholeMin ==
  ASSUME NEW n \in Nat, NEW k \in Nat, k <= n
  PROVE  Min({n, k}) = k
BY DEF Min

-----------------------------------------------------------------------------
(* More about sums: one per key, injective maps, Cauchy and Schwarz.        *)

(* An injective map of finitely many has as many values as arguments.       *)
LEMMA OneAddendEach ==
  ASSUME NEW S, IsFiniteSet(S), NEW f, \A x, y \in S : f[x] = f[y] => x = y
  PROVE  Cardinality({f[x] : x \in S}) = Cardinality(S)
<1> DEFINE T == {f[x] : x \in S}  g == [t \in T |-> CHOOSE x \in S : f[x] = t]
<1>1. IsFiniteSet(T) /\ Cardinality(T) <= Cardinality(S)
  BY ImageIsFinite
<1>2. \A x \in S : g[f[x]] = x
  OBVIOUS
<1>3. {g[t] : t \in T} = S
  <2>1. \A t \in T : g[t] \in S
    OBVIOUS
  <2>2. \A x \in S : f[x] \in T
    OBVIOUS
  <2> HIDE DEF g, T
  <2> QED BY <1>2, <2>1, <2>2
<1> HIDE DEF T, g
<1>4. Cardinality(S) <= Cardinality(T)
  BY <1>1, <1>3, ImageIsFinite
<1>5. Cardinality(S) \in Nat /\ Cardinality(T) \in Nat
  BY <1>1, FS_CardinalityType
<1> QED BY <1>1, <1>4, <1>5 DEF T

(* Cauchy and Schwarz, against a constant. *)
LEMMA SigmaOfSquares ==
  ASSUME NEW D, IsFiniteSet(D), NEW f \in [D -> Int], NEW A \in SUBSET D
  PROVE  Sigma(f, A) * Sigma(f, A) <= Cardinality(A) * Sigma([x \in D |-> f[x] * f[x]], A)
<1> DEFINE sq == [x \in D |-> f[x] * f[x]]
           G == {s \in SUBSET A : Sigma(f, s) * Sigma(f, s) <= Cardinality(s) * Sigma(sq, s)}
<1>0. sq \in [D -> Int]
  OBVIOUS
<1>1. {} \in G
  <2>1. Sigma(f, {}) = 0 /\ Sigma(sq, {}) = 0 /\ Cardinality({}) = 0
    <3> HIDE DEF sq
    <3> QED BY <1>0, SigmaTakes, FS_EmptySet
  <2> QED BY <2>1
<1>2. ASSUME NEW s \in SUBSET A, s # {}, \A x \in s : s \ {x} \in G PROVE s \in G
  <2>1. PICK x \in s : TRUE
    BY <1>2
  <2> DEFINE k == Cardinality(s \ {x})  t == Sigma(f, s \ {x})  q == Sigma(sq, s \ {x})  a == f[x]
  <2>2. Sigma(f, s) = a + t /\ Sigma(sq, s) = a * a + q
    <3>1. sq[x] = a * a
      BY <2>1
    <3>2. s \in SUBSET D
      OBVIOUS
    <3> HIDE DEF sq
    <3>3. Sigma(f, s) = f[x] + Sigma(f, s \ {x})
      BY <2>1, <3>2, SigmaTakes
    <3>4. Sigma(sq, s) = sq[x] + Sigma(sq, s \ {x})
      BY <1>0, <2>1, <3>2, SigmaTakes
    <3> QED BY <3>1, <3>3, <3>4
  <2>3. a \in Int /\ t \in Int /\ q \in Int
    <3> HIDE DEF sq
    <3>1. s \ {x} \in SUBSET D
      OBVIOUS
    <3>2. t \in Int /\ q \in Int
      BY <1>0, <3>1, SigmaTakes
    <3> QED BY <2>1, <3>2
  <2>4. k \in Nat /\ Cardinality(s) = k + 1
    <3>1. IsFiniteSet(s) /\ Cardinality(s) \in Nat /\ IsFiniteSet(s \ {x}) /\ k \in Nat
      BY FS_Subset, FS_CardinalityType
    <3>2. k = Cardinality(s) - 1
      BY <2>1, <3>1, FS_RemoveElement
    <3> QED BY <3>1, <3>2
  <2>5. t * t <= k * q
    BY <1>2
  <2>6. k = 0 => t = 0 /\ q = 0
    <3> HIDE DEF sq
    <3>1. k = 0 => s \ {x} = {}
      BY FS_Subset, FS_EmptySet
    <3> QED BY <1>0, <3>1, SigmaTakes
  <2> HIDE DEF k, t, q, a, sq
  <2>7. (t + a) * (t + a) <= (k + 1) * (q + a * a)
    <3>1. CASE k = 0
      BY <2>3, <2>6, <3>1
    <3>2. CASE k # 0
      <4>1. k \in Nat \ {0}
        BY <2>4, <3>2
      <4> QED BY <2>3, <2>5, <4>1, SquareOfSum
    <3> QED BY <3>1, <3>2
  <2>8. a + t = t + a /\ a * a + q = q + a * a
    BY <2>3
  <2> QED BY <2>2, <2>4, <2>7, <2>8
<1>3. IsFiniteSet(A)
  BY FS_Subset
<1> HIDE DEF G
<1>4. A \in G
  BY <1>1, <1>2, <1>3, SetsByElements
<1> QED BY <1>4 DEF G

-----------------------------------------------------------------------------
(* Ranks: rows in the order of a list, and the first of them.               *)

(* Those before each in an order that tells any two apart.                  *)
Orders(before, S) ==
  /\ before \in [S -> SUBSET S]
  /\ \A x \in S : x \notin before[x]
  /\ \A x, y \in S : x # y => x \in before[y] \/ y \in before[x]
  /\ \A x, y \in S : x \in before[y] => before[x] \subseteq before[y]

(* What is before has a lower rank, and every rank is taken once.           *)
LEMMA RanksAreTaken ==
  ASSUME NEW S, IsFiniteSet(S), NEW before, Orders(before, S)
  PROVE  /\ \A x \in S : Cardinality(before[x]) \in 0 .. Cardinality(S) - 1
         /\ \A x, y \in S : x \in before[y] <=> Cardinality(before[x]) < Cardinality(before[y])
         /\ \A x, y \in S : Cardinality(before[x]) = Cardinality(before[y]) => x = y
         /\ {Cardinality(before[x]) : x \in S} = 0 .. Cardinality(S) - 1
<1> DEFINE n == Cardinality(S)  rank == [x \in S |-> Cardinality(before[x])]
<1>1. \A x \in S : IsFiniteSet(before[x]) /\ Cardinality(before[x]) \in Nat /\ before[x] \in SUBSET S
  BY FS_Subset, FS_CardinalityType DEF Orders
<1>2. n \in Nat
  BY FS_CardinalityType
<1>3. ASSUME NEW x \in S PROVE Cardinality(before[x]) < n
  <2>1. Cardinality(before[x]) <= n /\ (Cardinality(before[x]) = n => before[x] = S)
    BY <1>1, FS_Subset
  <2>2. before[x] # S
    BY DEF Orders
  <2> QED BY <1>1, <1>2, <2>1, <2>2
<1>4. ASSUME NEW x \in S, NEW y \in S, x \in before[y]
      PROVE  Cardinality(before[x]) < Cardinality(before[y])
  <2>1. before[x] \in SUBSET before[y] /\ x \notin before[x]
    BY <1>4 DEF Orders
  <2>2. before[x] # before[y]
    BY <1>4, <2>1
  <2>3. /\ Cardinality(before[x]) <= Cardinality(before[y])
        /\ Cardinality(before[y]) = Cardinality(before[x]) => before[y] = before[x]
    BY <1>1, <2>1, FS_Subset
  <2> QED BY <1>1, <2>2, <2>3
<1>5. ASSUME NEW x \in S, NEW y \in S, x # y
      PROVE  Cardinality(before[x]) # Cardinality(before[y])
  <2>1. x \in before[y] \/ y \in before[x]
    BY <1>5 DEF Orders
  <2> QED BY <1>1, <1>4, <2>1
<1>6. ASSUME NEW x \in S, NEW y \in S, Cardinality(before[x]) < Cardinality(before[y])
      PROVE  x \in before[y]
  <2>1. x # y
    BY <1>1, <1>6
  <2>2. x \in before[y] \/ y \in before[x]
    BY <2>1 DEF Orders
  <2>3. y \notin before[x]
    BY <1>1, <1>4, <1>6
  <2> QED BY <2>2, <2>3
<1>7. rank = [x \in S |-> rank[x]] /\ \A x \in S : rank[x] = Cardinality(before[x])
  OBVIOUS
<1>8. Cardinality({rank[x] : x \in S}) = n
  <2>1. \A x, y \in S : rank[x] = rank[y] => x = y
    BY <1>5
  <2> HIDE DEF rank
  <2> QED BY <2>1, OneAddendEach
<1>9. {rank[x] : x \in S} = 0 .. n - 1
  <2>1. {rank[x] : x \in S} \in SUBSET (0 .. n - 1)
    BY <1>1, <1>2, <1>3
  <2>2. IsFiniteSet(0 .. n - 1) /\ Cardinality(0 .. n - 1) = n
    BY <1>2, FS_Interval
  <2> DEFINE I == {rank[x] : x \in S}  J == 0 .. n - 1
  <2>3. I \in SUBSET J /\ IsFiniteSet(J) /\ Cardinality(J) = Cardinality(I)
    BY <1>8, <2>1, <2>2
  <2> HIDE DEF I, J
  <2>4. J = I
    BY <2>3, FS_Subset
  <2> QED BY <2>4 DEF I, J
<1>10. {Cardinality(before[x]) : x \in S} = {rank[x] : x \in S}
  OBVIOUS
<1>11. \A x \in S : Cardinality(before[x]) \in 0 .. n - 1
  BY <1>1, <1>2, <1>3
<1> QED BY <1>4, <1>5, <1>6, <1>9, <1>10, <1>11

(* A stretch of ranks has so many rows.                                     *)
LEMMA RanksBetween ==
  ASSUME NEW S, IsFiniteSet(S), NEW before, Orders(before, S), NEW a \in Int, NEW b \in Int
  PROVE  LET T == {x \in S : Cardinality(before[x]) \in a .. b} IN
         /\ IsFiniteSet(T) /\ Cardinality(T) = Cardinality((a .. b) \cap (0 .. Cardinality(S) - 1))
<1> DEFINE T == {x \in S : Cardinality(before[x]) \in a .. b}
           rank == [x \in S |-> Cardinality(before[x])]
           n == Cardinality(S)
<1>1. IsFiniteSet(T)
  BY FS_Subset
<1>2. /\ \A x, y \in S : rank[x] = rank[y] => x = y
      /\ {Cardinality(before[x]) : x \in S} = 0 .. n - 1
  BY RanksAreTaken
<1>3. {rank[x] : x \in T} = (a .. b) \cap (0 .. n - 1)
  <2>1. \A x \in T : rank[x] = Cardinality(before[x]) /\ rank[x] \in a .. b
    OBVIOUS
  <2>2. \A x \in T : Cardinality(before[x]) \in 0 .. n - 1
    <3>1. \A x \in S : Cardinality(before[x]) \in {Cardinality(before[y]) : y \in S}
      OBVIOUS
    <3> QED BY <1>2, <3>1
  <2>3. ASSUME NEW k \in (a .. b) \cap (0 .. n - 1) PROVE k \in {rank[x] : x \in T}
    <3>1. PICK x \in S : k = Cardinality(before[x])
      BY <1>2
    <3> QED BY <3>1
  <2> HIDE DEF rank, T, n
  <2> QED BY <2>1, <2>2, <2>3
<1>4. \A x, y \in T : rank[x] = rank[y] => x = y
  BY <1>2
<1> HIDE DEF rank, T, n
<1>5. Cardinality({rank[x] : x \in T}) = Cardinality(T)
  BY <1>1, <1>4, OneAddendEach
<1> QED BY <1>1, <1>3, <1>5 DEF T, n

(* The first of them are as many as asked for, if there are so many.        *)
LEMMA FirstRanks ==
  ASSUME NEW S, IsFiniteSet(S), NEW before, Orders(before, S), NEW k \in Nat, k <= Cardinality(S)
  PROVE  LET T == {x \in S : Cardinality(before[x]) < k} IN
         IsFiniteSet(T) /\ Cardinality(T) = k
<1> DEFINE T == {x \in S : Cardinality(before[x]) < k}  m == k - 1
           U == {x \in S : Cardinality(before[x]) \in 0 .. m}
<1>1. 0 \in Int /\ m \in Int /\ m = k - 1
  OBVIOUS
<1>2. (0 .. m) \cap (0 .. Cardinality(S) - 1) = 0 .. m
  BY FS_CardinalityType
<1>3. Cardinality(0 .. m) = k
  BY FS_Interval
<1>4. T = U
  <2>1. \A x \in S : Cardinality(before[x]) \in Nat
    BY RanksAreTaken
  <2> QED BY <2>1
<1> HIDE DEF m
<1>5. IsFiniteSet(U) /\ Cardinality(U) = Cardinality((0 .. m) \cap (0 .. Cardinality(S) - 1))
  <2>1. \A a, b \in Int : LET V == {x \in S : Cardinality(before[x]) \in a .. b} IN
          IsFiniteSet(V) /\ Cardinality(V) = Cardinality((a .. b) \cap (0 .. Cardinality(S) - 1))
    BY RanksBetween
  <2> QED BY <1>1, <2>1
<1> QED BY <1>2, <1>3, <1>4, <1>5

(* By a rank, and rows of equal rank by another that tells them apart.       *)
LEMMA RankThenId ==
  ASSUME NEW S, NEW a \in [S -> Int], NEW b \in [S -> Int], \A x, y \in S : b[x] = b[y] => x = y
  PROVE  Orders([y \in S |-> {x \in S : a[x] < a[y] \/ (a[x] = a[y] /\ b[x] < b[y])}], S)
<1> DEFINE before == [y \in S |-> {x \in S : a[x] < a[y] \/ (a[x] = a[y] /\ b[x] < b[y])}]
<1>1. before \in [S -> SUBSET S]
  OBVIOUS
<1>2. \A x \in S : a[x] \in Int /\ b[x] \in Int
  OBVIOUS
<1>3. \A x, y \in S : x \in before[y] <=> a[x] < a[y] \/ (a[x] = a[y] /\ b[x] < b[y])
  OBVIOUS
<1> HIDE DEF before
<1>4. \A x \in S : x \notin before[x]
  BY <1>2, <1>3
<1>5. \A x, y \in S : x # y => x \in before[y] \/ y \in before[x]
  BY <1>2, <1>3
<1>6. ASSUME NEW x \in S, NEW y \in S, x \in before[y], NEW z \in before[x] PROVE z \in before[y]
  <2>1. z \in S
    BY <1>1
  <2> QED BY <1>2, <1>3, <1>6, <2>1
<1>7. \A x, y \in S : x \in before[y] => before[x] \subseteq before[y]
  BY <1>6
<1>8. Orders(before, S)
  BY <1>1, <1>4, <1>5, <1>7 DEF Orders
<1> QED BY <1>8 DEF before

(* Some n rows are first by a rank, however ties are broken. *)
FirstBy(S, rank, n) ==
  {T \in SUBSET S : /\ Cardinality(T) = Min({n, Cardinality(S)})
                    /\ \A r \in T, other \in S \ T : rank[r] >= rank[other]}
(* What FirstRows picks does exist.                                         *)
LEMMA FirstExist ==
  ASSUME NEW S, IsFiniteSet(S), NEW rank \in [S -> Int], NEW n \in Nat
  PROVE  FirstBy(S, rank, n) # {}
<1> DEFINE G == {s \in SUBSET S : \A m \in Nat : FirstBy(s, rank, m) # {}}
<1>1. \A s \in SUBSET S : IsFiniteSet(s) /\ Cardinality(s) \in Nat
  BY FS_Subset, FS_CardinalityType
<1>2. ASSUME NEW s \in SUBSET S, NEW m \in Nat, s = {} \/ m = 0 PROVE {} \in FirstBy(s, rank, m)
  <2>1. Cardinality({}) = 0
    BY FS_EmptySet
  <2>2. Min({m, Cardinality(s)}) = 0
    <3>1. m \in Int /\ Cardinality(s) \in Int /\ m >= 0 /\ Cardinality(s) >= 0
      BY <1>1
    <3>2. m = 0 \/ Cardinality(s) = 0
      BY <1>2, <2>1
    <3> QED BY <3>1, <3>2, LeastAmong
  <2> QED BY <2>1, <2>2 DEF FirstBy
<1>3. {} \in G
  BY <1>2
<1>4. ASSUME NEW s \in SUBSET S, s # {}, \A x \in s : s \ {x} \in G PROVE s \in G
  <2>1. SUFFICES ASSUME NEW m \in Nat, m # 0 PROVE FirstBy(s, rank, m) # {}
    BY <1>2
  <2>2. PICK x \in s : \A y \in s : rank[y] <= rank[x]
    <3> DEFINE ranks == {rank[y] : y \in s}
    <3>1. ranks \in SUBSET Int /\ IsFiniteSet(ranks) /\ ranks # {}
      <4>1. IsFiniteSet(ranks)
        BY <1>1, ImageIsFinite
      <4> QED BY <1>4, <4>1
    <3>2. PICK v \in ranks : \A w \in ranks : w <= v
      <4> HIDE DEF ranks
      <4> QED BY <3>1, LeastAndGreatest
    <3> QED BY <3>2
  <2>3. m - 1 \in Nat
    BY <2>1
  <2>4. PICK T \in FirstBy(s \ {x}, rank, m - 1) : TRUE
    BY <1>4, <2>2, <2>3
  <2> DEFINE U == T \cup {x}
  <2>5. T \in SUBSET (s \ {x}) /\ Cardinality(T) = Min({m - 1, Cardinality(s \ {x})})
    BY <2>4 DEF FirstBy
  <2>6. Cardinality(s \ {x}) = Cardinality(s) - 1 /\ Cardinality(U) = Cardinality(T) + 1
    <3>1. IsFiniteSet(T) /\ x \notin T /\ IsFiniteSet(s)
      BY <1>1, <2>5
    <3> QED BY <2>2, <3>1, FS_RemoveElement, FS_AddElement
  <2>7. Cardinality(U) = Min({m, Cardinality(s)})
    <3> DEFINE c == Cardinality(s)
    <3>1. c \in Int /\ m \in Int /\ c - 1 \in Int /\ m - 1 \in Int
      BY <1>1
    <3>2. Min({m - 1, c - 1}) = IF m - 1 <= c - 1 THEN m - 1 ELSE c - 1
      BY <3>1, LeastAmong
    <3>3. Min({m, c}) = IF m <= c THEN m ELSE c
      BY <3>1, LeastAmong
    <3>4. Cardinality(U) = Min({m - 1, c - 1}) + 1
      BY <2>5, <2>6
    <3> HIDE DEF c, U
    <3>5. Cardinality(U) = Min({m, c})
      BY <3>1, <3>2, <3>3, <3>4
    <3> QED BY <3>5 DEF c
  <2>8. ASSUME NEW r \in U, NEW other \in s \ U PROVE rank[r] >= rank[other]
    <3>1. CASE r = x
      <4>1. rank[x] \in Int /\ rank[other] \in Int /\ rank[other] <= rank[x]
        BY <2>2
      <4> QED BY <3>1, <4>1
    <3>2. CASE r \in T
      BY <2>4, <3>2 DEF FirstBy
    <3> QED BY <3>1, <3>2
  <2>9. U \in SUBSET s
    BY <2>2, <2>5
  <2>10. U \in FirstBy(s, rank, m)
    <3> HIDE DEF U
    <3> QED BY <2>7, <2>8, <2>9 DEF FirstBy
  <2> QED BY <2>10
<1> HIDE DEF G
<1>5. S \in G
  BY <1>3, <1>4, SetsByElements
<1> QED BY <1>5 DEF G

(* Rows counted key by key.                                                 *)
LEMMA CountByKey ==
  ASSUME NEW A, IsFiniteSet(A), NEW K, IsFiniteSet(K), NEW key \in [A -> K],
         NEW part, part = [d \in K |-> Cardinality({x \in A : key[x] = d})]
  PROVE  part \in [K -> Nat] /\ Sigma(part, K) = Cardinality(A)
<1> DEFINE one == [x \in A |-> 1]
           sums == [d \in K |-> Sigma(one, {x \in A : key[x] = d})]
<1>1. one \in [A -> Int] /\ \A x \in A : one[x] = 1
  OBVIOUS
<1> HIDE DEF one
<1>2. \A d \in K : Sigma(one, {x \in A : key[x] = d}) = Cardinality({x \in A : key[x] = d})
  BY <1>1, SigmaOfOnes
<1>3. part = sums
  BY <1>2
<1>4. Sigma(sums, K) = Sigma(one, A)
  BY <1>1, SigmaByKey
<1>5. Sigma(one, A) = Cardinality(A)
  BY <1>1, SigmaOfOnes
<1>6. \A d \in K : Cardinality({x \in A : key[x] = d}) \in Nat
  BY FS_Subset, FS_CardinalityType
<1> QED BY <1>3, <1>4, <1>5, <1>6

(* Parts that share nothing. *)
LEMMA CountApart ==
  ASSUME NEW A, IsFiniteSet(A), NEW B \in SUBSET A
  PROVE  /\ Cardinality(B) \in Nat /\ Cardinality(A) \in Nat /\ Cardinality(B) <= Cardinality(A)
         /\ Cardinality(A) = Cardinality(B) + Cardinality(A \ B)
<1> DEFINE C == A \ B
<1>1. IsFiniteSet(B) /\ IsFiniteSet(C) /\ B \cup C = A /\ B \cap C = {}
  <2>1. IsFiniteSet(B) /\ IsFiniteSet(C)
    BY FS_Subset
  <2> QED BY <2>1
<1>2. Cardinality(A) \in Nat /\ Cardinality(B) \in Nat /\ Cardinality(C) \in Nat /\ Cardinality({}) = 0
  BY <1>1, FS_CardinalityType, FS_EmptySet
<1> HIDE DEF C
<1>3. Cardinality(B \cup C) = Cardinality(B) + Cardinality(C) - Cardinality(B \cap C)
  BY <1>1, FS_Union
<1>4. Cardinality(A) = Cardinality(B) + Cardinality(C) - Cardinality({})
  BY <1>1, <1>3
<1>5. Cardinality(A) = Cardinality(B) + Cardinality(C) /\ Cardinality(B) <= Cardinality(A)
  BY <1>2, <1>4
<1> QED BY <1>2, <1>5 DEF C

-----------------------------------------------------------------------------
(* Costs and rates.                                                         *)

(* NULL is no number, no role, no mark of a hidden text, no record and no map. *)
NoneIsNoAnswer == /\ None \notin Int /\ None \notin {"member", "manager", "admin", "redacted"}
                  /\ \A f : None # [x \in DOMAIN f |-> f[x]]

(* What the ingest computes of the sessions of a user is within the bounds   *)
(* (queries/calibration.ts, recomputePerUserCalibration).                   *)
LEMMA RecomputedFits ==
  ASSUME NEW rows, IsFiniteSet(rows), \A s \in rows : CostedRow(s)
  PROVE  RatesFit(RecomputePerUserCalibration(rows))
<1> DEFINE calibration == RecomputePerUserCalibration(rows)
<1>1. SUFFICES ASSUME NEW f \in DOMAIN calibration
               PROVE  calibration[f] \in RateEntries /\ IsRateInBounds(calibration[f])
  BY DEF RatesFit
<1> DEFINE sample == SampleOf(rows, f)
           otel == [s \in sample |-> s.otelCost]
           local == [s \in sample |-> s.cost]
<1>2. calibration[f] = SampleEntry(sample) /\ IsRateInBounds(SampleEntry(sample))
  BY DEF RecomputePerUserCalibration
<1>3. IsFiniteSet(sample) /\ \A s \in sample : s.otelCost \in Nat /\ s.cost \in Nat
  <2>1. sample \subseteq rows
    BY DEF SampleOf
  <2>2. \A s \in sample : s.otelCost # None
    BY DEF SampleOf
  <2> HIDE DEF sample
  <2> QED BY <2>1, <2>2, FS_Subset DEF CostedRow
<1>4. SampleEntry(sample) = [otel |-> SumOver(otel), local |-> SumOver(local)]
  BY DEF SampleEntry, Total
<1>5. SumOver(otel) = Sigma(otel, sample) /\ SumOver(local) = Sigma(local, sample)
  BY SumOverIsSigma
<1> HIDE DEF sample
<1>6. /\ otel \in [sample -> Int] /\ local \in [sample -> Int]
      /\ \A s \in sample : otel[s] >= 0 /\ local[s] >= 0
  BY <1>3
<1> HIDE DEF otel, local
<1>7. Sigma(otel, sample) \in Nat /\ Sigma(local, sample) \in Nat
  <2>1. Sigma(otel, sample) \in Int /\ Sigma(local, sample) \in Int
    BY <1>3, <1>6, SigmaTakes
  <2>2. Sigma(otel, sample) >= 0 /\ Sigma(local, sample) >= 0
    BY <1>3, <1>6, SigmaGrows
  <2> QED BY <2>1, <2>2
<1> QED BY <1>2, <1>4, <1>5, <1>7 DEF RateEntries

(* A cost that is shown is not negative, whichever source it has.           *)
LEMMA CostsAreCosts ==
  ASSUME NEW s, CostedRow(s), NEW c, RatesFit(c)
  PROVE  /\ EffectiveCost(s, c).value \in Nat
         /\ EffectiveCost(s, c).source \in {"otel", "calibrated", "list"}
<1> DEFINE Rated(f) == f \in DOMAIN c /\ IsRateInBounds(c[f])
           At(f) == [value |-> (100 * s.cost * c[f].otel) \div c[f].local, source |-> "calibrated"]
<1>1. ASSUME NEW f, Rated(f) PROVE At(f).value \in Nat /\ At(f).source = "calibrated"
  <2>1. c[f].otel \in Nat /\ c[f].local \in Nat /\ c[f].local > 0 /\ s.cost \in Nat
    BY <1>1 DEF RatesFit, CostedRow, RateEntries, IsRateInBounds
  <2>2. 100 * s.cost * c[f].otel \in Nat
    BY <2>1
  <2>3. (100 * s.cost * c[f].otel) \div c[f].local \in Nat
    BY <2>1, <2>2, Quotients
  <2> QED BY <2>3
<1> DEFINE measured == s.otelCost # None /\ s.otelCost > 0
<1>2. CASE measured
  <2>1. EffectiveCost(s, c) = [value |-> 100 * s.otelCost, source |-> "otel"]
    BY <1>2 DEF EffectiveCost
  <2>2. s.otelCost \in Nat
    BY <1>2 DEF CostedRow
  <2> QED BY <2>1, <2>2
<1>3. CASE ~measured /\ s.cost = 0
  <2>1. EffectiveCost(s, c) = [value |-> 0, source |-> "list"]
    BY <1>3 DEF EffectiveCost
  <2> QED BY <2>1
<1>4. CASE ~measured /\ s.cost # 0 /\ Rated(s.model)
  <2>1. EffectiveCost(s, c) = At(s.model)
    BY <1>4 DEF EffectiveCost
  <2> QED BY <1>1, <1>4, <2>1
<1>5. CASE ~measured /\ s.cost # 0 /\ ~Rated(s.model) /\ Rated("global")
  <2>1. EffectiveCost(s, c) = At("global")
    BY <1>5 DEF EffectiveCost
  <2> QED BY <1>1, <1>5, <2>1
<1>6. CASE ~measured /\ s.cost # 0 /\ ~Rated(s.model) /\ ~Rated("global")
  <2>1. EffectiveCost(s, c) = [value |-> 100 * s.cost, source |-> "list"]
    BY <1>6 DEF EffectiveCost
  <2> QED BY <2>1 DEF CostedRow
<1> QED BY <1>2, <1>3, <1>4, <1>5, <1>6
=============================================================================
