---------------------------- MODULE Reading_proofs ----------------------------
(***************************************************************************)
(* Proofs about what the portal concludes from what it reads: the audit,   *)
(* from the trades of a family of bots; the detectors, from a tape of      *)
(* candles of any length; and the strategies, from what the detectors say, *)
(* with what becomes of their signals when the orders fill.                *)
(***************************************************************************)
EXTENDS TradingAudit, MarketStructure, RealFill, FiniteSetTheorems, WellFoundedInduction, TLAPS

(* A set of numbers that is not empty has a least one.                     *)
LEMMA HasLeast == ASSUME NEW S \in SUBSET Nat, S # {} PROVE \E n \in S : \A m \in S : n <= m
<1>1. IsWellFoundedOn(OpToRel(<, Nat), Nat)
  BY NatLessThanWellFounded
<1>2. PICK R : R = {ss \in Nat \X Nat : ss[1] < ss[2]}
  OBVIOUS
<1>3. R = OpToRel(<, Nat)
  BY <1>2 DEF OpToRel
<1>4. IsWellFoundedOn(R, Nat)
  BY <1>1, <1>3
<1> HIDE <1>2
<1>5. S \subseteq Nat
  OBVIOUS
<1>6. \E x \in S : \A y \in S : ~(<<y, x>> \in R)
  BY <1>4, <1>5, WFMin, Zenon
<1>7. PICK n \in S : \A m \in S : ~(<<m, n>> \in R)
  BY <1>6
<1>8. \A m \in S : ~(m < n)
  BY <1>2, <1>5, <1>7
<1> QED
  BY <1>5, <1>8

-----------------------------------------------------------------------------
(* The audit: what it judges a family by is what the family traded, though *)
(* it is read row by row, and in a statement of its own.                   *)

(* A sum over a finite set: it can be taken element by element, in any     *)
(* order.  The recursion that defines it has a solution, and one only.     *)
SumSolves(g, f, S) ==
  g = [s \in SUBSET S |-> IF s = {} THEN 0
                          ELSE f[CHOOSE x \in s : TRUE] + g[s \ {CHOOSE x \in s : TRUE}]]
SumTo(g, f, S, n) ==
  /\ g \in [SUBSET S -> Int]
  /\ \A s \in SUBSET S : Cardinality(s) <= n =>
       g[s] = IF s = {} THEN 0 ELSE f[CHOOSE x \in s : TRUE] + g[s \ {CHOOSE x \in s : TRUE}]

LEMMA OneTaken ==
  ASSUME NEW S, IsFiniteSet(S), NEW s \in SUBSET S, NEW x \in s
  PROVE  /\ IsFiniteSet(s) /\ IsFiniteSet(s \ {x}) /\ s \ {x} \in SUBSET S
         /\ Cardinality(s) \in Nat /\ Cardinality(s \ {x}) \in Nat
         /\ Cardinality(s \ {x}) = Cardinality(s) - 1
<1>1. IsFiniteSet(s)
  BY FS_Subset
<1>2. IsFiniteSet(s \ {x}) /\ Cardinality(s \ {x}) = Cardinality(s) - 1
  BY <1>1, FS_RemoveElement
<1> QED
  BY <1>1, <1>2, FS_CardinalityType

LEMMA SumGrows ==
  ASSUME NEW S, IsFiniteSet(S), NEW f \in [S -> Int], NEW n \in Nat, NEW g, SumTo(g, f, S, n)
  PROVE  \E h : SumTo(h, f, S, n + 1)
<1>1. PICK h : h = [s \in SUBSET S |-> IF s = {} THEN 0
                                      ELSE f[CHOOSE x \in s : TRUE] + g[s \ {CHOOSE x \in s : TRUE}]]
  OBVIOUS
<1>2. h \in [SUBSET S -> Int]
  <2>1. ASSUME NEW s \in SUBSET S, s # {}
        PROVE  f[CHOOSE x \in s : TRUE] + g[s \ {CHOOSE x \in s : TRUE}] \in Int
    <3>1. PICK x : x = CHOOSE y \in s : TRUE
      OBVIOUS
    <3>2. x \in s
      BY <2>1, <3>1
    <3>3. f[x] \in Int /\ g[s \ {x}] \in Int
      BY <3>2 DEF SumTo
    <3> QED
      BY <3>1, <3>3
  <2> QED
    BY <1>1, <2>1
<1>3. \A s \in SUBSET S : Cardinality(s) <= n => h[s] = g[s]
  BY <1>1 DEF SumTo
<1>4. ASSUME NEW s \in SUBSET S, Cardinality(s) <= n + 1, s # {}
      PROVE  h[s] = f[CHOOSE x \in s : TRUE] + h[s \ {CHOOSE x \in s : TRUE}]
  <2>1. PICK x : x = CHOOSE y \in s : TRUE
    OBVIOUS
  <2>2. x \in s
    BY <1>4, <2>1
  <2>3. s \ {x} \in SUBSET S /\ Cardinality(s \ {x}) <= n
    <3>1. s \ {x} \in SUBSET S /\ Cardinality(s) \in Nat /\ Cardinality(s \ {x}) = Cardinality(s) - 1
      BY <2>2, OneTaken
    <3> QED
      BY <1>4, <3>1
  <2>4. h[s \ {x}] = g[s \ {x}]
    BY <1>3, <2>3
  <2>5. h[s] = f[x] + g[s \ {x}]
    BY <1>1, <1>4, <2>1
  <2> QED
    BY <2>1, <2>4, <2>5
<1>5. \A s \in SUBSET S : s = {} => h[s] = 0
  BY <1>1
<1>6. \A s \in SUBSET S : Cardinality(s) <= n + 1 =>
        h[s] = IF s = {} THEN 0 ELSE f[CHOOSE x \in s : TRUE] + h[s \ {CHOOSE x \in s : TRUE}]
  BY <1>4, <1>5
<1> QED
  BY <1>2, <1>6 DEF SumTo

LEMMA SumReaches ==
  ASSUME NEW S, IsFiniteSet(S), NEW f \in [S -> Int], NEW n \in Nat
  PROVE  \E g : SumTo(g, f, S, n)
<1> PICK C : C = {k \in Nat : ~\E g : SumTo(g, f, S, k)}
  OBVIOUS
<1> SUFFICES ASSUME C # {} PROVE FALSE
  OBVIOUS
<1>1. PICK k \in C : \A m \in C : k <= m
  BY HasLeast
<1>2. CASE k = 0
  <2>1. PICK g : g = [s \in SUBSET S |-> 0]
    OBVIOUS
  <2>2. \A s \in SUBSET S : Cardinality(s) <= 0 => s = {}
    <3> SUFFICES ASSUME NEW s \in SUBSET S, Cardinality(s) <= 0 PROVE s = {}
      OBVIOUS
    <3>1. IsFiniteSet(s)
      BY FS_Subset
    <3>2. Cardinality(s) \in Nat
      BY <3>1, FS_CardinalityType
    <3>3. Cardinality(s) = 0
      BY <3>2
    <3> QED
      BY <3>1, <3>3, FS_EmptySet
  <2>3. SumTo(g, f, S, 0)
    BY <2>1, <2>2 DEF SumTo
  <2> QED
    BY <1>1, <1>2, <2>3
<1>3. CASE k # 0
  <2>1. PICK m \in Nat : k = m + 1
    BY <1>1, <1>3
  <2>2. m \notin C
    BY <1>1, <2>1
  <2>3. PICK g : SumTo(g, f, S, m)
    BY <2>2
  <2>4. \E h : SumTo(h, f, S, m + 1)
    BY <2>3, SumGrows
  <2> QED
    BY <1>1, <2>1, <2>4
<1> QED
  BY <1>2, <1>3

LEMMA SumExists ==
  ASSUME NEW S, IsFiniteSet(S), NEW f \in [S -> Int]
  PROVE  \E g : SumSolves(g, f, S) /\ g \in [SUBSET S -> Int]
<1>1. Cardinality(S) \in Nat
  BY FS_CardinalityType
<1>2. PICK g : SumTo(g, f, S, Cardinality(S))
  BY <1>1, SumReaches
<1>3. \A s \in SUBSET S : Cardinality(s) <= Cardinality(S)
  BY FS_Subset
<1>4. g \in [SUBSET S -> Int] /\ \A s \in SUBSET S :
        g[s] = IF s = {} THEN 0 ELSE f[CHOOSE x \in s : TRUE] + g[s \ {CHOOSE x \in s : TRUE}]
  BY <1>2, <1>3 DEF SumTo
<1> QED
  BY <1>4 DEF SumSolves

(* Two solutions agree where what is summed does.                          *)
LEMMA SumsAgree ==
  ASSUME NEW S, IsFiniteSet(S), NEW T, NEW f, NEW h, NEW g, NEW k,
         SumSolves(g, f, S), SumSolves(k, h, T),
         NEW s \in SUBSET S, s \in SUBSET T, \A x \in s : f[x] = h[x]
  PROVE  g[s] = k[s]
<1> PICK C : C = {n \in Nat : \E r \in SUBSET s : Cardinality(r) = n /\ g[r] # k[r]}
  OBVIOUS
<1>1. CASE C = {}
  <2>1. IsFiniteSet(s)
    BY FS_Subset
  <2>2. Cardinality(s) \in Nat
    BY <2>1, FS_CardinalityType
  <2> QED
    BY <1>1, <2>2
<1>2. CASE C # {}
  <2>1. PICK n \in C : \A m \in C : n <= m
    BY <1>2, HasLeast
  <2>2. PICK r \in SUBSET s : Cardinality(r) = n /\ g[r] # k[r]
    BY <2>1
  <2>3. r \in SUBSET S /\ r \in SUBSET T
    OBVIOUS
  <2>4. /\ g[r] = IF r = {} THEN 0 ELSE f[CHOOSE x \in r : TRUE] + g[r \ {CHOOSE x \in r : TRUE}]
        /\ k[r] = IF r = {} THEN 0 ELSE h[CHOOSE x \in r : TRUE] + k[r \ {CHOOSE x \in r : TRUE}]
    BY <2>3 DEF SumSolves
  <2>5. r # {}
    BY <2>2, <2>4
  <2>6. PICK x : x = CHOOSE y \in r : TRUE
    OBVIOUS
  <2>7. x \in r /\ f[x] = h[x]
    BY <2>5, <2>6
  <2>8. /\ r \ {x} \in SUBSET s /\ Cardinality(r \ {x}) \in Nat /\ Cardinality(r \ {x}) = n - 1 /\ n \in Nat
    BY <2>2, <2>3, <2>7, OneTaken
  <2>9. g[r \ {x}] = k[r \ {x}]
    BY <2>1, <2>8
  <2> QED
    BY <2>2, <2>4, <2>5, <2>6, <2>7, <2>9
<1> QED
  BY <1>1, <1>2

LEMMA SumIsSolution ==
  ASSUME NEW S, NEW f
  PROVE  SumFunctionOnSet(f, S) = (CHOOSE g : SumSolves(g, f, S))[S]
BY DEF SumSolves, SumFunctionOnSet, FoldFunctionOnSet, MapThenFoldSet

LEMMA SumOfPart ==
  ASSUME NEW S, IsFiniteSet(S), NEW f \in [S -> Int], NEW g, SumSolves(g, f, S),
         NEW s \in SUBSET S, NEW h, \A x \in s : f[x] = h[x]
  PROVE  SumFunctionOnSet(h, s) = g[s]
<1>1. IsFiniteSet(s)
  BY FS_Subset
<1>2. PICK e \in [s -> Int] : \A x \in s : e[x] = h[x]
  <2>1. [x \in s |-> h[x]] \in [s -> Int]
    OBVIOUS
  <2> QED
    BY <2>1
<1>3. PICK k : SumSolves(k, e, s)
  BY <1>1, SumExists
<1>4. SumSolves(k, h, s)
  <2>1. ASSUME NEW r \in SUBSET s, r # {}
        PROVE  e[CHOOSE x \in r : TRUE] = h[CHOOSE x \in r : TRUE]
    BY <1>2, <2>1
  <2> QED
    BY <1>3, <2>1 DEF SumSolves
<1>5. PICK m : m = CHOOSE q : SumSolves(q, h, s)
  OBVIOUS
<1>6. SumSolves(m, h, s)
  BY <1>4, <1>5
<1>7. g[s] = m[s]
  BY <1>6, SumsAgree
<1> QED
  BY <1>5, <1>7, SumIsSolution

LEMMA SumOfAll ==
  ASSUME NEW S, IsFiniteSet(S), NEW f \in [S -> Int], NEW g, SumSolves(g, f, S), NEW h, \A x \in S : f[x] = h[x]
  PROVE  SumFunctionOnSet(h, S) = g[S]
<1>1. S \in SUBSET S
  OBVIOUS
<1> QED
  BY <1>1, SumOfPart

(* An element, whichever, can be taken first.                              *)
LEMMA SumNone == ASSUME NEW f PROVE SumFunctionOnSet(f, {}) = 0
<1> SUFFICES ASSUME NEW U, U = {} PROVE SumFunctionOnSet(f, U) = 0
  OBVIOUS
<1>1. IsFiniteSet(U)
  BY FS_EmptySet
<1>2. PICK e \in [U -> Int] : TRUE
  <2>1. [x \in U |-> 0] \in [U -> Int]
    OBVIOUS
  <2> QED
    BY <2>1
<1>3. PICK g : SumSolves(g, e, U)
  BY <1>1, SumExists
<1>4. g[U] = 0
  BY <1>3 DEF SumSolves
<1>5. \A x \in U : e[x] = f[x]
  OBVIOUS
<1>6. SumFunctionOnSet(f, U) = g[U]
  BY <1>1, <1>3, <1>5, SumOfAll
<1> QED
  BY <1>4, <1>6

LEMMA SumIsInt ==
  ASSUME NEW S, IsFiniteSet(S), NEW f \in [S -> Int], NEW s \in SUBSET S
  PROVE  SumFunctionOnSet(f, s) \in Int
<1>1. PICK g : SumSolves(g, f, S) /\ g \in [SUBSET S -> Int]
  BY SumExists
<1>2. SumFunctionOnSet(f, s) = g[s]
  BY <1>1, SumOfPart
<1> QED
  BY <1>1, <1>2

LEMMA SumTakes ==
  ASSUME NEW S, IsFiniteSet(S), NEW f \in [S -> Int], NEW s \in SUBSET S, NEW x \in s
  PROVE  SumFunctionOnSet(f, s) = f[x] + SumFunctionOnSet(f, s \ {x})
<1>1. PICK g : SumSolves(g, f, S) /\ g \in [SUBSET S -> Int]
  BY SumExists
<1>2. \A r \in SUBSET S : SumFunctionOnSet(f, r) = g[r]
  BY <1>1, SumOfPart
<1>3. \A r \in SUBSET S : r # {} =>
        \E c \in r : g[r] = f[c] + g[r \ {c}]
  BY <1>1 DEF SumSolves
<1> PICK C : C = {n \in Nat : \E r \in SUBSET S : Cardinality(r) = n /\ \E y \in r : g[r] # f[y] + g[r \ {y}]}
  OBVIOUS
<1>4. C = {}
  <2> SUFFICES ASSUME C # {} PROVE FALSE
    OBVIOUS
  <2>1. PICK n \in C : \A m \in C : n <= m
    BY HasLeast
  <2>2. PICK r \in SUBSET S : Cardinality(r) = n /\ \E y \in r : g[r] # f[y] + g[r \ {y}]
    BY <2>1
  <2>3. PICK y \in r : g[r] # f[y] + g[r \ {y}]
    BY <2>2
  <2>4. PICK c \in r : g[r] = f[c] + g[r \ {c}]
    BY <1>3
  <2>5. c # y
    BY <2>3, <2>4
  <2>6. n \in Nat /\ ~(n - 1 \in C)
    BY <2>1
  <2>7. /\ Cardinality(r \ {c}) \in Nat /\ Cardinality(r \ {c}) = n - 1
        /\ Cardinality(r \ {y}) \in Nat /\ Cardinality(r \ {y}) = n - 1
    BY <2>2, OneTaken
  <2>8. r \ {c} \in SUBSET S /\ r \ {y} \in SUBSET S /\ y \in r \ {c} /\ c \in r \ {y}
    BY <2>5
  <2>9. g[r \ {c}] = f[y] + g[(r \ {c}) \ {y}]
    BY <2>6, <2>7, <2>8
  <2>10. g[r \ {y}] = f[c] + g[(r \ {y}) \ {c}]
    BY <2>6, <2>7, <2>8
  <2>11. (r \ {c}) \ {y} = (r \ {y}) \ {c}
    OBVIOUS
  <2>12. PICK p, q, z \in Int : p = f[c] /\ q = f[y] /\ z = g[(r \ {y}) \ {c}]
    BY <1>1
  <2>13. g[r] = p + (q + z)
    BY <2>4, <2>9, <2>11, <2>12
  <2>14. g[r] # q + (p + z)
    BY <2>3, <2>10, <2>12
  <2> QED
    BY <2>12, <2>13, <2>14
<1>5. IsFiniteSet(s)
  BY FS_Subset
<1>6. Cardinality(s) \in Nat
  BY <1>5, FS_CardinalityType
<1>7. g[s] = f[x] + g[s \ {x}]
  BY <1>4, <1>6
<1> QED
  BY <1>2, <1>7

(* A sum over a set less one element is that of the restricted function.   *)
LEMMA SumsEqual ==
  ASSUME NEW S, IsFiniteSet(S), NEW f \in [S -> Int], NEW h, \A x \in S : h[x] = f[x]
  PROVE  SumFunctionOnSet(h, S) = SumFunctionOnSet(f, S)
<1>1. PICK g : SumSolves(g, f, S)
  BY SumExists
<1>2. SumFunctionOnSet(h, S) = g[S] /\ SumFunctionOnSet(f, S) = g[S]
  BY <1>1, SumOfAll
<1> QED
  BY <1>2

(* A sum below zero has an element below zero.                             *)
LEMMA SumBelow ==
  ASSUME NEW S, IsFiniteSet(S), NEW f \in [S -> Int], NEW s \in SUBSET S, SumFunctionOnSet(f, s) < 0
  PROVE  \E x \in s : f[x] < 0
<1> PICK C : C = {n \in Nat : \E r \in SUBSET s : Cardinality(r) = n /\ SumFunctionOnSet(f, r) < 0}
  OBVIOUS
<1>1. IsFiniteSet(s)
  BY FS_Subset
<1>2. Cardinality(s) \in Nat
  BY <1>1, FS_CardinalityType
<1>3. C # {}
  BY <1>2
<1>4. PICK n \in C : \A m \in C : n <= m
  BY <1>3, HasLeast
<1>5. PICK r \in SUBSET s : Cardinality(r) = n /\ SumFunctionOnSet(f, r) < 0
  BY <1>4
<1>6. r # {}
  BY <1>5, SumNone
<1>7. PICK x \in r : TRUE
  BY <1>6
<1>8. r \in SUBSET S /\ r \ {x} \in SUBSET S /\ n \in Nat
  BY <1>4
<1>9. Cardinality(r \ {x}) \in Nat /\ Cardinality(r \ {x}) = n - 1
  BY <1>5, <1>8, OneTaken
<1>10. ~(SumFunctionOnSet(f, r \ {x}) < 0)
  BY <1>4, <1>8, <1>9
<1>11. SumFunctionOnSet(f, r) = f[x] + SumFunctionOnSet(f, r \ {x})
  BY <1>8, SumTakes
<1>12. f[x] \in Int /\ SumFunctionOnSet(f, r \ {x}) \in Int
  BY <1>8, SumIsInt
<1>13. f[x] < 0
  BY <1>5, <1>10, <1>11, <1>12
<1> QED
  BY <1>13

LEMMA SumOfUnion ==
  ASSUME NEW S, IsFiniteSet(S), NEW f \in [S -> Int], NEW A \in SUBSET S, NEW B \in SUBSET (S \ A)
  PROVE  SumFunctionOnSet(f, A \cup B) = SumFunctionOnSet(f, A) + SumFunctionOnSet(f, B)
<1> PICK C : C = {n \in Nat : \E R \in SUBSET B :
                    /\ Cardinality(R) = n
                    /\ SumFunctionOnSet(f, A \cup R) # SumFunctionOnSet(f, A) + SumFunctionOnSet(f, R)}
  OBVIOUS
<1>1. C = {}
  <2> SUFFICES ASSUME C # {} PROVE FALSE
    OBVIOUS
  <2>1. PICK n \in C : \A m \in C : n <= m
    BY HasLeast
  <2>2. PICK R \in SUBSET B :
          /\ Cardinality(R) = n
          /\ SumFunctionOnSet(f, A \cup R) # SumFunctionOnSet(f, A) + SumFunctionOnSet(f, R)
    BY <2>1
  <2>3. PICK a \in Int : a = SumFunctionOnSet(f, A)
    BY SumIsInt
  <2>4. R # {}
    <3> SUFFICES ASSUME R = {} PROVE FALSE
      OBVIOUS
    <3>1. SumFunctionOnSet(f, R) = 0
      BY SumNone
    <3>2. A \cup R = A
      OBVIOUS
    <3>3. a # a + 0
      BY <2>2, <2>3, <3>1, <3>2
    <3> QED
      BY <2>3, <3>3
  <2>5. PICK x \in R : TRUE
    BY <2>4
  <2>6. R \in SUBSET S /\ R \ {x} \in SUBSET B /\ A \cup R \in SUBSET S /\ x \in A \cup R
    OBVIOUS
  <2>7. Cardinality(R \ {x}) \in Nat /\ Cardinality(R \ {x}) = n - 1 /\ n \in Nat
    BY <2>1, <2>2, <2>6, OneTaken
  <2>8. SumFunctionOnSet(f, A \cup (R \ {x})) = a + SumFunctionOnSet(f, R \ {x})
    <3>1. PICK m \in Nat : m = Cardinality(R \ {x}) /\ ~(n <= m)
      BY <2>7
    <3>2. m \notin C
      BY <2>1, <3>1
    <3> QED
      BY <2>3, <2>6, <3>1, <3>2
  <2>9. (A \cup R) \ {x} = A \cup (R \ {x})
    OBVIOUS
  <2>10. PICK u \in Int : u = f[x]
    BY <2>6
  <2>11. PICK r \in Int : r = SumFunctionOnSet(f, R \ {x})
    BY <2>6, SumIsInt
  <2>12. SumFunctionOnSet(f, R) = u + r
    BY <2>6, <2>10, <2>11, SumTakes
  <2>13. SumFunctionOnSet(f, A \cup R) = u + (a + r)
    BY <2>6, <2>8, <2>9, <2>10, <2>11, SumTakes
  <2> QED
    BY <2>2, <2>3, <2>10, <2>11, <2>12, <2>13
<1>2. IsFiniteSet(B)
  BY FS_Subset
<1>3. Cardinality(B) \in Nat
  BY <1>2, FS_CardinalityType
<1> QED
  BY <1>1, <1>3

(* What the trades of several bots come to is what the rows of those bots  *)
(* come to together.                                                       *)
LEMMA TotalIsSum ==
  ASSUME NEW T, IsFiniteSet(T), \A t \in T : t.result \in Int, NEW A \in SUBSET T,
         NEW f, f = [t \in T |-> t.result]
  PROVE  Total(A) = SumFunctionOnSet(f, A) /\ f \in [T -> Int] /\ Total(A) \in Int
<1>1. f \in [T -> Int]
  OBVIOUS
<1>2. IsFiniteSet(A)
  BY FS_Subset
<1>3. PICK h : h = [t \in A |-> t.result]
  OBVIOUS
<1>4. h \in [A -> Int] /\ \A t \in A : f[t] = h[t]
  BY <1>3
<1>5. SumFunctionOnSet(f, A) = SumFunctionOnSet(h, A)
  BY <1>2, <1>4, SumsEqual
<1>6. Total(A) = SumFunctionOnSet(f, A)
  BY <1>3, <1>5 DEF Total
<1>7. SumFunctionOnSet(f, A) \in Int
  BY <1>1, SumIsInt
<1> QED
  BY <1>1, <1>6, <1>7

LEMMA TotalOfUnion ==
  ASSUME NEW T, IsFiniteSet(T), \A t \in T : t.result \in Int, NEW A \in SUBSET T, NEW B \in SUBSET (T \ A)
  PROVE  Total(A \cup B) = Total(A) + Total(B)
<1>1. PICK f : f = [t \in T |-> t.result]
  OBVIOUS
<1>2. A \cup B \in SUBSET T /\ B \in SUBSET T
  OBVIOUS
<1>3. /\ Total(A) = SumFunctionOnSet(f, A) /\ Total(B) = SumFunctionOnSet(f, B)
      /\ Total(A \cup B) = SumFunctionOnSet(f, A \cup B) /\ f \in [T -> Int]
  BY <1>1, <1>2, TotalIsSum
<1> QED
  BY <1>3, SumOfUnion

LEMMA CountOfUnion ==
  ASSUME NEW T, IsFiniteSet(T), NEW A \in SUBSET T, NEW B \in SUBSET (T \ A)
  PROVE  Cardinality(A \cup B) = Cardinality(A) + Cardinality(B)
<1>1. IsFiniteSet(A) /\ IsFiniteSet(B)
  BY FS_Subset
<1>2. A \cap B = {}
  OBVIOUS
<1>3. /\ Cardinality(A \cup B) = Cardinality(A) + Cardinality(B) - Cardinality(A \cap B)
  BY <1>1, FS_Union
<1>4. Cardinality({}) = 0
  BY FS_EmptySet
<1>5. PICK c, d \in Nat : c = Cardinality(A) /\ d = Cardinality(B)
  BY <1>1, FS_CardinalityType
<1>6. Cardinality(A \cup B) = c + d - 0
  BY <1>2, <1>3, <1>4, <1>5
<1> QED
  BY <1>5, <1>6

OfAll(T, D) == {t \in T : t.bot \in D}

LEMMA RowsAddUp ==
  ASSUME NEW T, IsFiniteSet(T), \A t \in T : t.result \in Int, NEW D, IsFiniteSet(D)
  PROVE  /\ SumFunctionOnSet([b \in D |-> Total(Of(T, b))], D) = Total(OfAll(T, D))
         /\ SumFunctionOnSet([b \in D |-> Cardinality(Of(T, b))], D) = Cardinality(OfAll(T, D))
<1> PICK h : h = [b \in D |-> Total(Of(T, b))]
  OBVIOUS
<1> PICK k : k = [b \in D |-> Cardinality(Of(T, b))]
  OBVIOUS
<1>1. \A b : Of(T, b) \in SUBSET T
  BY DEF Of
<1>2. PICK r : r = [t \in T |-> t.result]
  OBVIOUS
<1>3. h \in [D -> Int]
  BY <1>1, <1>2, TotalIsSum
<1>4. k \in [D -> Int]
  <2>1. \A b \in D : Cardinality(Of(T, b)) \in Int
    BY <1>1, FS_Subset, FS_CardinalityType
  <2> QED
    BY <2>1
<1>5. ASSUME NEW E \in SUBSET D, NEW c \in E
      PROVE  /\ OfAll(T, E) = Of(T, c) \cup OfAll(T, E \ {c})
             /\ Of(T, c) \in SUBSET T
             /\ OfAll(T, E \ {c}) \in SUBSET (T \ Of(T, c))
  BY DEF OfAll, Of
<1> PICK C : C = {n \in Nat : \E E \in SUBSET D :
                    /\ Cardinality(E) = n
                    /\ ~(SumFunctionOnSet(h, E) = Total(OfAll(T, E))
                         /\ SumFunctionOnSet(k, E) = Cardinality(OfAll(T, E)))}
  OBVIOUS
<1>6. C = {}
  <2> SUFFICES ASSUME C # {} PROVE FALSE
    OBVIOUS
  <2>1. PICK n \in C : \A m \in C : n <= m
    BY HasLeast
  <2>2. PICK E \in SUBSET D : /\ Cardinality(E) = n
                              /\ ~(SumFunctionOnSet(h, E) = Total(OfAll(T, E))
                                   /\ SumFunctionOnSet(k, E) = Cardinality(OfAll(T, E)))
    BY <2>1
  <2>3. E # {}
    <3> SUFFICES ASSUME E = {} PROVE FALSE
      OBVIOUS
    <3>1. OfAll(T, E) = {}
      BY DEF OfAll
    <3>2. SumFunctionOnSet(h, E) = 0 /\ SumFunctionOnSet(k, E) = 0
      BY SumNone
    <3>3. Total({}) = 0
      BY SumNone DEF Total
    <3>4. Cardinality({}) = 0
      BY FS_EmptySet
    <3> QED
      BY <2>2, <3>1, <3>2, <3>3, <3>4
  <2>4. PICK c \in E : TRUE
    BY <2>3
  <2>5. E \ {c} \in SUBSET D /\ c \in D
    OBVIOUS
  <2>6. Cardinality(E \ {c}) \in Nat /\ Cardinality(E \ {c}) = n - 1 /\ n \in Nat
    BY <2>1, <2>2, OneTaken
  <2>7. /\ SumFunctionOnSet(h, E \ {c}) = Total(OfAll(T, E \ {c}))
        /\ SumFunctionOnSet(k, E \ {c}) = Cardinality(OfAll(T, E \ {c}))
    BY <2>1, <2>5, <2>6
  <2>8. SumFunctionOnSet(h, E) = h[c] + SumFunctionOnSet(h, E \ {c})
    BY <1>3, SumTakes
  <2>9. SumFunctionOnSet(k, E) = k[c] + SumFunctionOnSet(k, E \ {c})
    BY <1>4, SumTakes
  <2>10. h[c] = Total(Of(T, c)) /\ k[c] = Cardinality(Of(T, c))
    BY <2>5
  <2>11. Total(OfAll(T, E)) = Total(Of(T, c)) + Total(OfAll(T, E \ {c}))
    <3>1. PICK A, B : A = Of(T, c) /\ B = OfAll(T, E \ {c})
      OBVIOUS
    <3>2. A \in SUBSET T /\ B \in SUBSET (T \ A) /\ OfAll(T, E) = A \cup B
      BY <1>5, <3>1
    <3>3. Total(A \cup B) = Total(A) + Total(B)
      BY <3>2, TotalOfUnion
    <3> QED
      BY <3>1, <3>2, <3>3
  <2>12. Cardinality(OfAll(T, E)) = Cardinality(Of(T, c)) + Cardinality(OfAll(T, E \ {c}))
    <3>1. PICK A, B : A = Of(T, c) /\ B = OfAll(T, E \ {c})
      OBVIOUS
    <3>2. A \in SUBSET T /\ B \in SUBSET (T \ A) /\ OfAll(T, E) = A \cup B
      BY <1>5, <3>1
    <3>3. Cardinality(A \cup B) = Cardinality(A) + Cardinality(B)
      BY <3>2, CountOfUnion
    <3> QED
      BY <3>1, <3>2, <3>3
  <2> QED
    BY <2>2, <2>7, <2>8, <2>9, <2>10, <2>11, <2>12
<1>7. Cardinality(D) \in Nat
  BY FS_CardinalityType
<1> QED
  BY <1>6, <1>7

(* The record of trades, the state of a run and what runs have found.      *)
AuditedTrade ==
  [bot : AuditedBots, setup : TradedSetups, status : {"active", "error", "closed", "cancelled"},
   result : Int, left : Nat, entered : Nat, made : Nat]
Judgements == UNION {[F -> [n : Nat, total : Int]] : F \in SUBSET Families}
AuditStates ==
  [pc : {"idle", "expectancy", "register", "setups", "errors", "findings"}, until : Nat,
   families : Judgements, losses : Nat, twice : SUBSET SUBSET AuditedTrade, broken : SUBSET TradedSetups]
Findings ==
  [kind : {"pause", "works", "twice", "errors", "silent"}, about : Families \cup TradedSetups \cup {"setups", "bots"},
   status : {"pending", "none", "applied", "dismissed"}, run : Nat]
AuditTyped ==
  /\ clock \in Nat /\ runs \in Nat
  /\ trades \subseteq AuditedTrade /\ IsFiniteSet(trades) /\ \A t \in trades : t.made <= clock
  /\ audit \in AuditStates /\ findings \subseteq Findings

(* A family has lost, on enough closed trades, by the time e.              *)
Own(T, f, e) == {t \in Closed(T) : FamilyOf[t.bot] = f /\ t.made <= e}
LostBy(T, f, e) == Cardinality(Own(T, f, e)) >= MinTrades /\ Total(Own(T, f, e)) < 0

(* What earns a pause is recorded with the trade that earns it; so a run,  *)
(* at whatever time it reads, judges families that have earned theirs, its *)
(* findings name such families, and an administrator pauses no other.  And *)
(* the loss that a judgement rests on is in what the register reads.       *)
EarnedInTime == \A f \in Families, e \in Int : LostBy(trades, f, e) => f \in earned
JudgedEarned == \A f \in DOMAIN audit.families : Loses(audit.families[f]) => f \in earned
FindingsEarned == \A x \in findings : x.kind = "pause" => x.about \in earned
LossIsRead ==
  audit.pc = "register" => \A f \in DOMAIN audit.families :
    Loses(audit.families[f]) => \E t \in Closed(Known) : t.result < 0
AuditInv ==
  AuditTyped /\ EarnedInTime /\ JudgedEarned /\ FindingsEarned /\ PausesEarned /\ LossIsRead /\ RegisterCovers

LEMMA OwnKnown ==
  ASSUME NEW T, IsFiniteSet(T), T \subseteq AuditedTrade, NEW f, NEW e
  PROVE  /\ Own(T, f, e) \in SUBSET T /\ IsFiniteSet(Own(T, f, e)) /\ Cardinality(Own(T, f, e)) \in Nat
         /\ Total(Own(T, f, e)) \in Int
         /\ Total(Own(T, f, e)) < 0 => \E t \in Own(T, f, e) : t.result < 0
<1>1. Own(T, f, e) \in SUBSET T
  BY DEF Own, Closed
<1>2. IsFiniteSet(Own(T, f, e)) /\ Cardinality(Own(T, f, e)) \in Nat
  BY <1>1, FS_Subset, FS_CardinalityType
<1>3. PICK r : r = [t \in T |-> t.result]
  OBVIOUS
<1>4. \A t \in T : t.result \in Int
  BY DEF AuditedTrade
<1>5. r \in [T -> Int] /\ Total(Own(T, f, e)) = SumFunctionOnSet(r, Own(T, f, e)) /\ Total(Own(T, f, e)) \in Int
  BY <1>1, <1>3, <1>4, TotalIsSum
<1>6. ASSUME Total(Own(T, f, e)) < 0 PROVE \E t \in Own(T, f, e) : t.result < 0
  <2>1. PICK t \in Own(T, f, e) : r[t] < 0
    BY <1>1, <1>5, <1>6, SumBelow
  <2> QED
    BY <1>1, <1>3, <2>1
<1> QED
  BY <1>1, <1>2, <1>5, <1>6

(* A family that has lost by some time has lost by the time of a trade.    *)
LEMMA LostByATrade ==
  ASSUME NEW T, IsFiniteSet(T), T \subseteq AuditedTrade, NEW N \in Nat, \A t \in T : t.made <= N,
         NEW f, NEW e \in Int, LostBy(T, f, e)
  PROVE  \E m \in {t.made : t \in T} : LostBy(T, f, m)
<1>1. PICK O : O = Own(T, f, e)
  OBVIOUS
<1>2. O # {}
  <2>1. Cardinality({}) = 0
    BY FS_EmptySet
  <2> QED
    BY <1>1, <2>1, AuditSettings DEF LostBy
<1>3. O \in SUBSET T
  BY <1>1, OwnKnown
<1>4. PICK U : U = {N - t.made : t \in O}
  OBVIOUS
<1>5. U \in SUBSET Nat /\ U # {}
  BY <1>2, <1>3, <1>4 DEF AuditedTrade
<1>6. PICK u \in U : \A v \in U : u <= v
  BY <1>5, HasLeast
<1>7. PICK w \in O : u = N - w.made
  BY <1>4, <1>6
<1>8. \A t \in O : t.made <= w.made
  <2> SUFFICES ASSUME NEW t \in O PROVE t.made <= w.made
    OBVIOUS
  <2>1. N - w.made <= N - t.made
    BY <1>4, <1>6, <1>7
  <2>2. t.made \in Nat /\ w.made \in Nat
    BY <1>3 DEF AuditedTrade
  <2> QED
    BY <2>1, <2>2
<1>9. \A t \in T : t.made \in Nat
  BY DEF AuditedTrade
<1>10. Own(T, f, w.made) = O
  <2>1. w.made <= e /\ w.made \in Nat
    BY <1>1, <1>3, <1>9 DEF Own
  <2>2. \A t \in Closed(T) : t.made \in Nat
    BY <1>9 DEF Closed
  <2> QED
    BY <1>1, <1>8, <2>1, <2>2 DEF Own
<1> QED
  BY <1>1, <1>3, <1>10 DEF LostBy

LEMMA JudgedOnOwn ==
  ASSUME AuditTyped, NEW f \in DOMAIN Expectancy(Known)
  PROVE  /\ f \in Families
         /\ Expectancy(Known)[f] = [n |-> Cardinality(Own(trades, f, audit.until - 1)),
                                    total |-> Total(Own(trades, f, audit.until - 1))]
<1>1. PICK C : C = Closed(Known)
  OBVIOUS
<1>2. C \in SUBSET trades /\ IsFiniteSet(C) /\ \A t \in C : t.result \in Int
  <2>1. C \in SUBSET trades
    BY <1>1 DEF Closed, Known
  <2>2. IsFiniteSet(C)
    BY <2>1, FS_Subset DEF AuditTyped
  <2> QED
    BY <2>1, <2>2 DEF AuditTyped, AuditedTrade
<1>3. PICK rows : rows = InstanceRows(C)
  OBVIOUS
<1>4. PICK own : own = {b \in DOMAIN rows : FamilyOf[b] = f}
  OBVIOUS
<1>5. /\ DOMAIN rows = {t.bot : t \in C}
      /\ \A b \in DOMAIN rows : rows[b] = [n |-> Cardinality(Of(C, b)), total |-> Total(Of(C, b))]
  BY <1>3 DEF InstanceRows, InstanceRow
<1>6. own \in SUBSET AuditedBots /\ IsFiniteSet(own)
  <2>1. own \in SUBSET AuditedBots
    BY <1>2, <1>4, <1>5 DEF AuditTyped, AuditedTrade
  <2> QED
    BY <2>1, FS_Subset, AuditSettings
<1>7. /\ f \in {FamilyOf[b] : b \in DOMAIN rows} /\ Expectancy(Known)[f] = Rollup(rows, f)
  BY <1>1, <1>3 DEF Expectancy
<1>8. f \in Families
  <2>1. PICK b \in DOMAIN rows : f = FamilyOf[b]
    BY <1>7
  <2>2. b \in own
    BY <1>4, <2>1
  <2> QED
    BY <1>6, <2>1, <2>2 DEF Families
<1>9. Rollup(rows, f) = [n |-> SumFunctionOnSet([b \in own |-> rows[b].n], own),
                         total |-> SumFunctionOnSet([b \in own |-> rows[b].total], own)]
  BY <1>4 DEF Rollup
<1>10. /\ [b \in own |-> rows[b].n] = [b \in own |-> Cardinality(Of(C, b))]
       /\ [b \in own |-> rows[b].total] = [b \in own |-> Total(Of(C, b))]
  <2>1. ASSUME NEW b \in own
        PROVE  rows[b].n = Cardinality(Of(C, b)) /\ rows[b].total = Total(Of(C, b))
    <3>1. rows[b] = [n |-> Cardinality(Of(C, b)), total |-> Total(Of(C, b))]
      BY <1>4, <1>5
    <3> QED
      BY <3>1
  <2>2. PICK p, q : p = [b \in own |-> rows[b].n] /\ q = [b \in own |-> rows[b].total]
    OBVIOUS
  <2>3. p = [b \in own |-> Cardinality(Of(C, b))]
    BY <2>1, <2>2
  <2>4. q = [b \in own |-> Total(Of(C, b))]
    BY <2>1, <2>2
  <2> QED
    BY <2>2, <2>3, <2>4
<1>11. /\ SumFunctionOnSet([b \in own |-> Total(Of(C, b))], own) = Total(OfAll(C, own))
       /\ SumFunctionOnSet([b \in own |-> Cardinality(Of(C, b))], own) = Cardinality(OfAll(C, own))
  BY <1>2, <1>6, RowsAddUp
<1>12. OfAll(C, own) = Own(trades, f, audit.until - 1)
  <2>1. OfAll(C, own) = {t \in C : FamilyOf[t.bot] = f}
    BY <1>4, <1>5 DEF OfAll
  <2>2. \A t \in trades : t.made < audit.until <=> t.made <= audit.until - 1
    BY DEF AuditTyped, AuditedTrade, AuditStates
  <2> QED
    BY <1>1, <2>1, <2>2 DEF Own, Closed, Known
<1> QED
  BY <1>7, <1>8, <1>9, <1>10, <1>11, <1>12

LEMMA JudgementsTyped ==
  ASSUME AuditTyped PROVE Expectancy(Known) \in Judgements
<1>1. PICK E : E = Expectancy(Known)
  OBVIOUS
<1>2. \A f \in DOMAIN E : f \in Families /\ E[f] \in [n : Nat, total : Int]
  <2> SUFFICES ASSUME NEW f \in DOMAIN E PROVE f \in Families /\ E[f] \in [n : Nat, total : Int]
    OBVIOUS
  <2>1. /\ f \in Families
        /\ E[f] = [n |-> Cardinality(Own(trades, f, audit.until - 1)),
                   total |-> Total(Own(trades, f, audit.until - 1))]
    BY <1>1, JudgedOnOwn
  <2>2. IsFiniteSet(trades) /\ trades \subseteq AuditedTrade
    BY DEF AuditTyped
  <2>3. Cardinality(Own(trades, f, audit.until - 1)) \in Nat /\ Total(Own(trades, f, audit.until - 1)) \in Int
    BY <2>2, OwnKnown
  <2> QED
    BY <2>1, <2>3
<1>3. PICK F : F = DOMAIN E
  OBVIOUS
<1>4. E = [f \in F |-> E[f]]
  BY <1>1, <1>3 DEF Expectancy
<1>5. E \in [F -> [n : Nat, total : Int]] /\ F \in SUBSET Families
  BY <1>2, <1>3, <1>4
<1> QED
  BY <1>1, <1>5 DEF Judgements

LEMMA NoAuditTyped == NoAudit \in AuditStates /\ DOMAIN NoAudit.families = {}
<1>1. PICK e : e = <<>>
  OBVIOUS
<1>2. e \in [{} -> [n : Nat, total : Int]] /\ DOMAIN e = {}
  BY <1>1
<1>3. e \in Judgements
  BY <1>2 DEF Judgements
<1> QED
  BY <1>1, <1>2, <1>3 DEF NoAudit, AuditStates

(* Trading.                                                                *)
LEMMA TradeSteps ==
  ASSUME AuditTyped, NEW b \in AuditedBots, NEW setup \in TradedSetups, Trade(b, setup)
  PROVE  AuditTyped' /\ Closed(trades') = Closed(trades)
<1>1. clock \in Nat /\ clock' = clock + 1 /\ UNCHANGED <<audit, findings, runs>>
  BY DEF Trade, Ticks, Keep, AuditTyped
<1>2. PICK s \in {"active", "error"} :
        trades' = trades \cup {[bot |-> b, setup |-> setup, status |-> s, result |-> 0, left |-> Open,
                               entered |-> IF s = "error" THEN Open ELSE clock, made |-> clock]}
  BY DEF Trade
<1>3. PICK n \in AuditedTrade : trades' = trades \cup {n} /\ n.made = clock /\ n.status = s
  <2>1. [bot |-> b, setup |-> setup, status |-> s, result |-> 0, left |-> Open,
         entered |-> IF s = "error" THEN Open ELSE clock, made |-> clock] \in AuditedTrade
    BY <1>1 DEF AuditedTrade, Open
  <2> QED
    BY <1>2, <2>1
<1>4. IsFiniteSet(trades')
  BY <1>3, FS_AddElement DEF AuditTyped
<1>5. \A t \in trades' : t.made <= clock'
  <2>1. \A t \in trades : t.made \in Nat /\ t.made <= clock
    BY DEF AuditTyped, AuditedTrade
  <2> QED
    BY <1>1, <1>3, <2>1
<1>6. AuditTyped'
  BY <1>1, <1>3, <1>4, <1>5 DEF AuditTyped
<1>7. Closed(trades') = Closed(trades)
  BY <1>3 DEF Closed
<1> QED
  BY <1>6, <1>7

LEMMA LeaveSteps ==
  ASSUME AuditTyped, NEW t \in trades, Leaves(t)
  PROVE  /\ AuditTyped' /\ Closed(trades) \subseteq Closed(trades')
         /\ UNCHANGED <<audit, findings, runs, paused, pauses>>
         /\ earned' = earned \cup {f \in Families : \E e \in {u.made : u \in trades'} : LostBy(trades', f, e)}
<1>1. clock \in Nat /\ clock' = clock + 1 /\ UNCHANGED <<audit, findings, runs, paused, pauses>>
      /\ t.status = "active" /\ t \in AuditedTrade
  BY DEF Leaves, Ticks, Keep, AuditTyped
<1>2. PICK u : /\ u \in {[t EXCEPT !.status = "closed", !.result = r, !.left = clock] : r \in Outcomes}
                        \cup {[t EXCEPT !.status = "cancelled"]}
               /\ trades' = (trades \ {t}) \cup {u} /\ Earned(trades')
  BY DEF Leaves
<1>3. u \in AuditedTrade /\ u.made = t.made
  <2>1. ASSUME NEW r \in Outcomes
        PROVE  LET v == [t EXCEPT !.status = "closed", !.result = r, !.left = clock]
               IN  v \in AuditedTrade /\ v.made = t.made
    <3>1. r \in Int
      BY AuditSettings
    <3> QED
      BY <1>1, <3>1 DEF AuditedTrade
  <2>2. [t EXCEPT !.status = "cancelled"] \in AuditedTrade /\ [t EXCEPT !.status = "cancelled"].made = t.made
    BY <1>1 DEF AuditedTrade
  <2> QED
    BY <1>2, <2>1, <2>2
<1>4. trades' = (trades \ {t}) \cup {u}
  BY <1>2
<1>5. IsFiniteSet(trades')
  <2>1. IsFiniteSet(trades \ {t})
    BY FS_RemoveElement DEF AuditTyped
  <2> QED
    BY <1>4, <2>1, FS_AddElement
<1>6. \A v \in trades' : v.made <= clock'
  <2>1. \A v \in trades : v.made \in Nat /\ v.made <= clock
    BY DEF AuditTyped, AuditedTrade
  <2> QED
    BY <1>1, <1>3, <1>4, <2>1
<1>7. AuditTyped'
  BY <1>1, <1>3, <1>4, <1>5, <1>6 DEF AuditTyped
<1>8. Closed(trades) \subseteq Closed(trades')
  BY <1>1, <1>4 DEF Closed
<1>9. earned' = earned \cup {f \in Families : \E e \in {v.made : v \in trades'} : LostBy(trades', f, e)}
  BY <1>2 DEF Earned, LostBy, Own
<1> QED
  BY <1>1, <1>7, <1>8, <1>9

LEMMA TradingKeeps ==
  ASSUME AuditInv, \/ \E b \in AuditedBots, setup \in TradedSetups : Trade(b, setup)
                   \/ \E t \in trades : Leaves(t)
  PROVE  AuditInv'
<1>1. /\ AuditTyped' /\ Closed(trades) \subseteq Closed(trades')
      /\ UNCHANGED <<audit, findings, pauses>> /\ earned \subseteq earned'
  BY TradeSteps, LeaveSteps DEF AuditInv, Trade, Keep
<1>2. EarnedInTime'
  <2>1. CASE \E b \in AuditedBots, setup \in TradedSetups : Trade(b, setup)
    <3>1. Closed(trades') = Closed(trades) /\ earned' = earned
      BY <2>1, TradeSteps DEF AuditInv, Trade
    <3> QED
      BY <3>1 DEF AuditInv, EarnedInTime, LostBy, Own
  <2>2. CASE \E t \in trades : Leaves(t)
    <3> SUFFICES ASSUME NEW f \in Families, NEW e \in Int, LostBy(trades', f, e) PROVE f \in earned'
      BY DEF EarnedInTime
    <3>1. earned' = earned \cup {g \in Families : \E d \in {v.made : v \in trades'} : LostBy(trades', g, d)}
      BY <2>2, LeaveSteps DEF AuditInv
    <3>2. IsFiniteSet(trades') /\ trades' \subseteq AuditedTrade /\ clock' \in Nat /\ \A t \in trades' : t.made <= clock'
      BY <1>1 DEF AuditTyped
    <3>3. \E m \in {t.made : t \in trades'} : LostBy(trades', f, m)
      BY <3>2, LostByATrade
    <3> QED
      BY <3>1, <3>3
  <2> QED
    BY <2>1, <2>2
<1>3. JudgedEarned' /\ FindingsEarned' /\ PausesEarned' /\ RegisterCovers'
  BY <1>1 DEF AuditInv, JudgedEarned, FindingsEarned, PausesEarned, RegisterCovers
<1>4. LossIsRead'
  <2> SUFFICES ASSUME audit.pc = "register", NEW f \in DOMAIN audit.families, Loses(audit.families[f])
               PROVE  \E t \in Closed(Known)' : t.result < 0
    BY <1>1 DEF LossIsRead
  <2>1. PICK t \in Closed(Known) : t.result < 0
    BY DEF AuditInv, LossIsRead
  <2>2. t \in Closed(Known)'
    BY <1>1, <2>1 DEF Closed, Known
  <2> QED
    BY <2>1, <2>2
<1> QED
  BY <1>1, <1>2, <1>3, <1>4 DEF AuditInv

(* The run.  What is read of the trades makes no difference to them.       *)
LEMMA JudgedRight ==
  ASSUME AuditInv, NEW f \in DOMAIN Expectancy(Known), Loses(Expectancy(Known)[f])
  PROVE  f \in earned /\ \E t \in Closed(Known) : t.result < 0
<1>1. PICK e : e = audit.until - 1
  OBVIOUS
<1>2. /\ f \in Families
      /\ Expectancy(Known)[f] = [n |-> Cardinality(Own(trades, f, e)), total |-> Total(Own(trades, f, e))]
  BY <1>1, JudgedOnOwn DEF AuditInv
<1>3. e \in Int /\ \A t \in trades : t.made <= e <=> t.made < audit.until
  BY <1>1 DEF AuditInv, AuditTyped, AuditStates, AuditedTrade
<1>4. LostBy(trades, f, e)
  BY <1>2 DEF Loses, LostBy
<1>5. f \in earned
  BY <1>2, <1>3, <1>4 DEF AuditInv, EarnedInTime
<1>6. PICK t \in Own(trades, f, e) : t.result < 0
  BY <1>4, OwnKnown DEF LostBy, AuditInv, AuditTyped
<1>7. t \in Closed(Known)
  BY <1>3, <1>6 DEF Own, Closed, Known
<1> QED
  BY <1>5, <1>6, <1>7

LEMMA SetupsTyped ==
  ASSUME AuditTyped PROVE Setups(Known) \subseteq SUBSET AuditedTrade /\ Clusters(Known) \subseteq TradedSetups
<1>1. Known \subseteq AuditedTrade
  BY DEF AuditTyped, Known
<1> QED
  BY <1>1 DEF Setups, Clusters, AuditedTrade

LEMMA ReadsKeep ==
  ASSUME AuditInv, Reads, audit' \in AuditStates, JudgedEarned', LossIsRead', RegisterCovers'
  PROVE  AuditInv'
<1>1. UNCHANGED <<clock, trades, findings, runs, earned, pauses>>
  BY DEF Reads
<1>2. AuditTyped'
  BY <1>1 DEF AuditInv, AuditTyped
<1>3. EarnedInTime' /\ FindingsEarned' /\ PausesEarned'
  BY <1>1 DEF AuditInv, EarnedInTime, LostBy, Own, Closed, FindingsEarned, PausesEarned
<1> QED
  BY <1>2, <1>3 DEF AuditInv

LEMMA StartKeeps == ASSUME AuditInv, StartAudit PROVE AuditInv'
<1>1. Reads /\ audit' = [NoAudit EXCEPT !.pc = "expectancy", !.until = clock]
  BY DEF StartAudit
<1>2. NoAudit \in AuditStates /\ DOMAIN NoAudit.families = {}
  BY NoAuditTyped
<1>3. /\ audit' \in AuditStates /\ audit'.pc = "expectancy"
      /\ audit'.families = NoAudit.families
  BY <1>1, <1>2 DEF AuditInv, AuditTyped, AuditStates
<1>4. JudgedEarned' /\ LossIsRead' /\ RegisterCovers'
  BY <1>2, <1>3 DEF JudgedEarned, LossIsRead, RegisterCovers
<1> QED
  BY <1>1, <1>3, <1>4, ReadsKeep

LEMMA ExpectancyKeeps == ASSUME AuditInv, ReadExpectancy PROVE AuditInv'
<1>1. Reads /\ audit' = [audit EXCEPT !.pc = "register", !.families = Expectancy(Known)]
  BY DEF ReadExpectancy
<1>2. PICK E : E = Expectancy(Known)
  OBVIOUS
<1>3. E \in Judgements
  BY <1>2, JudgementsTyped DEF AuditInv
<1>4. audit' = [audit EXCEPT !.pc = "register", !.families = E]
  BY <1>1, <1>2
<1>5. audit' \in AuditStates /\ audit'.pc = "register" /\ audit'.families = E /\ audit'.until = audit.until
  BY <1>3, <1>4 DEF AuditInv, AuditTyped, AuditStates
<1>6. \A f \in DOMAIN E : Loses(E[f]) => f \in earned /\ \E t \in Closed(Known) : t.result < 0
  BY <1>2, JudgedRight
<1>7. Closed(Known)' = Closed(Known) /\ earned' = earned
  BY <1>1, <1>5 DEF Reads, Closed, Known
<1>8. JudgedEarned' /\ LossIsRead' /\ RegisterCovers'
  BY <1>5, <1>6, <1>7 DEF JudgedEarned, LossIsRead, RegisterCovers, Loses
<1> QED
  BY <1>1, <1>5, <1>8, ReadsKeep

LEMMA RegisterKeeps == ASSUME AuditInv, ReadRegister PROVE AuditInv'
<1>1. /\ audit.pc = "register" /\ Reads
      /\ audit' = [audit EXCEPT !.pc = "setups", !.losses = Cardinality({t \in Closed(Known) : t.result < 0})]
  BY DEF ReadRegister
<1>2. PICK n : n = Cardinality({t \in Closed(Known) : t.result < 0})
  OBVIOUS
<1>3. PICK L : L = {t \in Closed(Known) : t.result < 0}
  OBVIOUS
<1>4. IsFiniteSet(L)
  <2>1. L \in SUBSET trades
    BY <1>3 DEF Closed, Known
  <2> QED
    BY <2>1, FS_Subset DEF AuditInv, AuditTyped
<1>5. n \in Nat /\ (n = 0 <=> L = {})
  BY <1>2, <1>3, <1>4, FS_CardinalityType, FS_EmptySet
<1>6. audit' = [audit EXCEPT !.pc = "setups", !.losses = n]
  BY <1>1, <1>2
<1>7. audit' \in AuditStates /\ audit'.pc = "setups" /\ audit'.families = audit.families /\ audit'.losses = n
  BY <1>5, <1>6 DEF AuditInv, AuditTyped, AuditStates
<1>8. JudgedEarned' /\ LossIsRead'
  BY <1>1, <1>7 DEF JudgedEarned, LossIsRead, Reads, AuditInv, Loses
<1>9. RegisterCovers'
  <2> SUFFICES ASSUME NEW f \in DOMAIN audit'.families, Loses(audit'.families[f]) PROVE audit'.losses > 0
    BY DEF RegisterCovers, Loses
  <2>1. \E t \in Closed(Known) : t.result < 0
    BY <1>1, <1>7 DEF AuditInv, LossIsRead
  <2>2. L # {}
    BY <1>3, <2>1
  <2> QED
    BY <1>5, <1>7, <2>2
<1> QED
  BY <1>1, <1>7, <1>8, <1>9, ReadsKeep

LEMMA LaterReadsKeep == ASSUME AuditInv, ReadSetups \/ ReadErrors PROVE AuditInv'
<1>1. Reads
  BY DEF ReadSetups, ReadErrors
<1>2. /\ audit' \in AuditStates /\ audit'.pc \in {"errors", "findings"}
      /\ audit'.families = audit.families
  <2>1. CASE ReadSetups
    <3>1. PICK W : W = {S \in Setups(Known) : TradedTwice(S)}
      OBVIOUS
    <3>2. W \in SUBSET SUBSET AuditedTrade
      BY <3>1, SetupsTyped DEF AuditInv
    <3>3. audit' = [audit EXCEPT !.pc = "errors", !.twice = W]
      BY <2>1, <3>1 DEF ReadSetups
    <3> QED
      BY <3>2, <3>3 DEF AuditInv, AuditTyped, AuditStates
  <2>2. CASE ReadErrors
    <3>1. PICK B : B = Clusters(Known)
      OBVIOUS
    <3>2. B \in SUBSET TradedSetups
      BY <3>1, SetupsTyped DEF AuditInv
    <3>3. audit' = [audit EXCEPT !.pc = "findings", !.broken = B]
      BY <2>2, <3>1 DEF ReadErrors
    <3> QED
      BY <3>2, <3>3 DEF AuditInv, AuditTyped, AuditStates
  <2> QED
    BY <2>1, <2>2
<1>3. JudgedEarned' /\ LossIsRead' /\ RegisterCovers'
  BY <1>1, <1>2 DEF JudgedEarned, LossIsRead, RegisterCovers, Reads, AuditInv, Loses
<1> QED
  BY <1>1, <1>2, <1>3, ReadsKeep

(* A run ends: it adds what it has concluded, or nothing.                  *)
LEMMA EndKeeps ==
  ASSUME AuditInv, audit' = NoAudit, runs' \in Nat, UNCHANGED <<clock, trades, earned, pauses>>,
         findings' \subseteq Findings, FindingsEarned'
  PROVE  AuditInv'
<1>1. NoAudit \in AuditStates /\ DOMAIN NoAudit.families = {} /\ NoAudit.pc = "idle"
  BY NoAuditTyped DEF NoAudit
<1>2. AuditTyped'
  BY <1>1 DEF AuditInv, AuditTyped
<1>3. EarnedInTime' /\ PausesEarned'
  BY DEF AuditInv, EarnedInTime, LostBy, Own, Closed, PausesEarned
<1>4. JudgedEarned' /\ LossIsRead' /\ RegisterCovers'
  BY <1>1 DEF JudgedEarned, LossIsRead, RegisterCovers
<1> QED
  BY <1>2, <1>3, <1>4 DEF AuditInv

LEMMA ConcludedSound ==
  ASSUME AuditInv
  PROVE  Concluded \subseteq Findings /\ \A x \in Concluded : x.kind = "pause" => x.about \in earned
<1>1. PICK F : F = audit.families
  OBVIOUS
<1>2. DOMAIN F \subseteq Families
  BY <1>1 DEF AuditInv, AuditTyped, AuditStates, Judgements
<1>3. \A f \in DOMAIN F : Loses(F[f]) => f \in earned
  BY <1>1 DEF AuditInv, JudgedEarned
<1>4. audit.broken \subseteq TradedSetups /\ runs + 1 \in Nat
  BY DEF AuditInv, AuditTyped, AuditStates
<1>5. PICK r : r = runs + 1
  OBVIOUS
<1>6. ASSUME NEW x \in Concluded
      PROVE  \/ \E a \in DOMAIN F : Loses(F[a]) /\ x = [kind |-> "pause", about |-> a, status |-> "pending", run |-> r]
             \/ \E a \in DOMAIN F : x = [kind |-> "works", about |-> a, status |-> "none", run |-> r]
             \/ x = [kind |-> "twice", about |-> "setups", status |-> "none", run |-> r]
             \/ \E a \in audit.broken : x = [kind |-> "errors", about |-> a, status |-> "none", run |-> r]
             \/ x = [kind |-> "silent", about |-> "bots", status |-> "none", run |-> r]
  BY <1>1, <1>5 DEF Concluded, Found
<1>7. ASSUME NEW x \in Concluded PROVE x \in Findings /\ (x.kind = "pause" => x.about \in earned)
  BY <1>2, <1>3, <1>4, <1>5, <1>6 DEF Findings
<1> QED
  BY <1>7

LEMMA RunEndsKeep == ASSUME AuditInv, CompleteAudit \/ FailAudit PROVE AuditInv'
<1>1. audit' = NoAudit /\ runs' \in Nat /\ UNCHANGED <<clock, trades, earned, pauses>>
  BY DEF CompleteAudit, FailAudit, AuditInv, AuditTyped
<1>2. findings' \subseteq findings \cup Concluded
  BY DEF CompleteAudit, FailAudit
<1>3. findings' \subseteq Findings
  BY <1>2, ConcludedSound DEF AuditInv, AuditTyped
<1>4. FindingsEarned'
  BY <1>1, <1>2, ConcludedSound DEF AuditInv, FindingsEarned
<1> QED
  BY <1>1, <1>3, <1>4, EndKeeps

(* The administrator.                                                      *)
LEMMA AdminKeeps ==
  ASSUME AuditInv, \/ \E f \in findings : ApplyFinding(f) \/ DismissFinding(f)
                   \/ \E r \in 1..MaxRuns : DeleteRun(r)
                   \/ \E b \in AuditedBots : Resume(b)
  PROVE  AuditInv'
<1>1. /\ UNCHANGED <<trades, audit, runs, earned>> /\ clock' \in Nat /\ clock <= clock'
  BY DEF ApplyFinding, DismissFinding, DeleteRun, Resume, Ticks, AuditInv, AuditTyped
<1>2. \A x \in findings' : x \in Findings /\ \E y \in findings : x.kind = y.kind /\ x.about = y.about
  <2>1. CASE \E f \in findings : ApplyFinding(f) \/ DismissFinding(f)
    <3>1. PICK f \in findings, s \in {"applied", "dismissed"} : Settle(f, s)
      BY <2>1 DEF ApplyFinding, DismissFinding
    <3>2. f \in Findings /\ findings \subseteq Findings
      BY DEF AuditInv, AuditTyped
    <3>3. PICK g : g = [f EXCEPT !.status = s]
      OBVIOUS
    <3>4. g \in Findings /\ g.kind = f.kind /\ g.about = f.about
      BY <3>2, <3>3 DEF Findings
    <3>5. findings' = (findings \ {f}) \cup {g}
      BY <3>1, <3>3 DEF Settle
    <3> QED
      BY <3>2, <3>4, <3>5
  <2>2. CASE ~\E f \in findings : ApplyFinding(f) \/ DismissFinding(f)
    <3>1. findings' \subseteq findings
      BY <2>2 DEF DeleteRun, Resume
    <3> QED
      BY <3>1 DEF AuditInv, AuditTyped
  <2> QED
    BY <2>1, <2>2
<1>3. AuditTyped'
  <2>1. \A t \in trades : t.made \in Nat /\ t.made <= clock /\ clock \in Nat
    BY DEF AuditInv, AuditTyped, AuditedTrade
  <2>2. \A t \in trades' : t.made <= clock'
    BY <1>1, <2>1
  <2>3. findings' \subseteq Findings
    BY <1>2
  <2> QED
    BY <1>1, <2>2, <2>3 DEF AuditInv, AuditTyped
<1>4. FindingsEarned'
  BY <1>1, <1>2 DEF AuditInv, FindingsEarned
<1>5. PausesEarned'
  <2>1. CASE \E f \in findings : ApplyFinding(f)
    BY <1>1, <2>1 DEF ApplyFinding, AuditInv, FindingsEarned, PausesEarned
  <2>2. CASE ~\E f \in findings : ApplyFinding(f)
    <3>1. pauses' = pauses
      BY <2>2 DEF DismissFinding, DeleteRun, Resume
    <3> QED
      BY <1>1, <3>1 DEF AuditInv, PausesEarned
  <2> QED
    BY <2>1, <2>2
<1>6. EarnedInTime' /\ JudgedEarned' /\ LossIsRead' /\ RegisterCovers'
  BY <1>1 DEF AuditInv, EarnedInTime, LostBy, Own, Closed, Known, JudgedEarned, LossIsRead, RegisterCovers, Loses
<1> QED
  BY <1>3, <1>4, <1>5, <1>6 DEF AuditInv

LEMMA AuditStarts == AuditInit => AuditInv
<1> SUFFICES ASSUME AuditInit PROVE AuditInv
  OBVIOUS
<1>1. NoAudit \in AuditStates /\ DOMAIN NoAudit.families = {} /\ NoAudit.pc = "idle"
  BY NoAuditTyped DEF NoAudit
<1>2. IsFiniteSet({})
  BY FS_EmptySet
<1>3. AuditTyped
  BY <1>1, <1>2 DEF AuditInit, AuditTyped
<1>4. EarnedInTime
  <2> SUFFICES ASSUME NEW f, NEW e PROVE ~LostBy(trades, f, e)
    BY DEF EarnedInTime
  <2>1. Own(trades, f, e) = {}
    BY DEF AuditInit, Own, Closed
  <2>2. Cardinality({}) = 0
    BY FS_EmptySet
  <2> QED
    BY <2>1, <2>2, AuditSettings DEF LostBy
<1>5. JudgedEarned /\ FindingsEarned /\ PausesEarned /\ LossIsRead /\ RegisterCovers
  BY <1>1 DEF AuditInit, JudgedEarned, FindingsEarned, PausesEarned, LossIsRead, RegisterCovers
<1> QED
  BY <1>3, <1>4, <1>5 DEF AuditInv

LEMMA AuditSteps == AuditInv /\ [AuditNext]_auditVars => AuditInv'
<1> SUFFICES ASSUME AuditInv, [AuditNext]_auditVars PROVE AuditInv'
  OBVIOUS
<1>1. CASE UNCHANGED auditVars
  BY <1>1 DEF auditVars, AuditInv, AuditTyped, EarnedInTime, LostBy, Own, Closed, Known, JudgedEarned,
              FindingsEarned, PausesEarned, LossIsRead, RegisterCovers, Loses
<1>2. CASE (\E b \in AuditedBots, setup \in TradedSetups : Trade(b, setup)) \/ \E t \in trades : Leaves(t)
  BY <1>2, TradingKeeps
<1>3. CASE StartAudit
  BY <1>3, StartKeeps
<1>4. CASE ReadExpectancy
  BY <1>4, ExpectancyKeeps
<1>5. CASE ReadRegister
  BY <1>5, RegisterKeeps
<1>6. CASE ReadSetups \/ ReadErrors
  BY <1>6, LaterReadsKeep
<1>7. CASE CompleteAudit \/ FailAudit
  BY <1>7, RunEndsKeep
<1>8. CASE \/ \E f \in findings : ApplyFinding(f) \/ DismissFinding(f)
           \/ \E r \in 1..MaxRuns : DeleteRun(r)
           \/ \E b \in AuditedBots : Resume(b)
  BY <1>8, AdminKeeps
<1> QED
  BY <1>1, <1>2, <1>3, <1>4, <1>5, <1>6, <1>7, <1>8 DEF AuditNext

(* Of the entries after the first of a pair that overlaps, the next one    *)
(* overlaps it too.                                                        *)
LEMMA NextOverlaps ==
  ASSUME NEW S, S \subseteq AuditedTrade
  PROVE  TradedTwice(S) <=> \E a, b \in Entered(S) : a.entered < b.entered /\ Overlap(a, b)
<1>1. ASSUME TradedTwice(S)
      PROVE  \E a, b \in Entered(S) : a.entered < b.entered /\ Overlap(a, b)
  BY <1>1 DEF TradedTwice, Neighbours
<1>2. ASSUME NEW a \in Entered(S), NEW b \in Entered(S), a.entered < b.entered, Overlap(a, b)
      PROVE  TradedTwice(S)
  <2>1. PICK U : U = {t.entered : t \in {u \in Entered(S) : a.entered < u.entered}}
    OBVIOUS
  <2>2. \A t \in Entered(S) : t.entered \in Nat
    BY DEF Entered, AuditedTrade
  <2>3. U \in SUBSET Nat /\ b.entered \in U
    BY <1>2, <2>1, <2>2
  <2>4. PICK n \in U : \A m \in U : n <= m
    BY <2>3, HasLeast
  <2>5. PICK c \in Entered(S) : c.entered = n /\ a.entered < n
    BY <2>1, <2>4
  <2>6. \A t \in Entered(S) : ~(a.entered < t.entered /\ t.entered < c.entered)
    <3> SUFFICES ASSUME NEW t \in Entered(S), a.entered < t.entered, t.entered < n PROVE FALSE
      BY <2>5
    <3>1. t.entered \in U
      BY <2>1
    <3> QED
      BY <2>2, <2>3, <2>4, <3>1
  <2>7. PICK p : p = <<a, c>>
    OBVIOUS
  <2>8. p \in Neighbours(S) /\ p[1] = a /\ p[2] = c
    BY <2>5, <2>6, <2>7 DEF Neighbours
  <2>9. a.left = Open \/ c.entered < a.left
    <3>1. n <= b.entered
      BY <2>3, <2>4
    <3>2. a.left \in Nat
      BY DEF Entered, AuditedTrade
    <3> QED
      BY <1>2, <2>2, <2>5, <3>1, <3>2 DEF Overlap
  <2> QED
    BY <2>8, <2>9 DEF TradedTwice, Overlap
<1> QED
  BY <1>1, <1>2

LEMMA AuditIsRight == AuditInv => AuditIsSound
<1> SUFFICES ASSUME AuditInv PROVE AuditIsSound
  OBVIOUS
<1>1. \A S \in audit.twice \cup Setups(trades) : S \subseteq AuditedTrade
  <2>1. audit.twice \subseteq SUBSET AuditedTrade
    BY DEF AuditInv, AuditTyped, AuditStates
  <2>2. Setups(trades) \subseteq SUBSET AuditedTrade
    BY DEF AuditInv, AuditTyped, Setups
  <2> QED
    BY <2>1, <2>2
<1>2. NeighboursSuffice
  BY <1>1, NextOverlaps DEF NeighboursSuffice
<1> QED
  BY <1>2 DEF AuditInv, AuditIsSound

(* An audit that reads in several statements while trading goes on judges   *)
(* right: whom an applied recommendation pauses had earned it, what the    *)
(* register lists covers what the judgement counted, and comparing         *)
(* neighbours finds every pair of a setup that was open at one time.       *)
THEOREM AuditSound == AuditSpec => []AuditIsSound
<1> QED
  BY AuditStarts, AuditSteps, AuditIsRight, PTL DEF AuditSpec

-----------------------------------------------------------------------------
(* The detectors.  A walk over the tape is a recursive function of the     *)
(* candles it has seen: it has a solution, and what its steps keep holds   *)
(* at its end.                                                             *)
LEMMA CountUp ==
  ASSUME NEW N \in Nat, NEW S, 0 \in S, \A i \in 1..N : i - 1 \in S => i \in S
  PROVE  \A i \in 0..N : i \in S
<1> PICK C : C = {n \in Nat : n <= N /\ n \notin S}
  OBVIOUS
<1> SUFFICES ASSUME C # {} PROVE FALSE
  OBVIOUS
<1>1. PICK n \in C : \A m \in C : n <= m
  <2>1. C \in SUBSET Nat
    OBVIOUS
  <2> QED
    BY <2>1, HasLeast
<1>2. n \in 1..N /\ n - 1 \notin C
  BY <1>1
<1> QED
  BY <1>1, <1>2

WalksTo(g, a, F, n) == g = [i \in 0..n |-> IF i = 0 THEN a ELSE F[<<g[i - 1], i>>]]

LEMMA WalkExists ==
  ASSUME NEW A, NEW N \in Nat, NEW a \in A, NEW F \in [A \X (1..N) -> A]
  PROVE  \E g \in [0..N -> A] : WalksTo(g, a, F, N)
<1> PICK S : S = {n \in Nat : \E g \in [0..n -> A] : WalksTo(g, a, F, n)}
  OBVIOUS
<1>1. 0 \in S
  <2>1. PICK g : g = [i \in 0..0 |-> a]
    OBVIOUS
  <2>2. g \in [0..0 -> A] /\ WalksTo(g, a, F, 0)
    BY <2>1 DEF WalksTo
  <2> QED
    BY <2>2
<1>2. ASSUME NEW n \in 1..N, n - 1 \in S PROVE n \in S
  <2>1. PICK h \in [0..(n - 1) -> A] : WalksTo(h, a, F, n - 1)
    BY <1>2
  <2>2. PICK z : z = F[<<h[n - 1], n>>]
    OBVIOUS
  <2>3. z \in A
    BY <2>2
  <2>4. PICK g : g = [i \in 0..n |-> IF i = n THEN z ELSE h[i]]
    OBVIOUS
  <2>5. g \in [0..n -> A]
    BY <2>3, <2>4
  <2>6. \A i \in 0..n : g[i] = IF i = 0 THEN a ELSE F[<<g[i - 1], i>>]
    <3> TAKE i \in 0..n
    <3>1. CASE i = n
      <4>1. g[i] = z /\ g[i - 1] = h[n - 1] /\ i # 0
        BY <2>4, <3>1
      <4> QED
        BY <2>2, <3>1, <4>1
    <3>2. CASE i # n
      <4>1. i \in 0..(n - 1) /\ g[i] = h[i] /\ (i # 0 => g[i - 1] = h[i - 1])
        BY <2>4, <3>2
      <4>2. h[i] = IF i = 0 THEN a ELSE F[<<h[i - 1], i>>]
        BY <2>1, <4>1 DEF WalksTo
      <4> QED
        BY <4>1, <4>2
    <3> QED
      BY <3>1, <3>2
  <2>7. WalksTo(g, a, F, n)
    BY <2>4, <2>6 DEF WalksTo
  <2> QED
    BY <2>5, <2>7
<1>3. \A i \in 0..N : i \in S
  BY <1>1, <1>2, CountUp
<1> QED
  BY <1>3

Swing == [at : Nat, kind : {"high", "low"}, price : Nat]
Candle == [o : Nat \ {0}, h : Nat \ {0}, l : Nat \ {0}, c : Nat \ {0}]

LEMMA CandleTyped == ASSUME MarketTypeOK, NEW i \in 1..Len(tape) PROVE tape[i] \in Candle
BY CandlesHavePrices DEF MarketTypeOK, Candle

LEMMA SwingTyped == ASSUME MarketTypeOK, NEW i \in 1..Len(tape) PROVE HighAt(i) \in Swing /\ LowAt(i) \in Swing
<1>1. tape[i] \in Candle /\ i \in Nat
  BY CandleTyped DEF MarketTypeOK
<1> QED
  BY <1>1 DEF HighAt, LowAt, Swing, Candle

(* Swings are seen in order; what is kept of those seen is ends of legs.   *)
(* The first of a leg was far enough from where it began, the end is that  *)
(* one or one beyond it, and the swings after the last one kept are either *)
(* too close to it or not beyond it.                                       *)
Kept(kept, seen) ==
  /\ kept \in Seq(Swing) /\ seen \subseteq Swing
  /\ kept = <<>> => seen = {}
  /\ \A i \in 1..Len(kept) : kept[i] \in seen
Legs(kept) ==
  \A i \in 2..Len(kept) : kept[i].kind # kept[i - 1].kind /\ Sooner(kept[i - 1], kept[i])
Ends(kept, seen) ==
  \A i \in 2..Len(kept) : \A x \in seen :
    x.kind = kept[i].kind /\ Sooner(kept[i - 1], x) /\ ~Sooner(kept[i], x) /\ LegCounts(x, kept[i - 1])
      => ~Beyond(x, kept[i])
Begun(kept, seen) ==
  \A i \in 2..Len(kept) : \E y \in seen :
    /\ y.kind = kept[i].kind /\ Sooner(kept[i - 1], y) /\ ~Sooner(kept[i], y) /\ LegCounts(y, kept[i - 1])
    /\ y = kept[i] \/ Beyond(kept[i], y)
After(last, seen) ==
  \A x \in seen : Sooner(last, x) =>
    IF x.kind = last.kind THEN ~Beyond(x, last) ELSE ~LegCounts(x, last)
KeptSound(kept, seen) ==
  /\ Kept(kept, seen) /\ Legs(kept) /\ Ends(kept, seen) /\ Begun(kept, seen)
  /\ kept # <<>> => After(LastOf(kept), seen)

LEMMA SoonerOrders ==
  ASSUME NEW x \in Swing, NEW y \in Swing, NEW z \in Swing
  PROVE  /\ ~Sooner(x, x) /\ ~Beyond(x, x)
         /\ Sooner(x, y) => ~Sooner(y, x) /\ x # y
         /\ Sooner(x, y) /\ Sooner(y, z) => Sooner(x, z)
         /\ x.kind = y.kind /\ Beyond(y, z) /\ ~Beyond(x, z) /\ y.kind = z.kind => ~Beyond(x, y)
         /\ x.kind = y.kind /\ y.kind = z.kind /\ Beyond(x, y) /\ Beyond(y, z) => Beyond(x, z)
BY DEF Sooner, Beyond, Swing

LEMMA KeepTyped ==
  ASSUME NEW kept \in Seq(Swing), NEW s \in Swing
  PROVE  KeepSwing(kept, s) \in Seq(Swing)
<1>1. Append(kept, s) \in Seq(Swing) /\ <<s>> \in Seq(Swing)
  OBVIOUS
<1>2. kept # <<>> => [kept EXCEPT ![Len(kept)] = s] \in Seq(Swing)
  OBVIOUS
<1> QED
  BY <1>1, <1>2 DEF KeepSwing

LEMMA KeepSound ==
  ASSUME NEW kept, NEW seen, KeptSound(kept, seen), NEW s \in Swing, \A x \in seen : Sooner(x, s)
  PROVE  KeptSound(KeepSwing(kept, s), seen \cup {s})
<1> DEFINE n == Len(kept)
<1> PICK new : new = seen \cup {s}
  OBVIOUS
<1> SUFFICES KeptSound(KeepSwing(kept, s), new)
  OBVIOUS
<1>1. /\ kept \in Seq(Swing) /\ seen \subseteq Swing /\ n \in Nat /\ new \subseteq Swing
      /\ \A i \in 1..n : kept[i] \in seen /\ kept[i] \in Swing
  BY DEF KeptSound, Kept
<1>2. \A i \in 1..n : Sooner(kept[i], s) /\ ~Sooner(s, kept[i])
  BY <1>1, SoonerOrders
<1>3. CASE kept = <<>>
  <2>1. KeepSwing(kept, s) = <<s>>
    BY <1>3 DEF KeepSwing
  <2>2. new = {s}
    BY <1>3 DEF KeptSound, Kept
  <2>3. <<s>> \in Seq(Swing) /\ Len(<<s>>) = 1 /\ <<s>>[1] = s /\ <<s>> # <<>>
    OBVIOUS
  <2>4. Kept(<<s>>, new)
    BY <2>2, <2>3 DEF Kept
  <2>5. After(LastOf(<<s>>), new)
    BY <2>2, <2>3, SoonerOrders DEF After, LastOf
  <2>6. Legs(<<s>>) /\ Ends(<<s>>, new) /\ Begun(<<s>>, new)
    BY <2>3 DEF Legs, Ends, Begun
  <2> QED
    BY <2>1, <2>4, <2>5, <2>6 DEF KeptSound
<1>4. ASSUME kept # <<>> PROVE n \in 1..n /\ LastOf(kept) = kept[n] /\ After(kept[n], seen)
  <2>1. n # 0
    BY <1>1, <1>4
  <2> QED
    BY <1>1, <1>4, <2>1 DEF KeptSound, LastOf
(* A swing that is let go.                                                 *)
<1>5. ASSUME kept # <<>>, IF s.kind = kept[n].kind THEN ~Beyond(s, kept[n]) ELSE ~LegCounts(s, kept[n])
      PROVE  KeptSound(kept, new)
  <2>1. Kept(kept, new)
    BY <1>1, <1>5 DEF KeptSound, Kept
  <2>2. Ends(kept, new)
    <3> SUFFICES ASSUME NEW i \in 2..n, NEW x \in new,
                        x.kind = kept[i].kind, Sooner(kept[i - 1], x), ~Sooner(kept[i], x), LegCounts(x, kept[i - 1])
                 PROVE  ~Beyond(x, kept[i])
      BY DEF Ends
    <3>1. x # s
      BY <1>1, <1>2
    <3> QED
      BY <3>1 DEF KeptSound, Ends
  <2>3. Begun(kept, new)
    BY DEF KeptSound, Begun
  <2>4. After(kept[n], new)
    BY <1>4, <1>5 DEF After
  <2> QED
    BY <1>4, <1>5, <2>1, <2>2, <2>3, <2>4 DEF KeptSound
(* One that is beyond the last one kept takes its place.                   *)
<1>6. ASSUME kept # <<>>, s.kind = kept[n].kind, Beyond(s, kept[n])
      PROVE  KeptSound([kept EXCEPT ![n] = s], new)
  <2>0. PICK k : k = [kept EXCEPT ![n] = s]
    OBVIOUS
  <2>1. n \in 1..n
    BY <1>4, <1>6
  <2>2. k \in Seq(Swing) /\ Len(k) = n /\ k[n] = s /\ k # <<>> /\ \A i \in 1..(n - 1) : k[i] = kept[i]
    BY <1>1, <2>0, <2>1
  <2>8. \A i \in 1..n : i # n => i \in 1..(n - 1) /\ k[i] = kept[i]
    <3> SUFFICES ASSUME NEW i \in 1..n, i # n PROVE i \in 1..(n - 1) /\ k[i] = kept[i]
      OBVIOUS
    <3>1. i \in 1..(n - 1)
      BY <1>1
    <3> QED
      BY <2>2, <3>1
  <2>9. \A i \in 2..n : i \in 1..n /\ i - 1 \in 1..n /\ i - 1 # n
    BY <1>1
  <2>3. Kept(k, new)
    <3>1. ASSUME NEW i \in 1..n PROVE k[i] \in new
      <4>1. CASE i = n
        BY <2>2, <4>1
      <4>2. CASE i # n
        BY <1>1, <2>8, <4>2
      <4> QED
        BY <4>1, <4>2
    <3> QED
      BY <1>1, <2>2, <3>1 DEF Kept
  <2>4. Legs(k)
    <3> SUFFICES ASSUME NEW i \in 2..n PROVE k[i].kind # k[i - 1].kind /\ Sooner(k[i - 1], k[i])
      BY <2>2 DEF Legs
    <3>1. k[i - 1] = kept[i - 1] /\ Sooner(kept[i - 1], s)
      BY <1>2, <2>8, <2>9
    <3>4. kept[i].kind # kept[i - 1].kind /\ Sooner(kept[i - 1], kept[i])
      BY DEF KeptSound, Legs
    <3>2. CASE i = n
      BY <1>6, <2>2, <3>1, <3>2, <3>4
    <3>3. CASE i # n
      BY <2>8, <2>9, <3>1, <3>3, <3>4
    <3> QED
      BY <3>2, <3>3
  <2>5. Ends(k, new)
    <3> SUFFICES ASSUME NEW i \in 2..n, NEW x \in new,
                        x.kind = k[i].kind, Sooner(k[i - 1], x), ~Sooner(k[i], x), LegCounts(x, k[i - 1])
                 PROVE  ~Beyond(x, k[i])
      BY <2>2 DEF Ends
    <3>1. k[i - 1] = kept[i - 1] /\ x \in Swing
      BY <1>1, <2>8, <2>9
    <3>2. CASE i # n
      <4>1. k[i] = kept[i] /\ Sooner(kept[i], s)
        BY <1>2, <2>8, <2>9, <3>2
      <4>2. x \in seen
        BY <4>1
      <4> QED
        BY <3>1, <4>1, <4>2 DEF KeptSound, Ends
    <3>3. CASE i = n /\ x = s
      BY <2>2, <3>3, SoonerOrders
    <3>4. CASE i = n /\ x # s
      <4>1. x \in seen /\ x.kind = kept[n].kind
        BY <1>6, <2>2, <3>4
      <4>2. ~Beyond(x, kept[n])
        <5>1. CASE Sooner(kept[n], x)
          BY <1>4, <1>6, <4>1, <5>1 DEF After
        <5>2. CASE ~Sooner(kept[n], x)
          BY <3>1, <3>4, <4>1, <5>2 DEF KeptSound, Ends
        <5> QED
          BY <5>1, <5>2
      <4> QED
        <5>1. kept[n] \in Swing /\ k[i] = s
          BY <1>1, <2>1, <2>2, <3>4
        <5> QED
          BY <1>6, <3>1, <4>1, <4>2, <5>1, SoonerOrders
    <3> QED
      BY <3>2, <3>3, <3>4
  <2>6. Begun(k, new)
    <3> SUFFICES ASSUME NEW i \in 2..n
                 PROVE  \E y \in new : /\ y.kind = k[i].kind /\ Sooner(k[i - 1], y) /\ ~Sooner(k[i], y)
                                       /\ LegCounts(y, k[i - 1]) /\ (y = k[i] \/ Beyond(k[i], y))
      BY <2>2 DEF Begun
    <3>1. k[i - 1] = kept[i - 1]
      BY <2>8, <2>9
    <3>2. PICK y \in seen : /\ y.kind = kept[i].kind /\ Sooner(kept[i - 1], y) /\ ~Sooner(kept[i], y)
                            /\ LegCounts(y, kept[i - 1]) /\ (y = kept[i] \/ Beyond(kept[i], y))
      BY DEF KeptSound, Begun
    <3>3. y \in Swing /\ y \in new
      BY <1>1
    <3>4. CASE i # n
      <4>1. k[i] = kept[i]
        BY <2>8, <2>9, <3>4
      <4> QED
        BY <3>1, <3>2, <3>3, <4>1
    <3>5. CASE i = n
      <4>1. ~Sooner(s, y)
        BY <3>2, <3>3, SoonerOrders
      <4>2. Beyond(s, y)
        <5>1. kept[n] \in Swing /\ y.kind = s.kind
          BY <1>1, <1>6, <2>1, <3>2, <3>5
        <5> QED
          BY <1>6, <3>2, <3>3, <3>5, <5>1, SoonerOrders
      <4> QED
        BY <1>6, <2>2, <3>1, <3>2, <3>3, <3>5, <4>1, <4>2
    <3> QED
      BY <3>4, <3>5
  <2>7. After(s, new)
    BY <1>1, SoonerOrders DEF After
  <2> QED
    BY <2>0, <2>2, <2>3, <2>4, <2>5, <2>6, <2>7 DEF KeptSound, LastOf
(* One of the other kind, far enough away, ends a leg of its own.          *)
<1>7. ASSUME kept # <<>>, s.kind # kept[n].kind, LegCounts(s, kept[n])
      PROVE  KeptSound(Append(kept, s), new)
  <2>0. PICK k : k = Append(kept, s)
    OBVIOUS
  <2>1. n \in 1..n
    BY <1>4, <1>7
  <2>2. k \in Seq(Swing) /\ Len(k) = n + 1 /\ k[n + 1] = s /\ k # <<>> /\ \A i \in 1..n : k[i] = kept[i]
    BY <1>1, <2>0, <2>1
  <2>3. Kept(k, new)
    BY <1>1, <2>2 DEF Kept
  <2>4. Legs(k)
    <3> SUFFICES ASSUME NEW i \in 2..(n + 1) PROVE k[i].kind # k[i - 1].kind /\ Sooner(k[i - 1], k[i])
      BY <2>2 DEF Legs
    <3>1. CASE i = n + 1
      BY <1>1, <1>2, <1>7, <2>1, <2>2, <3>1
    <3>2. CASE i # n + 1
      <4>1. i \in 2..n /\ k[i] = kept[i] /\ k[i - 1] = kept[i - 1]
        BY <1>1, <2>2, <3>2
      <4> QED
        BY <4>1 DEF KeptSound, Legs
    <3> QED
      BY <3>1, <3>2
  <2>5. Ends(k, new)
    <3> SUFFICES ASSUME NEW i \in 2..(n + 1), NEW x \in new,
                        x.kind = k[i].kind, Sooner(k[i - 1], x), ~Sooner(k[i], x), LegCounts(x, k[i - 1])
                 PROVE  ~Beyond(x, k[i])
      BY <2>2 DEF Ends
    <3>1. CASE i # n + 1
      <4>1. i \in 2..n /\ k[i] = kept[i] /\ k[i - 1] = kept[i - 1]
        BY <1>1, <2>2, <3>1
      <4>2. x # s
        BY <1>1, <1>2, <4>1
      <4> QED
        BY <4>1, <4>2 DEF KeptSound, Ends
    <3>2. CASE i = n + 1 /\ x = s
      BY <2>2, <3>2, SoonerOrders
    <3>3. CASE i = n + 1 /\ x # s
      <4>1. x \in seen /\ k[i] = s /\ k[i - 1] = kept[n]
        BY <1>1, <2>1, <2>2, <3>3
      <4> QED
        BY <1>4, <1>7, <4>1 DEF After
    <3> QED
      BY <3>1, <3>2, <3>3
  <2>6. Begun(k, new)
    <3> SUFFICES ASSUME NEW i \in 2..(n + 1)
                 PROVE  \E y \in new : /\ y.kind = k[i].kind /\ Sooner(k[i - 1], y) /\ ~Sooner(k[i], y)
                                       /\ LegCounts(y, k[i - 1]) /\ (y = k[i] \/ Beyond(k[i], y))
      BY <2>2 DEF Begun
    <3>1. CASE i # n + 1
      <4>1. i \in 2..n /\ k[i] = kept[i] /\ k[i - 1] = kept[i - 1]
        BY <1>1, <2>2, <3>1
      <4> QED
        BY <4>1 DEF KeptSound, Begun
    <3>2. CASE i = n + 1
      <4>1. k[i] = s /\ k[i - 1] = kept[n] /\ s \in new
        BY <1>1, <2>1, <2>2, <3>2
      <4> QED
        BY <1>2, <1>7, <2>1, <4>1, SoonerOrders
    <3> QED
      BY <3>1, <3>2
  <2>7. After(s, new)
    BY <1>1, SoonerOrders DEF After
  <2> QED
    BY <2>0, <2>2, <2>3, <2>4, <2>5, <2>6, <2>7 DEF KeptSound, LastOf
<1> QED
  BY <1>3, <1>4, <1>5, <1>6, <1>7 DEF KeepSwing

SeenTo(i) == {x \in AllSwings : x.at <= i}
HighsOf(i) == IF SwingHigh(i) THEN {HighAt(i)} ELSE {}
LowsOf(i) == IF SwingLow(i) THEN {LowAt(i)} ELSE {}

LEMMA SwingsAreSwings ==
  ASSUME MarketTypeOK
  PROVE  /\ Len(tape) \in Nat /\ AllSwings \subseteq Swing
         /\ SeenTo(0) = {} /\ SeenTo(Len(tape)) = AllSwings
<1>1. Len(tape) \in Nat
  BY DEF MarketTypeOK
<1>2. \A x \in AllSwings : \E i \in 1..Len(tape) : x \in {HighAt(i), LowAt(i)}
  BY DEF AllSwings
<1>3. \A x \in AllSwings : x \in Swing /\ x.at \in 1..Len(tape)
  <2> TAKE x \in AllSwings
  <2>1. PICK i \in 1..Len(tape) : x \in {HighAt(i), LowAt(i)}
    BY <1>2
  <2>2. x \in Swing
    BY <2>1, SwingTyped
  <2>3. x.at = i
    BY <2>1 DEF HighAt, LowAt
  <2> QED
    BY <2>2, <2>3
<1> QED
  BY <1>1, <1>3 DEF SeenTo

LEMMA SeenGrows ==
  ASSUME MarketTypeOK, NEW i \in 1..Len(tape)
  PROVE  SeenTo(i) = (SeenTo(i - 1) \cup HighsOf(i)) \cup LowsOf(i)
<1>1. Len(tape) \in Nat
  BY SwingsAreSwings
<1>2. \A j \in 1..Len(tape) : HighAt(j).at = j /\ LowAt(j).at = j
  BY DEF HighAt, LowAt
<1>3. \A x \in SeenTo(i) : x \in (SeenTo(i - 1) \cup HighsOf(i)) \cup LowsOf(i)
  <2> TAKE x \in SeenTo(i)
  <2>1. x \in AllSwings /\ x.at <= i
    BY DEF SeenTo
  <2>2. PICK j \in 1..Len(tape) : (x = HighAt(j) /\ SwingHigh(j)) \/ (x = LowAt(j) /\ SwingLow(j))
    BY <2>1 DEF AllSwings
  <2>3. x.at = j
    BY <1>2, <2>2
  <2>4. CASE j = i
    BY <2>2, <2>4 DEF HighsOf, LowsOf
  <2>5. CASE j # i
    BY <1>1, <2>1, <2>3, <2>5 DEF SeenTo
  <2> QED
    BY <2>4, <2>5
<1>4. HighsOf(i) \subseteq SeenTo(i) /\ LowsOf(i) \subseteq SeenTo(i)
  BY <1>1, <1>2 DEF HighsOf, LowsOf, SeenTo, AllSwings
<1>5. SeenTo(i - 1) \subseteq SeenTo(i)
  <2>1. \A x \in AllSwings : x.at \in Nat
    BY SwingsAreSwings DEF Swing
  <2> QED
    BY <1>1, <2>1 DEF SeenTo
<1> QED
  BY <1>3, <1>4, <1>5

LEMMA KeepAtSound ==
  ASSUME MarketTypeOK, NEW i \in 1..Len(tape), NEW kept, KeptSound(kept, SeenTo(i - 1))
  PROVE  KeptSound(KeepAt(kept, i), SeenTo(i))
<1>1. Len(tape) \in Nat /\ AllSwings \subseteq Swing /\ HighAt(i) \in Swing /\ LowAt(i) \in Swing
  BY SwingsAreSwings, SwingTyped
<1>2. \A x \in SeenTo(i - 1) : Sooner(x, HighAt(i)) /\ Sooner(x, LowAt(i))
  BY <1>1 DEF SeenTo, Sooner, HighAt, LowAt, Swing
<1>3. Sooner(HighAt(i), LowAt(i))
  BY DEF Sooner, HighAt, LowAt
<1> PICK first : first = IF SwingHigh(i) THEN KeepSwing(kept, HighAt(i)) ELSE kept
  OBVIOUS
<1>4. KeptSound(first, SeenTo(i - 1) \cup HighsOf(i))
  <2>1. CASE SwingHigh(i)
    <3>1. KeptSound(KeepSwing(kept, HighAt(i)), SeenTo(i - 1) \cup {HighAt(i)})
      BY <1>1, <1>2, KeepSound
    <3> QED
      BY <2>1, <3>1 DEF HighsOf
  <2>2. CASE ~SwingHigh(i)
    <3>1. SeenTo(i - 1) \cup HighsOf(i) = SeenTo(i - 1)
      BY <2>2 DEF HighsOf
    <3> QED
      BY <2>2, <3>1
  <2> QED
    BY <2>1, <2>2
<1>5. \A x \in SeenTo(i - 1) \cup HighsOf(i) : Sooner(x, LowAt(i))
  BY <1>2, <1>3 DEF HighsOf
<1> PICK seen : seen = SeenTo(i - 1) \cup HighsOf(i)
  OBVIOUS
<1>6. CASE SwingLow(i)
  <2>1. KeptSound(KeepSwing(first, LowAt(i)), seen \cup {LowAt(i)})
    BY <1>1, <1>4, <1>5, KeepSound
  <2>2. SeenTo(i) = seen \cup {LowAt(i)}
    BY <1>6, SeenGrows DEF LowsOf
  <2>3. KeepAt(kept, i) = KeepSwing(first, LowAt(i))
    BY <1>6 DEF KeepAt
  <2> QED
    BY <2>1, <2>2, <2>3
<1>7. CASE ~SwingLow(i)
  <2>1. SeenTo(i) = seen
    BY <1>7, SeenGrows DEF LowsOf
  <2>2. KeepAt(kept, i) = first
    BY <1>7 DEF KeepAt
  <2> QED
    BY <1>4, <2>1, <2>2
<1> QED
  BY <1>6, <1>7

LEMMA KeepAtTyped ==
  ASSUME MarketTypeOK, NEW i \in 1..Len(tape), NEW kept \in Seq(Swing)
  PROVE  KeepAt(kept, i) \in Seq(Swing)
<1>1. HighAt(i) \in Swing /\ LowAt(i) \in Swing
  BY SwingTyped
<1> PICK first : first = IF SwingHigh(i) THEN KeepSwing(kept, HighAt(i)) ELSE kept
  OBVIOUS
<1>2. first \in Seq(Swing)
  BY <1>1, KeepTyped
<1>3. KeepSwing(first, LowAt(i)) \in Seq(Swing)
  BY <1>1, <1>2, KeepTyped
<1> QED
  BY <1>2, <1>3 DEF KeepAt

LEMMA KeptSolves ==
  ASSUME MarketTypeOK
  PROVE  KeptTo = [i \in 0..Len(tape) |-> IF i = 0 THEN <<>> ELSE KeepAt(KeptTo[i - 1], i)]
<1> PICK N : N = Len(tape)
  OBVIOUS
<1> PICK A : A = Seq(Swing)
  OBVIOUS
<1> PICK F : F = [p \in A \X (1..N) |-> KeepAt(p[1], p[2])]
  OBVIOUS
<1>1. N \in Nat /\ <<>> \in A
  BY SwingsAreSwings
<1>2. F \in [A \X (1..N) -> A]
  BY KeepAtTyped
<1>3. PICK g \in [0..N -> A] : WalksTo(g, <<>>, F, N)
  BY <1>1, <1>2, WalkExists
<1>4. \A i \in 0..N : g[i] = IF i = 0 THEN <<>> ELSE KeepAt(g[i - 1], i)
  <2> TAKE i \in 0..N
  <2>1. g[i] = IF i = 0 THEN <<>> ELSE F[<<g[i - 1], i>>]
    BY <1>3 DEF WalksTo
  <2>2. i # 0 => i \in 1..N /\ g[i - 1] \in A
    BY <1>1
  <2>3. \A a \in A, j \in 1..N : F[<<a, j>>] = KeepAt(a, j)
    OBVIOUS
  <2> QED
    BY <2>1, <2>2, <2>3
<1>5. g = [i \in 0..N |-> IF i = 0 THEN <<>> ELSE KeepAt(g[i - 1], i)]
  BY <1>4
<1> QED
  BY <1>5 DEF KeptTo

LEMMA KeptIsSound == ASSUME MarketTypeOK PROVE KeptSound(Significant, AllSwings)
<1> PICK N : N = Len(tape)
  OBVIOUS
<1>1. N \in Nat
  BY SwingsAreSwings
<1>2. \A i \in 0..N : KeptTo[i] = IF i = 0 THEN <<>> ELSE KeepAt(KeptTo[i - 1], i)
  BY KeptSolves
<1>0. PICK S : S = {i \in 0..N : KeptSound(KeptTo[i], SeenTo(i))}
  OBVIOUS
<1>3. KeptSound(<<>>, {})
  BY DEF KeptSound, Kept, Legs, Ends, Begun
<1>4. 0 \in S
  <2>1. 0 \in 0..N /\ SeenTo(0) = {}
    BY <1>1, SwingsAreSwings
  <2>2. KeptTo[0] = <<>>
    BY <1>2, <2>1
  <2>3. KeptSound(KeptTo[0], SeenTo(0))
    BY <1>3, <2>1, <2>2
  <2> QED
    BY <1>0, <2>1, <2>3
<1>5. ASSUME NEW i \in 1..N, i - 1 \in S PROVE i \in S
  <2>1. KeptSound(KeepAt(KeptTo[i - 1], i), SeenTo(i))
    BY <1>0, <1>5, KeepAtSound
  <2>2. i \in 0..N /\ i # 0
    BY <1>1
  <2> QED
    BY <1>0, <1>2, <2>1, <2>2
<1>6. \A i \in 0..N : i \in S
  BY <1>1, <1>4, <1>5, CountUp
<1>7. N \in S
  BY <1>1, <1>6
<1> QED
  BY <1>0, <1>7, SwingsAreSwings DEF Significant

LEMMA LegsSound == ASSUME MarketTypeOK PROVE LegsAreLegs
<1> PICK s : s = Significant
  OBVIOUS
<1>1. KeptSound(s, AllSwings)
  BY KeptIsSound
<1>2. s \in Seq(Swing) /\ AllSwings \subseteq Swing /\ Len(s) \in Nat
  BY <1>1 DEF KeptSound, Kept
<1>3. ASSUME NEW i \in 2..Len(s)
      PROVE  /\ s[i] \in AllSwings /\ s[i].kind # s[i - 1].kind /\ Sooner(s[i - 1], s[i])
             /\ \A x \in LegOf(s, i) : LegCounts(x, s[i - 1]) => ~Beyond(x, s[i])
             /\ (\A x \in LegOf(s, i) : Beyond(x, s[i - 1])) =>
                  LegCounts(s[i], s[i - 1]) /\ \A x \in LegOf(s, i) : ~Beyond(x, s[i])
  <2>1. i \in 1..Len(s) /\ i - 1 \in 1..Len(s) /\ s[i] \in AllSwings /\ s[i - 1] \in AllSwings
    BY <1>1, <1>2 DEF KeptSound, Kept
  <2>2. s[i].kind # s[i - 1].kind /\ Sooner(s[i - 1], s[i])
    BY <1>1 DEF KeptSound, Legs
  <2>3. \A x \in LegOf(s, i) : LegCounts(x, s[i - 1]) => ~Beyond(x, s[i])
    BY <1>1 DEF KeptSound, Ends, LegOf
  <2>4. PICK y \in AllSwings : /\ y \in LegOf(s, i) /\ LegCounts(y, s[i - 1])
                               /\ y = s[i] \/ Beyond(s[i], y)
    BY <1>1 DEF KeptSound, Begun, LegOf
  <2> PICK b, e : b = s[i - 1] /\ e = s[i]
    OBVIOUS
  <2>5. b \in Swing /\ e \in Swing /\ y.kind = e.kind
    BY <1>2, <2>1, <2>4 DEF LegOf
  <2>6. ASSUME \A x \in LegOf(s, i) : Beyond(x, b) PROVE LegCounts(e, b)
    <3>1. Beyond(y, b) /\ LegCounts(y, b)
      BY <2>4, <2>6
    <3>2. y \in Swing /\ (y = e \/ Beyond(e, y))
      BY <1>2, <2>4
    <3> QED
      BY <2>5, <3>1, <3>2 DEF Beyond, LegCounts, Dist, Swing
  <2>7. ASSUME \A x \in LegOf(s, i) : Beyond(x, b), NEW x \in LegOf(s, i) PROVE ~Beyond(x, e)
    <3>1. Beyond(x, b) /\ x \in Swing /\ x.kind = e.kind
      BY <1>2, <2>7 DEF LegOf
    <3>2. Beyond(e, b)
      <4>1. e \in LegOf(s, i)
        BY <2>1, <2>2, <2>5, SoonerOrders DEF LegOf
      <4> QED
        BY <2>7, <4>1
    <3>3. LegCounts(e, b)
      BY <2>6, <2>7
    <3>4. Beyond(x, e) => LegCounts(x, b)
      BY <2>5, <3>1, <3>2, <3>3 DEF Beyond, LegCounts, Dist, Swing
    <3> QED
      BY <2>3, <3>4
  <2> QED
    BY <2>1, <2>2, <2>3, <2>6, <2>7
<1>4. ASSUME s # <<>>, NEW x \in AllSwings, x.kind = LastOf(s).kind, Sooner(LastOf(s), x)
      PROVE  ~Beyond(x, LastOf(s))
  BY <1>1, <1>4 DEF KeptSound, After
<1> QED
  BY <1>3, <1>4 DEF LegsAreLegs

LEMMA ChochSound == ChochAgainstTrend
<1> PICK tr : tr = Trend(LastN(Significant, 6))
  OBVIOUS
<1> SUFFICES ASSUME NEW e \in Chochs(Significant) PROVE tr = IF e.up THEN "bearish" ELSE "bullish"
  BY DEF ChochAgainstTrend
<1>1. e.up \in BOOLEAN
  BY DEF Chochs
<1>2. CASE tr = "bullish" \/ tr = "bearish"
  BY <1>1, <1>2 DEF Chochs
<1>3. CASE tr \notin {"bullish", "bearish"}
  BY <1>3 DEF Chochs
<1> QED
  BY <1>2, <1>3

(* A gap, tracked up to a candle: it keeps its place, it is filled by no   *)
(* more than all of it, and no candle up to there closed through it while  *)
(* it stayed open.                                                         *)
Gap == [at : Nat, bull : BOOLEAN, status : {"ACTIVE", "MITIGATED"}, filled : Int, top : Int, bottom : Int]
Unbroken(g, j) == Touches(g, j) => IF g.bull THEN tape[j].c >= g.bottom ELSE tape[j].c <= g.top
GapSound(g, i) ==
  /\ g \in Gap /\ g.bottom < g.top /\ 0 <= g.filled /\ g.filled <= g.top - g.bottom
  /\ g.status = "ACTIVE" => \A j \in (g.at + 3)..i : Unbroken(g, j)
  /\ g.status = "MITIGATED" => g.filled = g.top - g.bottom

LEMMA FillTyped == ASSUME MarketTypeOK, NEW g \in Gap, NEW i \in 1..Len(tape) PROVE FillGap(g, i) \in Gap
<1>1. tape[i].c \in Int
  BY CandleTyped DEF Candle
<1>2. Fill(g, tape[i].c) \in Int /\ g.top - g.bottom \in Int
  BY <1>1 DEF Fill, Gap
<1> QED
  BY <1>2 DEF FillGap, Gap

LEMMA FillSound ==
  ASSUME MarketTypeOK, NEW i \in 1..Len(tape), NEW g, GapSound(g, i - 1)
  PROVE  GapSound(FillGap(g, i), i)
<1>1. /\ tape[i].l \in Int /\ tape[i].h \in Int /\ tape[i].c \in Int /\ i \in Nat
      /\ g \in Gap /\ g.top \in Int /\ g.bottom \in Int /\ g.filled \in Int /\ g.at \in Nat
  BY CandleTyped DEF Candle, GapSound, Gap
<1> PICK t : t = FillGap(g, i)
  OBVIOUS
<1>2. t \in Gap
  BY <1>1, FillTyped
<1>3. t.at = g.at /\ t.bull = g.bull /\ t.top = g.top /\ t.bottom = g.bottom
  BY <1>1 DEF FillGap, Gap
<1>4. /\ t.status = "MITIGATED" => t.filled = t.top - t.bottom
      /\ 0 <= t.filled /\ t.filled <= t.top - t.bottom
  <2>1. (IF g.bull THEN tape[i].c <= g.top ELSE tape[i].c >= g.bottom) =>
          0 <= Fill(g, tape[i].c) /\ Fill(g, tape[i].c) <= g.top - g.bottom
    BY <1>1 DEF GapSound, Fill
  <2> QED
    BY <1>1, <2>1 DEF FillGap, Gap, GapSound
<1>5. ASSUME t.status = "ACTIVE" PROVE \A j \in (t.at + 3)..i : Unbroken(t, j)
  <2>1. g.status = "ACTIVE"
    BY <1>1, <1>5 DEF FillGap, Gap
  <2>2. \A j \in (t.at + 3)..(i - 1) : Unbroken(t, j)
    BY <1>3, <2>1 DEF GapSound, Unbroken, Touches
  <2>3. i >= t.at + 3 => Unbroken(t, i)
    <3>1. ASSUME i > g.at + 2, tape[i].l <= g.top, tape[i].h >= g.bottom
          PROVE  IF g.bull THEN tape[i].c >= g.bottom ELSE tape[i].c <= g.top
      BY <1>1, <1>5, <2>1, <3>1 DEF FillGap, Gap
    <3> QED
      BY <1>1, <1>3, <3>1 DEF Unbroken, Touches
  <2>4. ASSUME NEW j \in (t.at + 3)..i PROVE j = i \/ j \in (t.at + 3)..(i - 1)
    BY <1>1, <1>3
  <2> QED
    BY <1>1, <1>3, <2>2, <2>3, <2>4
<1> QED
  BY <1>2, <1>3, <1>4, <1>5 DEF GapSound

LEMMA TrackedSound ==
  ASSUME MarketTypeOK, NEW g, GapSound(g, 0)
  PROVE  GapSound(Tracked(g), Len(tape))
<1> PICK N : N = Len(tape)
  OBVIOUS
<1>1. N \in Nat /\ g \in Gap
  BY SwingsAreSwings DEF GapSound
<1>2. PICK F : F = [p \in Gap \X (1..N) |-> FillGap(p[1], p[2])]
  OBVIOUS
<1>3. F \in [Gap \X (1..N) -> Gap]
  BY <1>2, FillTyped
<1>4. PICK f \in [0..N -> Gap] : WalksTo(f, g, F, N)
  BY <1>1, <1>3, WalkExists
<1>5. f = [i \in 0..N |-> IF i = 0 THEN g ELSE FillGap(f[i - 1], i)]
  <2>1. \A i \in 0..N : f[i] = IF i = 0 THEN g ELSE FillGap(f[i - 1], i)
    <3> TAKE i \in 0..N
    <3>1. f[i] = IF i = 0 THEN g ELSE F[<<f[i - 1], i>>]
      BY <1>4 DEF WalksTo
    <3>2. i # 0 => i \in 1..N /\ f[i - 1] \in Gap
      BY <1>1
    <3>3. \A a \in Gap, j \in 1..N : F[<<a, j>>] = FillGap(a, j)
      BY <1>2
    <3> QED
      BY <3>1, <3>2, <3>3
  <2> QED
    BY <2>1
<1>6. PICK h : /\ h = [i \in 0..N |-> IF i = 0 THEN g ELSE FillGap(h[i - 1], i)]
               /\ Tracked(g) = h[N]
  <2>1. PICK h : h = CHOOSE x : x = [i \in 0..N |-> IF i = 0 THEN g ELSE FillGap(x[i - 1], i)]
    OBVIOUS
  <2>2. h = [i \in 0..N |-> IF i = 0 THEN g ELSE FillGap(h[i - 1], i)]
    BY <1>5, <2>1
  <2>3. Tracked(g) = h[N]
    BY <2>1 DEF Tracked
  <2> QED
    BY <2>2, <2>3
<1>7. \A i \in 0..N : h[i] = IF i = 0 THEN g ELSE FillGap(h[i - 1], i)
  BY <1>6
<1>8. PICK S : S = {i \in 0..N : GapSound(h[i], i)}
  OBVIOUS
<1>9. 0 \in S
  <2>1. 0 \in 0..N
    BY <1>1
  <2>2. h[0] = g
    BY <1>7, <2>1
  <2> QED
    BY <1>8, <2>1, <2>2
<1>10. ASSUME NEW i \in 1..N, i - 1 \in S PROVE i \in S
  <2>1. GapSound(FillGap(h[i - 1], i), i)
    BY <1>8, <1>10, FillSound
  <2>2. i \in 0..N /\ i # 0
    BY <1>1
  <2> QED
    BY <1>7, <1>8, <2>1, <2>2
<1>11. \A i \in 0..N : i \in S
  BY <1>1, <1>9, <1>10, CountUp
<1>12. N \in S
  BY <1>1, <1>11
<1> QED
  BY <1>6, <1>8, <1>12

LEMMA GapStarts ==
  ASSUME MarketTypeOK, NEW g \in Gaps
  PROVE  GapSound(g, 0)
<1>1. PICK i \in 1..(Len(tape) - 2), bull \in BOOLEAN : g = GapAt(i, bull) /\ Jumps(i, bull)
  BY DEF Gaps, GapsOf
<1>2. Len(tape) \in Nat /\ i \in 1..Len(tape) /\ i + 2 \in 1..Len(tape)
  BY SwingsAreSwings
<1>3. tape[i] \in Candle /\ tape[i + 2] \in Candle
  BY <1>2, CandleTyped
<1>4. g \in Gap
  BY <1>1, <1>2, <1>3 DEF Gap, GapAt, Candle
<1>5. g.bottom < g.top /\ g.filled = 0 /\ g.status = "ACTIVE"
  BY <1>1, <1>3 DEF GapAt, Jumps, Candle
<1>6. \A j \in (g.at + 3)..0 : FALSE
  BY <1>4 DEF Gap
<1> QED
  BY <1>4, <1>5, <1>6 DEF GapSound, Gap

LEMMA GapsHold == ASSUME MarketTypeOK PROVE OpenGapHolds
<1> SUFFICES ASSUME NEW o \in Gaps, NEW g, g = Tracked(o)
             PROVE  /\ g.bottom < g.top /\ 0 <= g.filled /\ g.filled <= g.top - g.bottom
                    /\ g.status = "ACTIVE" =>
                         \A i \in (g.at + 3)..Len(tape) : Touches(g, i) =>
                           IF g.bull THEN tape[i].c >= g.bottom ELSE tape[i].c <= g.top
                    /\ g.status = "MITIGATED" => g.filled = g.top - g.bottom
  BY DEF OpenGapHolds, TrackedGaps
<1>1. GapSound(g, Len(tape))
  BY GapStarts, TrackedSound
<1> QED
  BY <1>1 DEF GapSound, Unbroken

(* A sum lies between as many of the least as it has members and as many   *)
(* of the greatest.                                                        *)
LEMMA SumBetween ==
  ASSUME NEW S, IsFiniteSet(S), NEW f \in [S -> Int], NEW s \in SUBSET S, NEW lo \in Int, NEW hi \in Int,
         \A x \in s : lo <= f[x] /\ f[x] <= hi
  PROVE  lo * Cardinality(s) <= SumFunctionOnSet(f, s) /\ SumFunctionOnSet(f, s) <= hi * Cardinality(s)
<1> PICK C : C = {n \in Nat : \E r \in SUBSET s :
                    /\ Cardinality(r) = n
                    /\ ~(lo * n <= SumFunctionOnSet(f, r) /\ SumFunctionOnSet(f, r) <= hi * n)}
  OBVIOUS
<1>1. IsFiniteSet(s) /\ s \in SUBSET s
  BY FS_Subset
<1>2. Cardinality(s) \in Nat
  BY <1>1, FS_CardinalityType
<1> SUFFICES ASSUME C # {} PROVE FALSE
  BY <1>1, <1>2
<1>3. PICK n \in C : \A m \in C : n <= m
  <2>1. C \in SUBSET Nat
    OBVIOUS
  <2> QED
    BY <2>1, HasLeast
<1>4. PICK r \in SUBSET s : /\ Cardinality(r) = n
                            /\ ~(lo * n <= SumFunctionOnSet(f, r) /\ SumFunctionOnSet(f, r) <= hi * n)
  BY <1>3
<1>5. r \in SUBSET S /\ n \in Nat
  BY <1>3
<1>6. r # {}
  <2> SUFFICES ASSUME r = {} PROVE FALSE
    OBVIOUS
  <2>1. SumFunctionOnSet(f, r) = 0
    BY SumNone
  <2>2. n = 0
    BY <1>4, FS_EmptySet
  <2> QED
    BY <1>4, <2>1, <2>2
<1>7. PICK x \in r : TRUE
  BY <1>6
<1>8. SumFunctionOnSet(f, r) = f[x] + SumFunctionOnSet(f, r \ {x})
  BY <1>5, SumTakes
<1>9. r \ {x} \in SUBSET s /\ n - 1 \in Nat /\ Cardinality(r \ {x}) = n - 1
  <2>1. /\ Cardinality(r \ {x}) \in Nat /\ Cardinality(r \ {x}) = Cardinality(r) - 1
    BY <1>5, <1>7, OneTaken
  <2> QED
    BY <1>4, <2>1
<1>10. n - 1 \notin C
  BY <1>3, <1>5, <1>9
<1> PICK rest, k : rest = SumFunctionOnSet(f, r \ {x}) /\ k = f[x]
  OBVIOUS
<1>11. lo * (n - 1) <= rest /\ rest <= hi * (n - 1)
  BY <1>9, <1>10
<1>12. rest \in Int
  <2>1. r \ {x} \in SUBSET S
    BY <1>5
  <2> QED
    BY <2>1, SumIsInt
<1>13. k \in Int /\ lo <= k /\ k <= hi
  BY <1>5, <1>7
<1>14. lo * n <= k + rest /\ k + rest <= hi * n
  BY <1>5, <1>11, <1>12, <1>13
<1> QED
  BY <1>4, <1>8, <1>14

(* So a function on a finite set that is not empty has a greatest value,   *)
(* as none is more than their sum.                                         *)
LEMMA NoneAboveSum ==
  ASSUME NEW S, IsFiniteSet(S), NEW f \in [S -> Nat], NEW x \in S
  PROVE  f[x] <= SumFunctionOnSet(f, S) /\ SumFunctionOnSet(f, S) \in Nat
<1>1. f \in [S -> Int] /\ S \in SUBSET S /\ S \ {x} \in SUBSET S
  OBVIOUS
<1>2. SumFunctionOnSet(f, S) = f[x] + SumFunctionOnSet(f, S \ {x})
  BY <1>1, SumTakes
<1>3. ~(SumFunctionOnSet(f, S \ {x}) < 0)
  BY <1>1, SumBelow
<1>4. SumFunctionOnSet(f, S \ {x}) \in Int
  BY <1>1, SumIsInt
<1> QED
  BY <1>2, <1>3, <1>4

LEMMA HasGreatest ==
  ASSUME NEW S, IsFiniteSet(S), S # {}, NEW f \in [S -> Nat]
  PROVE  \E x \in S : \A y \in S : f[y] <= f[x]
<1> PICK L : L = SumFunctionOnSet(f, S)
  OBVIOUS
<1>1. L \in Nat /\ \A x \in S : f[x] <= L
  BY NoneAboveSum
<1> PICK V : V = {L - f[x] : x \in S}
  OBVIOUS
<1>2. V \in SUBSET Nat /\ V # {}
  BY <1>1
<1>3. PICK v \in V : \A w \in V : v <= w
  BY <1>2, HasLeast
<1>4. PICK x \in S : v = L - f[x]
  OBVIOUS
<1>5. \A y \in S : L - f[x] <= L - f[y]
  BY <1>3, <1>4
<1>6. \A y \in S : f[y] <= f[x]
  BY <1>1, <1>5
<1> QED
  BY <1>6

(* So one of its members is no more than the average, and one no less.     *)
LEMMA AroundAverage ==
  ASSUME NEW S, IsFiniteSet(S), S # {}, NEW f \in [S -> Nat],
         NEW n, n = Cardinality(S), NEW L, L = SumFunctionOnSet(f, S)
  PROVE  /\ n \in Nat /\ n # 0 /\ L \in Nat
         /\ \E x \in S : f[x] * n <= L
         /\ \E x \in S : L <= f[x] * n
<1>1. n \in Nat /\ n # 0 /\ S \in SUBSET S
  BY FS_CardinalityType, FS_EmptySet
<1>2. f \in [S -> Int]
  OBVIOUS
<1>3. L \in Int
  BY <1>1, <1>2, SumIsInt
<1>4. PICK low \in S : \A x \in S : f[low] <= f[x]
  <2> PICK V : V = {f[x] : x \in S}
    OBVIOUS
  <2>1. V \in SUBSET Nat /\ V # {}
    OBVIOUS
  <2>2. PICK v \in V : \A w \in V : v <= w
    BY <2>1, HasLeast
  <2> QED
    BY <2>2
<1>6. L \in Nat
  BY <1>4, NoneAboveSum
<1>7. PICK top \in S : \A x \in S : f[x] <= f[top]
  BY HasGreatest
<1>8. f[low] * n <= L /\ L <= f[top] * n
  <2>1. f[low] \in Int /\ f[top] \in Int
    OBVIOUS
  <2> QED
    BY <1>1, <1>2, <1>4, <1>7, <2>1, SumBetween
<1> QED
  BY <1>1, <1>6, <1>8

LEMMA Scales ==
  ASSUME NEW a \in Int, NEW b \in Int, NEW k \in Nat, a <= b
  PROVE  a * k <= b * k
OBVIOUS

LEMMA SumOfPrices == ASSUME MarketTypeOK PROVE PriceSum \in Nat
<1> PICK N : N = Len(tape)
  OBVIOUS
<1> PICK S : S = 1..N
  OBVIOUS
<1> PICK f : f = [i \in S |-> tape[i].h + tape[i].l]
  OBVIOUS
<1>1. N \in Nat /\ IsFiniteSet(S) /\ S \in SUBSET S
  BY SwingsAreSwings, FS_Interval
<1>2. f \in [S -> Int] /\ \A i \in S : ~(f[i] < 0)
  BY CandleTyped DEF Candle
<1>3. SumFunctionOnSet(f, S) \in Int
  BY <1>1, <1>2, SumIsInt
<1>4. ~(SumFunctionOnSet(f, S) < 0)
  BY <1>1, <1>2, SumBelow
<1> QED
  BY <1>3, <1>4 DEF PriceSum

LEMMA PoolTyped ==
  ASSUME MarketTypeOK, NEW high \in BOOLEAN, NEW c \in Pools(high)
  PROVE  /\ c \subseteq Peaks(high) /\ IsFiniteSet(c) /\ c # {}
         /\ \E i \in Peaks(high) : c = {j \in Peaks(high) : Clustered(i, j, high)}
         /\ [i \in c |-> Price(i, high)] \in [c -> Nat]
<1>1. PICK i \in Peaks(high) : c = {j \in Peaks(high) : Clustered(i, j, high)} /\ Cardinality(c) >= 2
  BY DEF Pools
<1>2. c \subseteq Peaks(high) /\ Peaks(high) \subseteq 1..Len(tape)
  BY <1>1 DEF Peaks
<1>3. IsFiniteSet(c)
  <2>1. IsFiniteSet(1..Len(tape))
    BY SwingsAreSwings, FS_Interval
  <2>2. c \subseteq 1..Len(tape)
    BY <1>2
  <2> QED
    BY <2>1, <2>2, FS_Subset
<1>4. c # {}
  <2> SUFFICES ASSUME c = {} PROVE FALSE
    OBVIOUS
  <2>1. Cardinality(c) = 0
    BY FS_EmptySet
  <2> QED
    BY <1>1, <2>1
<1>5. \A j \in 1..Len(tape) : Price(j, high) \in Nat
  BY CandleTyped DEF Candle, Price
<1> QED
  BY <1>1, <1>2, <1>3, <1>4, <1>5

(* The prices of a pool leave no step wider than the tolerance, so the one *)
(* just under the average is close enough to be a touch.                   *)
LEMMA PoolTouched ==
  ASSUME MarketTypeOK, NEW high \in BOOLEAN, NEW c \in Pools(high)
  PROVE  TouchesOf(c, high) # {}
<1> PICK N, all, n, L : N = Len(tape) /\ all = PriceSum /\ n = Cardinality(c) /\ L = LevelTimes(c, high)
  OBVIOUS
<1>1. N \in Nat /\ all \in Nat
  BY SwingsAreSwings, SumOfPrices
<1>2. PICK i \in Peaks(high) : c = {j \in Peaks(high) : Clustered(i, j, high)}
  BY PoolTyped
<1>3. c \subseteq Peaks(high) /\ \A j \in Peaks(high) : Price(j, high) \in Nat /\ Price(j, high) \in Prices(high)
  BY PoolTyped, CandleTyped DEF Candle, Price, Peaks, Prices
<1>4. /\ n \in Nat /\ n # 0 /\ L \in Nat
      /\ \E x \in c : Price(x, high) * n <= L
      /\ \E x \in c : L <= Price(x, high) * n
  <2> PICK f : f = [x \in c |-> Price(x, high)]
    OBVIOUS
  <2>1. f \in [c -> Nat] /\ IsFiniteSet(c) /\ c # {}
    BY PoolTyped
  <2>2. L = SumFunctionOnSet(f, c)
    BY DEF LevelTimes
  <2>3. /\ n \in Nat /\ n # 0 /\ L \in Nat
        /\ \E x \in c : f[x] * n <= L
        /\ \E x \in c : L <= f[x] * n
    BY <2>1, <2>2, AroundAverage
  <2> QED
    BY <2>3
<1>5. PICK low \in c : Price(low, high) * n <= L
  BY <1>4
<1>6. PICK top \in c : L <= Price(top, high) * n
  BY <1>4
<1>7. PICK a \in Peaks(high) : /\ Price(a, high) * n <= L
                               /\ \A j \in Peaks(high) : Price(j, high) * n <= L => Price(j, high) <= Price(a, high)
  <2>1. PICK V : V = {v \in Nat : \E j \in Peaks(high) : Price(j, high) * n <= L /\ v = L - Price(j, high)}
    OBVIOUS
  <2>2. ASSUME NEW j \in Peaks(high), Price(j, high) * n <= L PROVE L - Price(j, high) \in V
    <3>1. PICK p \in Nat : p = Price(j, high)
      BY <1>3
    <3>2. p * 1 <= p * n
      BY <1>4
    <3>3. L - p \in Nat
      BY <1>4, <2>2, <3>1, <3>2
    <3> QED
      BY <2>1, <2>2, <3>1, <3>3
  <2>3. V \in SUBSET Nat /\ V # {}
    BY <1>3, <1>5, <2>1, <2>2
  <2>4. PICK v \in V : \A w \in V : v <= w
    BY <2>3, HasLeast
  <2>5. PICK a \in Peaks(high) : Price(a, high) * n <= L /\ v = L - Price(a, high)
    BY <2>1, <2>4
  <2>6. ASSUME NEW j \in Peaks(high), Price(j, high) * n <= L PROVE Price(j, high) <= Price(a, high)
    <3>1. v <= L - Price(j, high)
      BY <2>2, <2>4, <2>6
    <3> QED
      BY <1>3, <1>4, <2>5, <3>1
  <2> QED
    BY <2>5, <2>6
<1> PICK p : p = Price(a, high)
  OBVIOUS
<1>8. p \in Nat /\ p \in Prices(high) /\ p * n <= L
  BY <1>3, <1>7
<1>9. ASSUME Dist(p * n, L) * 4000 * N <= all * n PROVE FALSE \/ TouchesOf(c, high) # {}
  <2>1. a \in TouchesOf(c, high)
    BY <1>9 DEF TouchesOf
  <2> QED
    BY <2>1
<1>10. CASE p * n = L
  <2>1. Dist(p * n, L) = 0
    BY <1>4, <1>10 DEF Dist
  <2>2. 0 <= all * n
    BY <1>1, <1>4
  <2>3. 0 * 4000 * N = 0
    BY <1>1
  <2> QED
    BY <1>9, <2>1, <2>2, <2>3
<1>11. CASE p * n # L
  <2>1. p * n < L
    BY <1>4, <1>8, <1>11
  <2>2. PICK y \in Prices(high) : p < y /\ Within(y, p)
    <3>1. low \in Peaks(high) /\ top \in Peaks(high) /\ Clustered(i, low, high) /\ Clustered(i, top, high)
      BY <1>2
    <3> PICK q, lo, hi : q = Price(i, high) /\ lo = Price(low, high) /\ hi = Price(top, high)
      OBVIOUS
    <3>2. q \in Nat /\ lo \in Nat /\ hi \in Nat
      BY <1>3, <3>1
    <3>3. lo <= p
      BY <1>5, <1>7, <3>1
    <3>4. p < hi
      <4>1. ~(hi <= p)
        <5> SUFFICES ASSUME hi <= p PROVE FALSE
          OBVIOUS
        <5>1. hi * n <= p * n
          BY <1>4, <1>8, <3>2, Scales
        <5> QED
          BY <1>4, <1>6, <1>8, <2>1, <3>2, <5>1
      <4> QED
        BY <1>8, <3>2, <4>1
    <3>5. CASE p < q
      <4>1. Joined(lo, q, high)
        <5>1. CASE q <= lo
          BY <1>8, <3>2, <3>3, <3>5, <5>1
        <5>2. CASE ~(q <= lo)
          BY <3>1, <5>2 DEF Clustered
        <5> QED
          BY <5>1, <5>2
      <4> QED
        BY <1>8, <3>3, <3>5, <4>1 DEF Joined
    <3>6. CASE ~(p < q)
      <4>1. q <= p /\ q <= hi
        BY <1>8, <3>2, <3>4, <3>6
      <4>2. Joined(q, hi, high)
        BY <3>1, <4>1 DEF Clustered
      <4> QED
        BY <1>8, <3>4, <4>1, <4>2 DEF Joined
    <3> QED
      BY <3>5, <3>6
  <2>3. PICK j \in Peaks(high) : y = Price(j, high)
    BY <2>2 DEF Prices
  <2>4. y \in Nat /\ L < y * n
    <3>1. y \in Nat /\ ~(y <= p)
      BY <1>3, <1>8, <2>2, <2>3
    <3>2. ~(y * n <= L)
      BY <1>7, <2>3, <3>1
    <3> QED
      BY <1>4, <3>1, <3>2
  <2>5. Dist(y, p) = y - p /\ Dist(p * n, L) = L - p * n
    BY <1>4, <1>8, <2>1, <2>2, <2>4 DEF Dist
  <2>0. PICK d : d = y - p
    OBVIOUS
  <2>7. d \in Nat
    BY <1>8, <2>0, <2>2, <2>4
  <2>6. d * (4000 * N) <= all
    <3>1. d * 2000 * 2 * N <= all
      BY <2>0, <2>2, <2>5 DEF Within
    <3>2. d * 2000 * 2 * N = d * (4000 * N)
      BY <1>1, <2>7
    <3> QED
      BY <3>1, <3>2
  <2>8. L - p * n <= d * n
    BY <1>4, <1>8, <2>0, <2>4
  <2>9. (L - p * n) * (4000 * N) <= (d * n) * (4000 * N)
    <3>1. L - p * n \in Int /\ d * n \in Int /\ 4000 * N \in Nat
      BY <1>1, <1>4, <1>8, <2>7
    <3> QED
      BY <2>8, <3>1, Scales
  <2>10. (d * (4000 * N)) * n <= all * n
    <3>1. d * (4000 * N) \in Int
      BY <1>1, <2>7
    <3> QED
      BY <1>1, <1>4, <2>6, <3>1, Scales
  <2>11. (d * n) * (4000 * N) = (d * (4000 * N)) * n
    BY <1>1, <1>4, <2>7
  <2>12. (L - p * n) * 4000 * N <= all * n
    <3>0. p * n \in Nat /\ all * n \in Nat
      BY <1>1, <1>4, <1>8
    <3> PICK e, z : e = L - p * n /\ z = all * n
      OBVIOUS
    <3>1. e \in Int /\ z \in Int
      BY <1>4, <3>0
    <3>2. e * (4000 * N) <= z
      <4>1. (d * n) * (4000 * N) \in Int
        BY <1>1, <1>4, <2>7
      <4> QED
        BY <1>1, <2>9, <2>10, <2>11, <3>1, <4>1
    <3> QED
      BY <1>1, <3>1, <3>2
  <2> QED
    BY <1>9, <2>5, <2>12
<1> QED
  BY <1>10, <1>11

LEMMA SweepOut ==
  ASSUME MarketTypeOK, NEW high \in BOOLEAN, NEW c \in Pools(high), Sweepers(c, high) # {}
  PROVE  \A s : s = SweepOf(c, high) => IF s.buySide THEN s.price < s.close ELSE s.price > s.close
<1> SUFFICES ASSUME NEW s, s = SweepOf(c, high) PROVE IF s.buySide THEN s.price < s.close ELSE s.price > s.close
  OBVIOUS
<1>1. PICK i : /\ i \in Sweepers(c, high) /\ \A y \in Sweepers(c, high) : i <= y
               /\ i = CHOOSE x \in Sweepers(c, high) : \A y \in Sweepers(c, high) : x <= y
  <2>1. Sweepers(c, high) \in SUBSET Nat
    BY DEF Sweepers
  <2>2. \E x \in Sweepers(c, high) : \A y \in Sweepers(c, high) : x <= y
    BY <2>1, HasLeast
  <2> QED
    BY <2>2
<1>2. i \in 1..Len(tape) /\ SweepsPool(i, c, high)
  BY <1>1 DEF Sweepers
<1>3. /\ tape[i].h \in Nat /\ tape[i].l \in Nat /\ tape[i].c \in Nat
  BY <1>2, CandleTyped DEF Candle
<1>4. PICK n, L : n = Cardinality(c) /\ L = LevelTimes(c, high)
  OBVIOUS
<1>5. n \in Nat /\ L \in Nat
  <2>1. [x \in c |-> Price(x, high)] \in [c -> Nat] /\ IsFiniteSet(c) /\ c # {}
    BY PoolTyped
  <2> QED
    BY <1>4, <2>1, AroundAverage DEF LevelTimes
<1> PICK side : side = ~high
  OBVIOUS
<1>6. s = [at |-> i, buySide |-> side, price |-> Price(i, high), close |-> tape[i].c]
  BY <1>1 DEF SweepOf
<1>10. s.buySide = side
  BY <1>6
<1>9. Price(i, high) = IF high THEN tape[i].h ELSE tape[i].l
  BY DEF Price
<1>7. CASE high
  <2>1. tape[i].h * n > L /\ tape[i].c * n < L
    BY <1>2, <1>4, <1>7 DEF SweepsPool
  <2>2. ~(tape[i].h <= tape[i].c)
    <3> SUFFICES ASSUME tape[i].h <= tape[i].c PROVE FALSE
      OBVIOUS
    <3>1. tape[i].h * n <= tape[i].c * n
      BY <1>3, <1>5, Scales
    <3> QED
      BY <1>3, <1>5, <2>1, <3>1
  <2>3. ~s.buySide
    BY <1>7, <1>10
  <2>4. s.price = tape[i].h /\ s.close = tape[i].c
    BY <1>6, <1>9, <1>7
  <2> QED
    BY <1>3, <2>2, <2>3, <2>4
<1>8. CASE ~high
  <2>1. tape[i].l * n < L /\ tape[i].c * n > L
    BY <1>2, <1>4, <1>8 DEF SweepsPool
  <2>2. ~(tape[i].c <= tape[i].l)
    <3> SUFFICES ASSUME tape[i].c <= tape[i].l PROVE FALSE
      OBVIOUS
    <3>1. tape[i].c * n <= tape[i].l * n
      BY <1>3, <1>5, Scales
    <3> QED
      BY <1>3, <1>5, <2>1, <3>1
  <2>3. s.buySide
    BY <1>8, <1>10
  <2>4. s.price = tape[i].l /\ s.close = tape[i].c
    BY <1>6, <1>9, <1>8
  <2> QED
    BY <1>3, <2>2, <2>3, <2>4
<1> QED
  BY <1>7, <1>8

LEMMA SweepsSound == ASSUME MarketTypeOK PROVE SweepRejects
<1>1. ASSUME NEW s \in Sweeps PROVE IF s.buySide THEN s.price < s.close ELSE s.price > s.close
  <2>1. PICK high \in BOOLEAN : \E c \in Pools(high) : Sweepers(c, high) # {} /\ s = SweepOf(c, high)
    BY DEF Sweeps
  <2> QED
    BY <2>1, SweepOut
<1> QED
  BY <1>1, PoolTouched DEF SweepRejects

LEMMA TapeTyped == MarketTypeOK /\ [MarketNext]_tape => MarketTypeOK'
<1> SUFFICES ASSUME MarketTypeOK, [MarketNext]_tape PROVE MarketTypeOK'
  OBVIOUS
<1>1. CASE UNCHANGED tape
  BY <1>1 DEF MarketTypeOK
<1>2. ASSUME NEW k \in Shapes, Print1(k) PROVE MarketTypeOK'
  <2>1. Len(tape) \in Nat /\ tape \in Seq(Shapes) /\ Window \in Nat \ {0} /\ Len(tape) <= Window
    BY CandlesHavePrices DEF MarketTypeOK
  <2>2. CASE Len(tape) < Window
    <3>1. tape' = Append(tape, k) /\ tape' \in Seq(Shapes) /\ Len(tape') = Len(tape) + 1
      BY <1>2, <2>1, <2>2 DEF Print1
    <3> QED
      BY <2>1, <2>2, <3>1 DEF MarketTypeOK
  <2>3. CASE ~(Len(tape) < Window)
    <3>0. tape # <<>>
      BY <2>1, <2>3
    <3> PICK rest : rest = Tail(tape)
      OBVIOUS
    <3>1. rest \in Seq(Shapes) /\ Len(rest) = Len(tape) - 1
      BY <2>1, <3>0
    <3>2. Append(rest, k) \in Seq(Shapes) /\ Len(Append(rest, k)) = Len(tape)
      BY <2>1, <3>1
    <3>3. tape' = Append(rest, k)
      BY <1>2, <2>3 DEF Print1
    <3> QED
      BY <2>1, <3>2, <3>3 DEF MarketTypeOK
  <2> QED
    BY <2>2, <2>3
<1> QED
  BY <1>1, <1>2 DEF MarketNext

(* Whatever candles print and however long the tape is, what the detectors *)
(* read from it holds together (smc_algorithms).                           *)
THEOREM ReadingSound == MarketSpec => []StructureSound
<1>1. MarketInit => MarketTypeOK
  BY CandlesHavePrices DEF MarketInit, MarketTypeOK
<1>2. MarketTypeOK => StructureSound
  BY LegsSound, ChochSound, GapsHold, SweepsSound DEF StructureSound
<1> QED
  BY <1>1, <1>2, TapeTyped, PTL DEF MarketSpec

-----------------------------------------------------------------------------
(* The strategies.  A stop that is floored is the floor or beyond it.      *)
FloorAt(e, pct) == (e \div 10000) * pct
Further(d, x, y) == IF d = "long" THEN x <= y ELSE x >= y
Behind(d, e, stop) == stop \in Int /\ Further(d, stop, Away(d, e, FloorAt(e, PlatformFloor)))

LEMMA FloorGrows ==
  ASSUME NEW e \in Quotes, NEW p \in Nat, NEW q \in Nat, p <= q
  PROVE  FloorAt(e, p) \in Nat /\ FloorAt(e, p) >= 4 * p /\ FloorAt(e, p) <= FloorAt(e, q)
<1>1. PICK n \in Nat : n = e \div 10000 /\ n >= 4
  BY DEF Quotes, Tick
<1>2. n * p \in Nat /\ n * p >= 4 * p /\ n * p <= n * q
  BY <1>1
<1> QED
  BY <1>1, <1>2 DEF FloorAt

LEMMA FlooredIs ==
  ASSUME NEW d \in Directions, NEW e \in Quotes, NEW stop \in Int, NEW pct \in Nat, pct >= 15
  PROVE  /\ Floored(d, e, stop, pct) \in Int
         /\ Further(d, Floored(d, e, stop, pct), stop)
         /\ Further(d, Floored(d, e, stop, pct), Away(d, e, FloorAt(e, pct)))
         /\ Floored(d, e, stop, pct) \in {stop, Away(d, e, FloorAt(e, pct))}
<1>1. PICK m \in Nat : m = FloorAt(e, pct) /\ m >= 60
  BY FloorGrows
<1>2. e \in Int
  BY DEF Quotes
<1> QED
  BY <1>1, <1>2 DEF Floored, WrongSide, Gapped, Away, Further, Directions, FloorAt

LEMMA FlooredBehind ==
  ASSUME NEW d \in Directions, NEW e \in Quotes, NEW stop \in Int, NEW pct \in Nat, pct >= 15
  PROVE  Behind(d, e, Floored(d, e, stop, pct))
<1>1. PICK m \in Nat, n \in Nat : m = FloorAt(e, 15) /\ n = FloorAt(e, pct) /\ m <= n
  BY FloorGrows
<1>2. PICK f \in Int : f = Floored(d, e, stop, pct) /\ Further(d, f, Away(d, e, n))
  BY <1>1, FlooredIs
<1> QED
  BY <1>1, <1>2 DEF Behind, Further, Away, Directions, Quotes, PlatformFloor

(* The floor of an instrument is a number, the platform's at least.        *)
LEMMA FloorsAre == ASSUME NEW symbol PROVE FloorOf(symbol) \in Nat /\ FloorOf(symbol) \in 15..34
BY DEF FloorOf, PlatformFloor

(* A zone only moves a stop further away, and the more tenths the more.    *)
LEMMA EmbeddedIs ==
  ASSUME NEW d \in Directions, NEW stop \in Int, NEW z \in PriceZones,
         NEW p \in Nat, NEW q \in Nat, p <= q
  PROVE  /\ Embedded(d, stop, z, p) \in Int
         /\ Further(d, Embedded(d, stop, z, p), stop)
         /\ Further(d, Embedded(d, stop, z, q), Embedded(d, stop, z, p))
<1>1. PICK w \in Nat : w = Width(z)
  BY DEF Width, PriceZones, Quotes
<1>2. PICK a \in Nat, b \in Nat : a = w * p /\ b = w * q /\ a <= b
  <2> w * p \in Nat /\ w * q \in Nat /\ w * p <= w * q
    OBVIOUS
  <2> QED
    OBVIOUS
<1>3. a \div 10 \in Nat /\ b \div 10 \in Nat /\ a \div 10 <= b \div 10
  BY <1>2
<1>4. Edge(d, z) \in Int
  BY DEF Edge, PriceZones, Quotes
<1> QED
  BY <1>1, <1>2, <1>3, <1>4 DEF Embedded, Away, Least, Most, Further, Directions

LEMMA EmbeddedBehind ==
  ASSUME NEW d \in Directions, NEW e \in Quotes, NEW stop, Behind(d, e, stop),
         NEW z \in PriceZones, NEW p \in Nat
  PROVE  Behind(d, e, Embedded(d, stop, z, p))
<1>1. stop \in Int
  BY DEF Behind
<1>2. PICK f \in Int : f = Embedded(d, stop, z, p) /\ Further(d, f, stop)
  BY <1>1, EmbeddedIs
<1>3. PICK m \in Nat : m = FloorAt(e, PlatformFloor)
  BY FloorGrows DEF PlatformFloor
<1> QED
  BY <1>1, <1>2, <1>3 DEF Behind, Further, Away, Directions, Quotes

LEMMA SwingBehind ==
  ASSUME NEW d \in Directions, NEW e \in Quotes, NEW swing \in Quotes
  PROVE  SwingStop(d, e, swing) \in Int /\ Behind(d, e, SwingStop(d, e, swing))
<1>1. BehindSwing(d, e, swing) \in Int
  <2>1. swing \in Nat /\ swing \div 1000 \in Int
    BY DEF Quotes
  <2>2. (e \div 10000) * PlatformFloor \in Int
    BY DEF Quotes, PlatformFloor
  <2> QED
    BY <2>1, <2>2 DEF BehindSwing, Away, Most
<1>2. Behind(d, e, SwingStop(d, e, swing))
  BY <1>1, FlooredBehind DEF SwingStop, PlatformFloor
<1> QED
  BY <1>2 DEF Behind

(* What a list of candidates is taken by: the first of them, the last, the *)
(* deepest of a side.                                                      *)
LEMMA FirstIs ==
  ASSUME NEW T, NEW list \in Seq(T), NEW places \in SUBSET DOMAIN list, places # {}
  PROVE  FirstOf(list, places) \in T /\ \E i \in places : FirstOf(list, places) = list[i]
<1>1. places \in SUBSET Nat
  OBVIOUS
<1>2. \E i \in places : \A j \in places : i <= j
  BY <1>1, HasLeast
<1>3. PICK k : k = CHOOSE i \in places : \A j \in places : i <= j
  OBVIOUS
<1>4. k \in places
  BY <1>2, <1>3
<1>5. FirstOf(list, places) = list[k]
  BY <1>3 DEF FirstOf
<1> QED
  BY <1>4, <1>5

LEMMA PlacesAreFinite ==
  ASSUME NEW T, NEW list \in Seq(T), NEW places \in SUBSET DOMAIN list
  PROVE  IsFiniteSet(places)
<1>1. PICK n \in Nat : DOMAIN list = 1..n
  OBVIOUS
<1>2. IsFiniteSet(1..n)
  BY FS_Interval
<1> QED
  BY <1>1, <1>2, FS_Subset

LEMMA FinalIs ==
  ASSUME NEW T, NEW list \in Seq(T), NEW places \in SUBSET DOMAIN list, places # {}
  PROVE  FinalOf(list, places) \in T /\ \E i \in places : FinalOf(list, places) = list[i]
<1>1. places \in SUBSET Nat
  OBVIOUS
<1>2. PICK f : f = [i \in places |-> i]
  OBVIOUS
<1>3. f \in [places -> Nat]
  BY <1>1, <1>2
<1>4. \E i \in places : \A j \in places : f[j] <= f[i]
  BY <1>3, PlacesAreFinite, HasGreatest
<1>5. \E i \in places : \A j \in places : j <= i
  BY <1>2, <1>4
<1>6. PICK k : k = CHOOSE i \in places : \A j \in places : j <= i
  OBVIOUS
<1>7. k \in places
  BY <1>5, <1>6
<1>8. FinalOf(list, places) = list[k]
  BY <1>6 DEF FinalOf
<1> QED
  BY <1>7, <1>8

LEMMA DeepestIs ==
  ASSUME NEW zones \in Seq(PriceZones), NEW d, OnSide(zones, d) # {}
  PROVE  Deepest(zones, d) \in PriceZones
<1>1. PICK S : S = OnSide(zones, d)
  OBVIOUS
<1>2. S \in SUBSET DOMAIN zones /\ S # {} /\ \A i \in S : zones[i] \in PriceZones
  BY <1>1 DEF OnSide
<1>3. \A i \in S : zones[i].bottom \in Nat /\ zones[i].top \in Nat
  BY <1>2 DEF PriceZones, Quotes
<1>4. PICK k : k = CHOOSE i \in S :
                     \A j \in S : IF d = "long" THEN zones[i].bottom <= zones[j].bottom
                                                ELSE zones[i].top >= zones[j].top
  OBVIOUS
<1>5. \E i \in S : \A j \in S : IF d = "long" THEN zones[i].bottom <= zones[j].bottom
                                              ELSE zones[i].top >= zones[j].top
  <2>1. CASE d = "long"
    <3>1. PICK D : D = {zones[i].bottom : i \in S}
      OBVIOUS
    <3>2. D \in SUBSET Nat /\ D # {}
      BY <1>2, <1>3, <3>1
    <3>3. PICK n \in D : \A m \in D : n <= m
      BY <3>2, HasLeast
    <3> QED
      BY <2>1, <3>1, <3>3
  <2>2. CASE d # "long"
    <3>1. PICK f : f = [i \in S |-> zones[i].top]
      OBVIOUS
    <3>2. f \in [S -> Nat]
      BY <1>3, <3>1
    <3>3. PICK i \in S : \A j \in S : f[j] <= f[i]
      BY <1>2, <3>2, PlacesAreFinite, HasGreatest
    <3> QED
      BY <1>3, <2>2, <3>1, <3>3
  <2> QED
    BY <2>1, <2>2
<1>6. k \in S
  BY <1>4, <1>5
<1>7. Deepest(zones, d) = zones[k]
  BY <1>1, <1>4 DEF Deepest
<1> QED
  BY <1>2, <1>6, <1>7

(* The oldest of the blocks of a side, as FVGExpansionOBPOIBot takes it.   *)
LEMMA OldestIs ==
  ASSUME NEW zones \in Seq(PriceZones), NEW mine \in SUBSET DOMAIN zones, mine # {}
  PROVE  zones[CHOOSE i \in mine : \A j \in mine : zones[i].at <= zones[j].at] \in PriceZones
<1>1. \A i \in mine : zones[i].at \in Nat
  BY DEF PriceZones
<1>2. PICK D : D = {zones[i].at : i \in mine}
  OBVIOUS
<1>3. D \in SUBSET Nat /\ D # {}
  BY <1>1, <1>2
<1>4. PICK n \in D : \A m \in D : n <= m
  BY <1>3, HasLeast
<1>5. \E i \in mine : \A j \in mine : zones[i].at <= zones[j].at
  BY <1>2, <1>4
<1> QED
  BY <1>5

-----------------------------------------------------------------------------
(* A signal that keeps the rules: its stop is the floor or more behind the *)
(* entry, its targets are ahead of it, the lots follow from its risk.      *)
SignalShape ==
  [side : Directions, entry : Quotes, stop : Int, risk : Nat,
   targets : [tp1 : Int, tp2 : Int, tp3 : Int], lots : Nat]
Ahead(d, e, t) == t # e /\ WrongSide(d, e, t)
SoundSignal(s) ==
  /\ s \in SignalShape
  /\ Behind(s.side, s.entry, s.stop)
  /\ s.targets.tp1 = Away(s.side, s.entry, -Gapped(s.entry, s.stop))
  /\ s.targets.tp2 = Away(s.side, s.entry, -2 * Gapped(s.entry, s.stop))
  /\ Ahead(s.side, s.entry, s.targets.tp3)
  /\ s.risk <= 300
  /\ RiskIsValid(s)

LEMMA BehindIs ==
  ASSUME NEW d \in Directions, NEW e \in Quotes, NEW stop, Behind(d, e, stop)
  PROVE  /\ stop \in Int /\ Gapped(e, stop) \in Nat
         /\ Gapped(e, stop) >= FloorAt(e, PlatformFloor)
         /\ Gapped(e, stop) >= 60
         /\ ~WrongSide(d, e, stop)
         /\ stop = Away(d, e, Gapped(e, stop))
<1>1. PICK m \in Nat : m = FloorAt(e, PlatformFloor) /\ m >= 60
  BY FloorGrows DEF PlatformFloor
<1> QED
  BY <1>1 DEF Behind, Further, Away, Directions, Quotes, Gapped, WrongSide

LEMMA RiskIs ==
  ASSUME NEW base \in Nat, NEW quality \in Nat, NEW override \in Nat
  PROVE  RiskOf(base, quality, override) \in Nat /\ RiskOf(base, quality, override) <= 300
<1>1. PICK n \in Nat : n = base * Least(quality, 150)
  <2>1. Least(quality, 150) \in Nat
    BY DEF Least
  <2> QED
    BY <2>1
<1> QED
  BY <1>1 DEF RiskOf, Least, Most

(* What a lot size implies stays within the check, by more than a third.   *)
LEMMA LotsAreValid ==
  ASSUME NEW e \in Quotes, NEW g \in Nat, g >= FloorAt(e, PlatformFloor), g >= 60,
         NEW risk \in Nat, risk <= 300
  PROVE  /\ LotSize(risk, g) \in Nat
         /\ LotSize(risk, g) <= ((Balance \div 10000) * risk * 1500) \div g
         /\ LotSize(risk, g) * (e \div 20000) <= 50000 * (Balance \div 20000)
<1>1. PICK B \in Nat, C \in Nat : B = Balance \div 10000 /\ C = Balance \div 20000 /\ B <= 2 * C + 1 /\ C >= 1
  BY ReadingsAreQuotes DEF Tick
<1>2. PICK u \in Nat, v \in Nat : u = e \div 10000 /\ v = e \div 20000 /\ u >= 2 * v
  BY DEF Quotes
<1>3. g >= u * 15
  BY <1>2 DEF FloorAt, PlatformFloor
<1>4. PICK p \in Nat : p = B * risk /\ p <= 300 * B
  <2> B * risk \in Nat /\ B * risk <= B * 300
    OBVIOUS
  <2> QED
    OBVIOUS
<1>5. PICK l \in Nat : l = (p * 1000) \div g /\ l * g <= p * 1000
  OBVIOUS
<1>6. LotSize(risk, g) = l
  BY <1>1, <1>4, <1>5 DEF LotSize
<1>7. l <= (p * 1500) \div g
  <2> PICK w \in Nat : w = p * 1500
    OBVIOUS
  <2>1. PICK k \in Nat : k = w \div g /\ w < k * g + g
    BY <1>1
  <2>2. l * g < (k + 1) * g
    <3>1. PICK y \in Nat, z \in Nat : y = k * g /\ z = l * g
      OBVIOUS
    <3>2. (k + 1) * g = y + g
      BY <3>1
    <3>3. z <= p * 1000 /\ w < y + g
      BY <1>5, <2>1, <3>1
    <3>4. z < y + g
      BY <3>3
    <3> QED
      BY <3>1, <3>2, <3>4
  <2>3. l < k + 1
    <3> SUFFICES ASSUME l >= k + 1 PROVE FALSE
      OBVIOUS
    <3>1. l * g >= (k + 1) * g
      OBVIOUS
    <3> QED
      BY <2>2, <3>1
  <2> QED
    BY <2>1, <2>3
<1>8. l * v <= 50000 * C
  <2>1. g >= 30 * v
    BY <1>2, <1>3
  <2>2. PICK x \in Nat : x = l * v
    OBVIOUS
  <2>3. l * g >= 30 * x
    <3>1. l * g >= l * (30 * v)
      BY <2>1
    <3>2. l * (30 * v) = 30 * (l * v)
      OBVIOUS
    <3> QED
      BY <2>2, <3>1, <3>2
  <2>4. 30 * x <= 300000 * B
    BY <1>4, <1>5, <2>3
  <2> QED
    BY <1>1, <2>2, <2>4
<1>9. (Balance \div 10000) * risk * 1500 = p * 1500
  BY <1>1, <1>4
<1> QED
  BY <1>1, <1>2, <1>6, <1>7, <1>8, <1>9

LEMMA SignalIsSound ==
  ASSUME NEW d \in Directions, NEW e \in Quotes, NEW stop, Behind(d, e, stop),
         NEW rr \in Nat, rr >= 10, NEW base \in Nat, NEW quality \in Nat, entry \in Entries
  PROVE  /\ SoundSignal(SignalOf(d, e, stop, rr, base, quality))
         /\ SignalOf(d, e, stop, rr, base, quality).side = d
         /\ SignalOf(d, e, stop, rr, base, quality).entry = e
         /\ SignalOf(d, e, stop, rr, base, quality).stop = stop
<1>1. PICK g \in Nat : /\ g = Gapped(e, stop) /\ g >= FloorAt(e, PlatformFloor) /\ g >= 60
                       /\ ~WrongSide(d, e, stop) /\ stop \in Int
  BY BehindIs
<1>2. entry.risk \in Nat /\ entry.rr \in Nat
  BY ReadingsAreQuotes
<1>3. PICK risk \in Nat : risk = RiskOf(base, quality, entry.risk) /\ risk <= 300
  BY <1>2, RiskIs
<1>4. PICK q \in Nat : q = (IF entry.rr > 0 THEN entry.rr ELSE rr) /\ q >= 1
  BY <1>2
<1>5. PICK x \in Nat : x = (g * q) \div 10 /\ x >= 1
  <2> g * q \in Nat /\ g * q >= 10
    BY <1>1, <1>4
  <2> QED
    OBVIOUS
<1>6. PICK s : s = SignalOf(d, e, stop, rr, base, quality)
  OBVIOUS
<1>7. s = [side |-> d, entry |-> e, stop |-> stop, risk |-> risk,
           targets |-> [tp1 |-> Away(d, e, -g), tp2 |-> Away(d, e, -2 * g), tp3 |-> Away(d, e, -x)],
           lots |-> LotSize(risk, g)]
  BY <1>1, <1>3, <1>4, <1>5, <1>6 DEF SignalOf, Targets
<1>8. e \in Int /\ Away(d, e, -g) \in Int /\ Away(d, e, -2 * g) \in Int /\ Away(d, e, -x) \in Int
  BY DEF Away, Quotes
<1>9. LotSize(risk, g) \in Nat
  BY <1>1, <1>3, LotsAreValid
<1>10. s \in SignalShape
  BY <1>1, <1>7, <1>8, <1>9 DEF SignalShape
<1>11. Ahead(d, e, s.targets.tp3)
  BY <1>5, <1>7, <1>8 DEF Ahead, WrongSide, Away, Directions
<1>12. RiskIsValid(s)
  <2>1. s.side = d /\ s.entry = e /\ s.stop = stop /\ s.risk = risk /\ s.lots = LotSize(risk, g)
    BY <1>7
  <2>2. LotSize(risk, g) <= ((Balance \div 10000) * risk * 1500) \div g
    BY <1>1, <1>3, LotsAreValid
  <2>3. LotSize(risk, g) * (e \div 20000) <= 50000 * (Balance \div 20000)
    BY <1>1, <1>3, LotsAreValid
  <2>4. MaxNotionalLeverage * 1000 * (Balance \div 20000) = 50000 * (Balance \div 20000)
    BY ReadingsAreQuotes DEF MaxNotionalLeverage
  <2> QED
    BY <1>1, <2>1, <2>2, <2>3, <2>4 DEF RiskIsValid
<1>13. Behind(s.side, s.entry, s.stop)
  BY <1>7
<1>14. s.risk <= 300 /\ s.targets.tp1 = Away(d, e, -g) /\ s.targets.tp2 = Away(d, e, -2 * g)
  BY <1>3, <1>7
<1>15. s.side = d /\ s.entry = e /\ s.stop = stop
  BY <1>7
<1>16. SoundSignal(s)
  BY <1>1, <1>10, <1>11, <1>12, <1>13, <1>14, <1>15 DEF SoundSignal
<1> QED
  BY <1>6, <1>15, <1>16

-----------------------------------------------------------------------------
(* Whatever a strategy signals keeps the rules, family by family.          *)
AllSound(S) == \A s \in S : SoundSignal(s)

LEMMA ZoneQuotes ==
  ASSUME NEW z \in PriceZones, NEW d
  PROVE  Middle(z) \in Quotes /\ Edge(d, z) \in Quotes /\ Width(z) \in Nat /\ Side(z) \in Directions
BY DEF PriceZones, Quotes, Middle, Edge, Width, Side, Directions, Tick

LEMMA SidesInList ==
  ASSUME NEW zones \in Seq(PriceZones), NEW d, NEW p
  PROVE  /\ OnSide(zones, d) \in SUBSET DOMAIN zones /\ AtPrice(zones, p) \in SUBSET DOMAIN zones
         /\ OnSide(zones, d) # {} => d \in Directions
<1>1. \A i \in DOMAIN zones : Side(zones[i]) \in Directions
  BY ZoneQuotes
<1> QED
  BY <1>1 DEF OnSide, AtPrice

LEMMA AwayIsInt ==
  ASSUME NEW d, NEW p \in Int, NEW x \in Int PROVE Away(d, p, x) \in Int
BY DEF Away

LEMMA MacroSound ==
  ASSUME NEW r \in MacroShape, entry \in Entries PROVE AllSound(MacroSwingStructureBot(r))
<1> DEFINE d == r.trend
           z == FinalOf(r.blocks, OnSide(r.blocks, d))
           e == Middle(z)
           swing == IF d = "long" THEN r.low ELSE r.high
           stop == Embedded(d, SwingStop(d, e, swing), z, 1)
<1>1. SUFFICES ASSUME d # "none", OnSide(r.blocks, d) # {}
               PROVE  SoundSignal(SignalOf(d, e, stop, 50, 150, 120))
  BY DEF AllSound, MacroSwingStructureBot
<1>2. r.blocks \in Seq(PriceZones) /\ swing \in Quotes /\ d \in Views
  BY DEF MacroShape
<1>3. d \in Directions
  BY <1>1, <1>2 DEF Views
<1>4. z \in PriceZones
  BY <1>1, <1>2, SidesInList, FinalIs
<1>5. e \in Quotes
  BY <1>4, ZoneQuotes
<1>6. Behind(d, e, SwingStop(d, e, swing))
  BY <1>2, <1>3, <1>5, SwingBehind
<1>7. Behind(d, e, stop)
  BY <1>3, <1>4, <1>5, <1>6, EmbeddedBehind
<1> HIDE DEF d, e, stop
<1> QED
  BY <1>3, <1>5, <1>7, SignalIsSound

(* The two reversals, by how far behind the block and by what floor.       *)
ReversalZone(r) == FinalOf(r.blocks, AtPrice(r.blocks, r.close))
ReversalEntry(r) ==
  IF r.sweep > 0 THEN Middle(ReversalZone(r)) ELSE Edge(r.choch, ReversalZone(r))
ReversalStop(r, tenths, floor) ==
  IF r.sweep > 0
  THEN Floored(r.choch, ReversalEntry(r),
               Embedded(r.choch, Away(r.choch, r.sweep, (r.sweep \div 10000) * 5), ReversalZone(r), tenths),
               floor)
  ELSE IF tenths = 1
  THEN Embedded(r.choch, SwingStop(r.choch, ReversalEntry(r), r.swing), ReversalZone(r), tenths)
  ELSE Floored(r.choch, ReversalEntry(r),
               Embedded(r.choch, SwingStop(r.choch, ReversalEntry(r), r.swing), ReversalZone(r), tenths),
               floor)
Reverses(r) ==
  AtPrice(r.blocks, r.close) # {} /\ r.choch # "none" /\ ~WrongHalf(r.choch, ReversalZone(r), r.range)

LEMMA ReversalIs ==
  ASSUME NEW r, NEW tenths, NEW floor
  PROVE  Reversal(r, tenths, floor) =
           IF Reverses(r)
           THEN {SignalOf(r.choch, ReversalEntry(r), ReversalStop(r, tenths, floor), 30, 100, 110)}
           ELSE {}
BY DEF Reversal, Reverses, ReversalStop, ReversalEntry, ReversalZone

LEMMA ReversesOn ==
  ASSUME NEW r \in ReversalShape, Reverses(r)
  PROVE  r.choch \in Directions /\ ReversalZone(r) \in PriceZones /\ ReversalEntry(r) \in Quotes
<1>1. r.blocks \in Seq(PriceZones) /\ r.choch \in Views
  BY DEF ReversalShape
<1>2. ReversalZone(r) \in PriceZones
  BY <1>1, SidesInList, FinalIs DEF Reverses, ReversalZone
<1> QED
  BY <1>1, <1>2, ZoneQuotes DEF Reverses, ReversalEntry, Views

LEMMA ReversalStopBehind ==
  ASSUME NEW r \in ReversalShape, Reverses(r), NEW tenths \in Nat, NEW floor \in Nat, floor >= 15
  PROVE  Behind(r.choch, ReversalEntry(r), ReversalStop(r, tenths, floor))
<1> DEFINE d == r.choch
           e == ReversalEntry(r)
           z == ReversalZone(r)
<1>1. d \in Directions /\ z \in PriceZones /\ e \in Quotes
  BY ReversesOn
<1>2. r.sweep \in Nat /\ r.swing \in Quotes
  BY DEF ReversalShape
<1>3. (r.sweep \div 10000) * 5 \in Int
  BY <1>2
<1>4. Away(d, r.sweep, (r.sweep \div 10000) * 5) \in Int
  BY <1>2, <1>3, AwayIsInt
<1>5. Embedded(d, Away(d, r.sweep, (r.sweep \div 10000) * 5), z, tenths) \in Int
  BY <1>1, <1>4, EmbeddedIs
<1>6. Behind(d, e, SwingStop(d, e, r.swing))
  BY <1>1, <1>2, SwingBehind
<1>7. Behind(d, e, Embedded(d, SwingStop(d, e, r.swing), z, tenths))
  BY <1>1, <1>6, EmbeddedBehind
<1>8. Embedded(d, SwingStop(d, e, r.swing), z, tenths) \in Int
  BY <1>7 DEF Behind
<1> HIDE DEF d, e, z
<1>9. /\ Behind(d, e, Floored(d, e, Embedded(d, Away(d, r.sweep, (r.sweep \div 10000) * 5), z, tenths), floor))
      /\ Behind(d, e, Floored(d, e, Embedded(d, SwingStop(d, e, r.swing), z, tenths), floor))
  BY <1>1, <1>5, <1>8, FlooredBehind
<1> QED
  BY <1>7, <1>9 DEF ReversalStop, d, e, z

LEMMA ReversalSound ==
  ASSUME NEW r \in ReversalShape, entry \in Entries, NEW tenths \in Nat, NEW floor \in Nat, floor >= 15
  PROVE  AllSound(Reversal(r, tenths, floor))
<1>1. SUFFICES ASSUME Reverses(r)
               PROVE  SoundSignal(SignalOf(r.choch, ReversalEntry(r), ReversalStop(r, tenths, floor), 30, 100, 110))
  BY ReversalIs DEF AllSound
<1>2. r.choch \in Directions /\ ReversalEntry(r) \in Quotes
  BY <1>1, ReversesOn
<1>3. Behind(r.choch, ReversalEntry(r), ReversalStop(r, tenths, floor))
  BY <1>1, ReversalStopBehind
<1> QED
  BY <1>2, <1>3, SignalIsSound

LEMMA GapOrEdgeSound ==
  ASSUME NEW r, NEW d \in Directions, NEW z \in PriceZones, NEW e \in Quotes, entry \in Entries
  PROVE  AllSound(GapOrEdge(r, d, z, e))
<1>1. Away(d, Edge(d, z), Width(z) \div 10) \in Int
  <2>1. Edge(d, z) \in Int /\ Width(z) \div 10 \in Int
    BY ZoneQuotes DEF Quotes
  <2> QED
    BY <2>1, AwayIsInt
<1>2. PICK stop : stop = Floored(d, e, Away(d, Edge(d, z), Width(z) \div 10), FloorOf(r.symbol))
  OBVIOUS
<1>3. Behind(d, e, stop)
  BY <1>1, <1>2, FloorsAre, FlooredBehind
<1>4. SoundSignal(SignalOf(d, e, stop, 40, 100, 115))
  BY <1>3, SignalIsSound
<1> QED
  BY <1>2, <1>4 DEF GapOrEdge, AllSound

LEMMA GapBotsSound ==
  ASSUME NEW r \in GapShape, entry \in Entries
  PROVE  /\ AllSound(FVGExpansionBot(r)) /\ AllSound(FVGExpansionV3Bot(r))
         /\ AllSound(FVGExpansionHTFGatedBot(r)) /\ AllSound(FVGExpansionOBPOIBot(r))
<1>1. r.gaps \in Seq(PriceZones) /\ r.blocks \in Seq(PriceZones)
  BY DEF GapShape
<1>2. AllSound({})
  BY DEF AllSound
<1>3. AllSound(FVGExpansionBot(r))
  <2>1. ASSUME r.gaps # <<>>, r.bos = Side(r.gaps[Len(r.gaps)])
        PROVE  AllSound(GapOrEdge(r, r.bos, r.gaps[Len(r.gaps)], Middle(r.gaps[Len(r.gaps)])))
    <3>1. r.gaps[Len(r.gaps)] \in PriceZones
      BY <1>1, <2>1
    <3> QED
      BY <2>1, <3>1, ZoneQuotes, GapOrEdgeSound
  <2> QED
    BY <1>2, <2>1 DEF FVGExpansionBot
<1>4. AllSound(FVGExpansionV3Bot(r))
  <2>1. ASSUME OnSide(r.gaps, r.significantBos) # {}
        PROVE  AllSound(GapOrEdge(r, r.significantBos, Deepest(r.gaps, r.significantBos),
                                  Middle(Deepest(r.gaps, r.significantBos))))
    <3>1. Deepest(r.gaps, r.significantBos) \in PriceZones
      BY <1>1, <2>1, DeepestIs
    <3>2. r.significantBos \in Directions
      BY <1>1, <2>1, SidesInList
    <3> QED
      BY <3>1, <3>2, ZoneQuotes, GapOrEdgeSound
  <2> QED
    BY <1>2, <2>1 DEF FVGExpansionV3Bot
<1>5. AllSound(FVGExpansionHTFGatedBot(r))
  BY <1>2, <1>3 DEF FVGExpansionHTFGatedBot
<1>6. AllSound(FVGExpansionOBPOIBot(r))
  <2>1. PICK mine : mine = OnSide(r.blocks, r.bos)
    OBVIOUS
  <2>2. PICK z : z = r.blocks[CHOOSE i \in mine : \A j \in mine : r.blocks[i].at <= r.blocks[j].at]
    OBVIOUS
  <2>3. ASSUME mine # {} PROVE AllSound(GapOrEdge(r, r.bos, z, Edge(r.bos, z)))
    <3>1. mine \in SUBSET DOMAIN r.blocks /\ r.bos \in Directions
      BY <1>1, <2>1, <2>3, SidesInList
    <3>2. z \in PriceZones
      BY <1>1, <2>2, <2>3, <3>1, OldestIs
    <3> QED
      BY <3>1, <3>2, ZoneQuotes, GapOrEdgeSound
  <2> QED
    BY <1>2, <2>1, <2>2, <2>3 DEF FVGExpansionOBPOIBot
<1> QED
  BY <1>3, <1>4, <1>5, <1>6

(* The false breaks of a range, and the block an end of the range lies in. *)
LEMMA PoiTyped == ASSUME NEW r \in WyckoffShape, NEW percent PROVE Poi(r, percent) \subseteq PriceZones
<1>1. r.blocks \in Seq(PriceZones)
  BY DEF WyckoffShape
<1>2. \A x \in DOMAIN r.blocks : r.blocks[x] \in PriceZones
  BY <1>1
<1> QED
  BY <1>2 DEF Poi

WyckoffStop(r, percent, d) ==
  LET poi == Poi(r, percent)
      s == Sweep(r, d)
      behind == Away(d, s.extreme, (r.high - r.low) \div 50)
  IN  Floored(d, s.close,
              IF poi = {} THEN behind ELSE Embedded(d, behind, CHOOSE z \in poi : TRUE, 1),
              FloorOf(r.symbol))
BreaksOut(r, percent, d, gap) ==
  /\ Near(r, r.high, percent) \/ Near(r, r.low, percent)
  /\ d # "none" /\ Sweep(r, d).extreme > 0 /\ Confluences(r, d, Poi(r, percent), gap) >= 2

LEMMA WyckoffIs ==
  ASSUME NEW r, NEW percent, NEW d, NEW gap, NEW base
  PROVE  Wyckoff(r, percent, d, gap, base) =
           IF BreaksOut(r, percent, d, gap)
           THEN {SignalOf(d, Sweep(r, d).close, WyckoffStop(r, percent, d), 30, 100, base)} ELSE {}
BY DEF Wyckoff, BreaksOut, WyckoffStop

LEMMA WyckoffTyped ==
  ASSUME NEW r \in WyckoffShape
  PROVE  /\ r.high \in Quotes /\ r.low \in Quotes /\ r.low < r.high
         /\ r.choch \in Views /\ r.close \in Quotes
         /\ \A d \in Directions : Sweep(r, d) \in FalseBreaks
BY DEF WyckoffShape, Sweep

LEMMA BreaksOn ==
  ASSUME NEW r \in WyckoffShape, NEW percent, NEW d \in Directions, Sweep(r, d).extreme > 0
  PROVE  Sweep(r, d).close \in Quotes /\ Behind(d, Sweep(r, d).close, WyckoffStop(r, percent, d))
<1>1. PICK s \in FalseBreaks : s = Sweep(r, d)
  BY WyckoffTyped
<1>2. s.close \in Quotes /\ s.extreme \in Nat
  BY <1>1 DEF FalseBreaks
<1>3. PICK behind \in Int : behind = Away(d, s.extreme, (r.high - r.low) \div 50)
  <2>1. (r.high - r.low) \div 50 \in Int
    BY WyckoffTyped DEF Quotes
  <2> QED
    BY <1>2, <2>1, AwayIsInt
<1>4. PICK stop : stop = IF Poi(r, percent) = {} THEN behind
                         ELSE Embedded(d, behind, CHOOSE z \in Poi(r, percent) : TRUE, 1)
  OBVIOUS
<1>5. stop \in Int
  <2>1. ASSUME Poi(r, percent) # {} PROVE (CHOOSE z \in Poi(r, percent) : TRUE) \in PriceZones
    BY <2>1, PoiTyped
  <2> QED
    BY <1>3, <1>4, <2>1, EmbeddedIs
<1>6. Behind(d, s.close, Floored(d, s.close, stop, FloorOf(r.symbol)))
  BY <1>2, <1>5, FloorsAre, FlooredBehind
<1>7. WyckoffStop(r, percent, d) = Floored(d, s.close, stop, FloorOf(r.symbol))
  BY <1>1, <1>3, <1>4 DEF WyckoffStop
<1> QED
  BY <1>1, <1>2, <1>6, <1>7

LEMMA WyckoffSound ==
  ASSUME NEW r \in WyckoffShape, entry \in Entries, NEW percent, NEW d \in Views, NEW gap, NEW base \in Nat
  PROVE  /\ AllSound(Wyckoff(r, percent, d, gap, base))
         /\ \A s \in Wyckoff(r, percent, d, gap, base) : s.side = d
<1>1. CASE ~BreaksOut(r, percent, d, gap)
  BY <1>1, WyckoffIs DEF AllSound
<1>2. CASE BreaksOut(r, percent, d, gap)
  <2>1. d \in Directions /\ Sweep(r, d).extreme > 0
    BY <1>2 DEF BreaksOut, Views
  <2>2. PICK e \in Quotes, stop \in Int : /\ e = Sweep(r, d).close
                                        /\ stop = WyckoffStop(r, percent, d)
                                        /\ Behind(d, e, stop)
    BY <2>1, BreaksOn DEF Behind
  <2>3. PICK s : s = SignalOf(d, e, stop, 30, 100, base)
    OBVIOUS
  <2>4. SoundSignal(s) /\ s.side = d
    BY <2>1, <2>2, <2>3, SignalIsSound
  <2> QED
    BY <1>2, <2>2, <2>3, <2>4, WyckoffIs DEF AllSound
<1> QED
  BY <1>1, <1>2

(* The cap on the third target is ahead of the entry, or is not applied.   *)
LEMMA CappedSound ==
  ASSUME NEW r \in WyckoffShape, NEW s, SoundSignal(s) PROVE SoundSignal(Capped(r, s))
<1>1. PICK cap : cap = Away(s.side, IF s.side = "long" THEN r.high ELSE r.low, (r.high - r.low) \div 20)
  OBVIOUS
<1>2. CASE ~(WrongSide(s.side, s.entry, cap) /\ s.entry # cap)
  BY <1>1, <1>2 DEF Capped
<1>3. CASE WrongSide(s.side, s.entry, cap) /\ s.entry # cap
  <2>1. s \in SignalShape
    BY DEF SoundSignal
  <2>2. cap \in Int
    <3>1. (r.high - r.low) \div 20 \in Int /\ r.high \in Int /\ r.low \in Int
      BY WyckoffTyped DEF Quotes
    <3> QED
      BY <1>1, <3>1, AwayIsInt
  <2>3. PICK u \in Int : u = s.targets.tp3
    BY <2>1 DEF SignalShape
  <2>4. PICK v \in Int : v = IF s.side = "long" THEN Least(u, cap) ELSE Most(u, cap)
    BY <2>2, <2>3 DEF Least, Most
  <2>5. PICK t : t = [s EXCEPT !.targets.tp3 = v]
    OBVIOUS
  <2>6. Capped(r, s) = t
    BY <1>1, <1>3, <2>3, <2>4, <2>5 DEF Capped
  <2>7. t \in SignalShape
    BY <2>1, <2>4, <2>5 DEF SignalShape
  <2>8. /\ t.side = s.side /\ t.entry = s.entry /\ t.stop = s.stop /\ t.risk = s.risk /\ t.lots = s.lots
        /\ t.targets.tp1 = s.targets.tp1 /\ t.targets.tp2 = s.targets.tp2 /\ t.targets.tp3 = v
    BY <2>1, <2>5 DEF SignalShape
  <2>9. Ahead(s.side, s.entry, v)
    <3>1. s.entry \in Int /\ s.side \in Directions
      BY <2>1 DEF SignalShape, Quotes
    <3>2. Ahead(s.side, s.entry, u)
      BY <2>3 DEF SoundSignal
    <3> QED
      BY <1>3, <2>2, <2>3, <2>4, <3>1, <3>2 DEF Ahead, WrongSide, Least, Most
  <2>10. RiskIsValid(t)
    <3>1. RiskIsValid(s)
      BY DEF SoundSignal
    <3> QED
      BY <2>8, <3>1 DEF RiskIsValid
  <2> QED
    BY <2>6, <2>7, <2>8, <2>9, <2>10 DEF SoundSignal
<1> QED
  BY <1>2, <1>3

LEMMA VolumeBotsSound ==
  ASSUME NEW r \in WyckoffShape, entry \in Entries
  PROVE  /\ AllSound(VolumeLiquidityBot(r)) /\ AllSound(VolumeLiquidityWideRangeBot(r))
         /\ AllSound(VolumeLiquidityHeldReclaimBot(r))
<1>1. PICK n \in Nat : n = Confluences(r, r.choch, Poi(r, 15), r.gapAfterChoch)
  <2>1. PICK four \in Nat : four = 4
    OBVIOUS
  <2>2. IsFiniteSet(1..four)
    BY FS_Interval
  <2>3. PICK S \in SUBSET (1..four) : Cardinality(S) = Confluences(r, r.choch, Poi(r, 15), r.gapAfterChoch)
    BY <2>1 DEF Confluences
  <2> QED
    BY <2>2, <2>3, FS_Subset, FS_CardinalityType
<1>2. r.choch \in Views
  BY WyckoffTyped
<1>3. PICK base \in Nat : base = 100 + 10 * n
  OBVIOUS
<1>4. AllSound(Wyckoff(r, 15, r.choch, r.gapAfterChoch, base))
  BY <1>2, WyckoffSound
<1>5. \A s \in Wyckoff(r, 15, r.choch, r.gapAfterChoch, base) : SoundSignal(Capped(r, s))
  BY <1>4, CappedSound DEF AllSound
<1>6. AllSound(VolumeLiquidityBot(r))
  BY <1>1, <1>3, <1>5 DEF VolumeLiquidityBot, AllSound
<1>7. AllSound(VolumeLiquidityWideRangeBot(r))
  BY <1>2, WyckoffSound DEF VolumeLiquidityWideRangeBot
<1>8. AllSound(VolumeLiquidityHeldReclaimBot(r))
  <2>1. PICK d \in Views : d = IF ~r.held THEN "none" ELSE IF r.spring.extreme > 0 THEN "long" ELSE "short"
    BY DEF Views, Directions
  <2> QED
    BY <2>1, WyckoffSound DEF VolumeLiquidityHeldReclaimBot
<1> QED
  BY <1>6, <1>7, <1>8

(* The sweeps into a block.                                                *)
Frames == [strong : Seq(QuotedBars), gaps : Seq(PriceZones)]
SmcZone(r) == FirstOf(r.blocks, Purged(r))
Closes(r, frame) == {i \in DOMAIN frame.strong : Holds(SmcZone(r), frame.strong[i].close)}
SmcEntry(r, d, frame, atEdge) ==
  LET k == FirstOf(frame.strong, Closes(r, frame))
  IN  CASE atEdge -> Edge(d, SmcZone(r))
        [] OnSide(frame.gaps, d) # {} /\ ~atEdge -> Middle(Deepest(frame.gaps, d))
        [] OTHER -> (k.open + k.close) \div 2
SmcStop(r, d, frame, e) ==
  LET k == FirstOf(frame.strong, Closes(r, frame))
  IN  Floored(d, e, Embedded(d, Away(d, r.sweep.price, (k.high - k.low) \div 5), SmcZone(r), 1),
              FloorOf(r.symbol))
Purges(r, d, frame) ==
  /\ d # "none" /\ r.sweep.side = d /\ Purged(r) # {}
  /\ ~WrongHalf(d, SmcZone(r), r.range) /\ Closes(r, frame) # {}

LEMMA SmcIs ==
  ASSUME NEW r, NEW d, NEW frame, NEW atEdge
  PROVE  Smc(r, d, frame, atEdge) =
           IF Purges(r, d, frame)
           THEN {SignalOf(d, SmcEntry(r, d, frame, atEdge),
                          SmcStop(r, d, frame, SmcEntry(r, d, frame, atEdge)), 50, 100, 130)}
           ELSE {}
BY DEF Smc, Purges, SmcStop, SmcEntry, Closes, SmcZone

LEMMA SmcSound ==
  ASSUME NEW r \in SmcShape, entry \in Entries, NEW d \in Views, NEW frame \in Frames, NEW atEdge \in BOOLEAN
  PROVE  /\ AllSound(Smc(r, d, frame, atEdge))
         /\ \A s \in Smc(r, d, frame, atEdge) : s.side = d
<1>1. CASE ~Purges(r, d, frame)
  BY <1>1, SmcIs DEF AllSound
<1>2. CASE Purges(r, d, frame)
  <2>1. d \in Directions /\ Closes(r, frame) # {} /\ Purged(r) # {}
    BY <1>2 DEF Purges, Views
  <2>2. r.blocks \in Seq(PriceZones) /\ r.sweep.price \in Int
    BY DEF SmcShape, Quotes
  <2>3. PICK z \in PriceZones : z = SmcZone(r)
    BY <2>1, <2>2, SidesInList, FirstIs DEF SmcZone, Purged
  <2>4. frame.strong \in Seq(QuotedBars) /\ frame.gaps \in Seq(PriceZones)
    BY DEF Frames
  <2>5. PICK k \in QuotedBars : k = FirstOf(frame.strong, Closes(r, frame))
    <3>1. Closes(r, frame) \in SUBSET DOMAIN frame.strong
      BY DEF Closes
    <3> QED
      BY <2>1, <2>4, <3>1, FirstIs
  <2>6. k.high \in Quotes /\ k.low \in Quotes /\ k.open \in Quotes /\ k.close \in Quotes
    BY <2>5 DEF QuotedBars
  <2>7. SmcEntry(r, d, frame, atEdge) \in Quotes
    <3>1. CASE atEdge
      BY <2>3, <3>1, ZoneQuotes DEF SmcEntry
    <3>2. CASE ~atEdge /\ OnSide(frame.gaps, d) # {}
      BY <2>4, <3>2, DeepestIs, ZoneQuotes DEF SmcEntry
    <3>3. CASE ~atEdge /\ OnSide(frame.gaps, d) = {}
      <4>1. SmcEntry(r, d, frame, atEdge) = (k.open + k.close) \div 2
        BY <2>5, <3>3 DEF SmcEntry
      <4> QED
        BY <2>6, <4>1 DEF Quotes, Tick
    <3> QED
      BY <3>1, <3>2, <3>3
  <2>8. PICK e \in Quotes : e = SmcEntry(r, d, frame, atEdge)
    BY <2>7
  <2>9. PICK behind \in Int : behind = Embedded(d, Away(d, r.sweep.price, (k.high - k.low) \div 5), z, 1)
    <3>1. (k.high - k.low) \div 5 \in Int
      BY <2>6 DEF Quotes
    <3>2. Away(d, r.sweep.price, (k.high - k.low) \div 5) \in Int
      BY <2>2, <3>1, AwayIsInt
    <3> QED
      BY <2>1, <3>2, EmbeddedIs
  <2>10. SmcStop(r, d, frame, e) = Floored(d, e, behind, FloorOf(r.symbol))
    BY <2>3, <2>5, <2>9 DEF SmcStop
  <2>11. Behind(d, e, SmcStop(r, d, frame, e))
    BY <2>1, <2>10, FloorsAre, FlooredBehind
  <2>12. PICK s : s = SignalOf(d, e, SmcStop(r, d, frame, e), 50, 100, 130)
    OBVIOUS
  <2>13. SoundSignal(s) /\ s.side = d
    BY <2>1, <2>11, <2>12, SignalIsSound
  <2> QED
    BY <1>2, <2>8, <2>12, <2>13, SmcIs DEF AllSound
<1> QED
  BY <1>1, <1>2

LEMMA SmcBotsSound ==
  ASSUME NEW r \in SmcShape, entry \in Entries
  PROVE  /\ AllSound(JeafxSMCBot(r)) /\ AllSound(JeafxSMCOneHourEntryBot(r))
         /\ AllSound(JeafxSMCHTFGatedBot(r)) /\ AllSound(JeafxSMCHTFGatedOneHourEntryBot(r))
         /\ AllSound(JeafxSMCv2Bot(r)) /\ AllSound(JeafxSMCv2OBPOIBot(r))
         /\ AllSound(JeafxSMCv2OneHourEntryBot(r))
         /\ AllSound(JeafxSMCv2SingleAnchorBot(r)) /\ AllSound(JeafxSMCv2SingleAnchorOneHourEntryBot(r))
<1>1. r.bos4 \in Views /\ r.bos1 \in Views /\ r.m5 \in Frames /\ r.h1 \in Frames
  BY DEF SmcShape, Frames
<1>2. AllSound({})
  BY DEF AllSound
<1>3. /\ AllSound(Smc(r, r.bos4, r.m5, FALSE)) /\ AllSound(Smc(r, r.bos4, r.h1, FALSE))
      /\ AllSound(Smc(r, r.bos1, r.m5, FALSE)) /\ AllSound(Smc(r, r.bos1, r.h1, FALSE))
      /\ AllSound(Smc(r, r.bos1, r.m5, TRUE))
  BY <1>1, SmcSound
<1>4. AllSound(JeafxSMCBot(r)) /\ AllSound(JeafxSMCOneHourEntryBot(r))
  BY <1>2, <1>3 DEF JeafxSMCBot, JeafxSMCOneHourEntryBot
<1>5. AllSound(JeafxSMCHTFGatedBot(r)) /\ AllSound(JeafxSMCHTFGatedOneHourEntryBot(r))
  BY <1>2, <1>4 DEF JeafxSMCHTFGatedBot, JeafxSMCHTFGatedOneHourEntryBot
<1>6. AllSound(JeafxSMCv2Bot(r)) /\ AllSound(JeafxSMCv2OBPOIBot(r)) /\ AllSound(JeafxSMCv2OneHourEntryBot(r))
  BY <1>2, <1>3 DEF JeafxSMCv2Bot, JeafxSMCv2OBPOIBot, JeafxSMCv2OneHourEntryBot
<1> QED
  BY <1>3, <1>4, <1>5, <1>6 DEF JeafxSMCv2SingleAnchorBot, JeafxSMCv2SingleAnchorOneHourEntryBot

(* A pass runs the strategies of the family of its reading.                *)
LEMMA FamilyOfShape ==
  ASSUME NEW r \in Readings
  PROVE  \/ r.family = "macro" /\ r \in MacroShape
         \/ r.family = "reversal" /\ r \in ReversalShape
         \/ r.family = "gaps" /\ r \in GapShape
         \/ r.family = "wyckoff" /\ r \in WyckoffShape
         \/ r.family = "smc" /\ r \in SmcShape
<1>1. r \in MacroShape => r.family = "macro"
  BY DEF MacroShape
<1>2. r \in ReversalShape => r.family = "reversal"
  BY DEF ReversalShape
<1>3. r \in GapShape => r.family = "gaps"
  BY DEF GapShape
<1>4. r \in WyckoffShape => r.family = "wyckoff"
  BY DEF WyckoffShape
<1>5. r \in SmcShape => r.family = "smc"
  BY DEF SmcShape
<1> QED
  BY <1>1, <1>2, <1>3, <1>4, <1>5, ReadingsAreQuotes

BotsOf(r) ==
  CASE r.family = "macro" -> {1} [] r.family = "reversal" -> {2, 11}
    [] r.family = "gaps" -> {3, 7, 13, 17} [] r.family = "wyckoff" -> {4, 9, 10}
    [] r.family = "smc" -> {5, 6, 8, 14, 18, 19, 20, 21, 22}

LEMMA AnalyzeSound ==
  ASSUME NEW r \in Readings, entry \in Entries, NEW b \in BotsOf(r)
  PROVE  AllSound(Analyze(b, r))
<1>1. CASE r.family = "macro" /\ r \in MacroShape
  <2>1. b = 1
    BY <1>1 DEF BotsOf
  <2> QED
    BY <1>1, <2>1, MacroSound DEF Analyze
<1>2. CASE r.family = "reversal" /\ r \in ReversalShape
  <2>1. b = 2 \/ b = 11
    BY <1>2 DEF BotsOf
  <2>2. AllSound(OrderBlockReversalBot(r))
    <3>1. FloorOf(r.symbol) \in Nat /\ FloorOf(r.symbol) >= 15
      BY FloorsAre
    <3> QED
      BY <1>2, <3>1, ReversalSound DEF OrderBlockReversalBot
  <2>3. AllSound(OrderBlockReversalWiderStopBot(r))
    BY <1>2, ReversalSound DEF OrderBlockReversalWiderStopBot
  <2> QED
    BY <2>1, <2>2, <2>3 DEF Analyze
<1>3. CASE r.family = "gaps" /\ r \in GapShape
  <2>1. b \in {3, 7, 13, 17}
    BY <1>3 DEF BotsOf
  <2> QED
    BY <1>3, <2>1, GapBotsSound DEF Analyze
<1>4. CASE r.family = "wyckoff" /\ r \in WyckoffShape
  <2>1. b \in {4, 9, 10}
    BY <1>4 DEF BotsOf
  <2> QED
    BY <1>4, <2>1, VolumeBotsSound DEF Analyze
<1>5. CASE r.family = "smc" /\ r \in SmcShape
  <2>1. b \in {5, 6, 8, 14, 18, 19, 20, 21, 22}
    BY <1>5 DEF BotsOf
  <2> QED
    BY <1>5, <2>1, SmcBotsSound DEF Analyze
<1> QED
  BY <1>1, <1>2, <1>3, <1>4, <1>5, FamilyOfShape

-----------------------------------------------------------------------------
(* The wider stop is no nearer than the original's, the wider range sees   *)
(* the same block.                                                         *)
LEMMA FurtherIsWider ==
  ASSUME NEW d \in Directions, NEW e \in Quotes, NEW s, NEW t, Behind(d, e, s), Behind(d, e, t),
         Further(d, t, s)
  PROVE  Gapped(e, s) <= Gapped(e, t)
<1>1. PICK m \in Nat : m = FloorAt(e, PlatformFloor)
  BY FloorGrows DEF PlatformFloor
<1> QED
  BY <1>1 DEF Behind, Further, Away, Directions, Quotes, Gapped

LEMMA FlooredWidens ==
  ASSUME NEW d \in Directions, NEW e \in Quotes, NEW x \in Int, NEW y \in Int, Further(d, y, x),
         NEW p \in Nat, NEW q \in Nat, p <= q, p >= 15
  PROVE  Further(d, Floored(d, e, y, q), Floored(d, e, x, p))
<1>1. PICK m \in Nat, n \in Nat : m = FloorAt(e, p) /\ n = FloorAt(e, q) /\ m <= n
  BY FloorGrows
<1>2. PICK f \in Int : f = Floored(d, e, x, p) /\ f \in {x, Away(d, e, m)}
  BY <1>1, FlooredIs
<1>3. PICK g \in Int : g = Floored(d, e, y, q) /\ Further(d, g, y) /\ Further(d, g, Away(d, e, n))
  BY <1>1, FlooredIs
<1>4. Further(d, g, f)
  BY <1>1, <1>2, <1>3 DEF Further, Away, Directions, Quotes
<1> QED
  BY <1>2, <1>3, <1>4

LEMMA ReversalWider ==
  ASSUME NEW r \in ReversalShape, Reverses(r)
  PROVE  Further(r.choch, ReversalStop(r, 3, 35), ReversalStop(r, 1, FloorOf(r.symbol)))
<1> DEFINE d == r.choch
           e == ReversalEntry(r)
           z == ReversalZone(r)
           swept == Away(d, r.sweep, (r.sweep \div 10000) * 5)
           swung == SwingStop(d, e, r.swing)
<1>1. d \in Directions /\ z \in PriceZones /\ e \in Quotes
  BY ReversesOn
<1>2. r.sweep \in Nat /\ r.swing \in Quotes
  BY DEF ReversalShape
<1>3. swept \in Int /\ swung \in Int
  <2>1. (r.sweep \div 10000) * 5 \in Int
    BY <1>2
  <2> QED
    BY <1>1, <1>2, <2>1, AwayIsInt, SwingBehind
<1>4. PICK fl \in Nat : fl = FloorOf(r.symbol) /\ fl >= 15 /\ fl <= 35
  BY FloorsAre
<1> HIDE DEF d, e, z, swept, swung
<1>5. PICK x1 \in Int, x3 \in Int : /\ x1 = Embedded(d, swept, z, 1) /\ x3 = Embedded(d, swept, z, 3)
                                    /\ Further(d, x3, x1)
  BY <1>1, <1>3, EmbeddedIs
<1>6. PICK y1 \in Int, y3 \in Int : /\ y1 = Embedded(d, swung, z, 1) /\ y3 = Embedded(d, swung, z, 3)
                                    /\ Further(d, y3, y1)
  BY <1>1, <1>3, EmbeddedIs
<1>7. Further(d, Floored(d, e, x3, 35), Floored(d, e, x1, fl))
  BY <1>1, <1>4, <1>5, FlooredWidens
<1>8. Further(d, Floored(d, e, y3, 35), y1)
  <2>1. Floored(d, e, y3, 35) \in Int /\ Further(d, Floored(d, e, y3, 35), y3)
    BY <1>1, <1>6, FlooredIs
  <2> QED
    BY <1>6, <2>1 DEF Further
<1>9. CASE r.sweep > 0
  <2>1. ReversalStop(r, 3, 35) = Floored(d, e, x3, 35) /\ ReversalStop(r, 1, fl) = Floored(d, e, x1, fl)
    BY <1>5, <1>9 DEF ReversalStop, d, e, z, swept
  <2> QED
    BY <1>4, <1>7, <2>1 DEF d
<1>10. CASE ~(r.sweep > 0)
  <2>1. ReversalStop(r, 3, 35) = Floored(d, e, y3, 35) /\ ReversalStop(r, 1, fl) = y1
    BY <1>6, <1>10 DEF ReversalStop, d, e, z, swung
  <2> QED
    BY <1>4, <1>8, <2>1 DEF d
<1> QED
  BY <1>9, <1>10

LEMMA ReversalsDiffer ==
  ASSUME NEW r \in ReversalShape, entry \in Entries
  PROVE  /\ Levels(OrderBlockReversalBot(r)) = Levels(OrderBlockReversalWiderStopBot(r))
         /\ \A s \in OrderBlockReversalBot(r), t \in OrderBlockReversalWiderStopBot(r) :
              Gapped(s.entry, s.stop) <= Gapped(t.entry, t.stop)
<1>1. CASE ~Reverses(r)
  BY <1>1, ReversalIs DEF OrderBlockReversalBot, OrderBlockReversalWiderStopBot, Levels
<1>2. CASE Reverses(r)
  <2>1. PICK d \in Directions, e \in Quotes : d = r.choch /\ e = ReversalEntry(r)
    BY <1>2, ReversesOn
  <2>2. PICK fl \in Nat : fl = FloorOf(r.symbol) /\ fl >= 15
    BY FloorsAre
  <2>3. PICK x, y : x = ReversalStop(r, 1, fl) /\ y = ReversalStop(r, 3, 35)
    OBVIOUS
  <2>4. Behind(d, e, x) /\ Behind(d, e, y)
    BY <1>2, <2>1, <2>2, <2>3, ReversalStopBehind
  <2>5. Gapped(e, x) <= Gapped(e, y)
    BY <1>2, <2>1, <2>2, <2>3, <2>4, ReversalWider, FurtherIsWider
  <2>6. PICK s : s = SignalOf(d, e, x, 30, 100, 110)
    OBVIOUS
  <2>7. PICK t : t = SignalOf(d, e, y, 30, 100, 110)
    OBVIOUS
  <2>8. s.side = d /\ s.entry = e /\ s.stop = x /\ t.side = d /\ t.entry = e /\ t.stop = y
    BY <2>1, <2>4, <2>6, <2>7, SignalIsSound
  <2>9. OrderBlockReversalBot(r) = {s} /\ OrderBlockReversalWiderStopBot(r) = {t}
    BY <1>2, <2>1, <2>2, <2>3, <2>6, <2>7, ReversalIs DEF OrderBlockReversalBot, OrderBlockReversalWiderStopBot
  <2> QED
    BY <2>5, <2>8, <2>9 DEF Levels
<1> QED
  BY <1>1, <1>2

LEMMA SameEnd ==
  ASSUME NEW r \in WyckoffShape, Near(r, r.high, 15) \/ Near(r, r.low, 15)
  PROVE  /\ Near(r, r.high, 25) \/ Near(r, r.low, 25)
         /\ Poi(r, 15) = Poi(r, 25)
<1>1. PICK h \in Nat, l \in Nat, c \in Nat : h = r.high /\ l = r.low /\ c = r.close /\ l < h
  BY WyckoffTyped DEF Quotes
<1>2. PICK w \in Nat : w = (h - l) \div 100 /\ 100 * w <= h - l
  BY <1>1
<1>3. /\ Near(r, r.high, 15) <=> Gapped(c, h) < w * 15
      /\ Near(r, r.low, 15) <=> Gapped(c, l) < w * 15
      /\ Near(r, r.high, 25) <=> Gapped(c, h) < w * 25
      /\ Near(r, r.low, 25) <=> Gapped(c, l) < w * 25
  BY <1>1, <1>2 DEF Near
<1>4. /\ Near(r, r.high, 25) \/ Near(r, r.low, 25)
      /\ Near(r, r.high, 15) <=> Near(r, r.high, 25)
  BY <1>1, <1>2, <1>3 DEF Gapped
<1> QED
  BY <1>4 DEF Poi

LEMMA RangesDiffer ==
  ASSUME NEW r \in WyckoffShape, entry \in Entries
  PROVE  Levels(VolumeLiquidityBot(r)) \subseteq Levels(VolumeLiquidityWideRangeBot(r))
<1> DEFINE d == r.choch
           gap == r.gapAfterChoch
           base == 100 + 10 * Confluences(r, d, Poi(r, 15), gap)
<1>1. SUFFICES ASSUME BreaksOut(r, 15, d, gap), d # "none"
               PROVE  Levels(VolumeLiquidityBot(r)) \subseteq Levels(VolumeLiquidityWideRangeBot(r))
  <2>1. ASSUME ~(BreaksOut(r, 15, d, gap) /\ d # "none") PROVE VolumeLiquidityBot(r) = {}
    BY <2>1, WyckoffIs DEF VolumeLiquidityBot
  <2> QED
    BY <2>1 DEF Levels
<1>2. d \in Directions /\ Sweep(r, d).extreme > 0
  BY <1>1, WyckoffTyped DEF BreaksOut, Views
<1>3. BreaksOut(r, 25, d, gap)
  BY <1>1, SameEnd DEF BreaksOut
<1>4. PICK s : s = SignalOf(d, Sweep(r, d).close, WyckoffStop(r, 15, d), 30, 100, base)
  OBVIOUS
<1>5. PICK t : t = SignalOf(d, Sweep(r, d).close, WyckoffStop(r, 25, d), 30, 100, 100)
  OBVIOUS
<1>6. VolumeLiquidityBot(r) = {Capped(r, s)} /\ VolumeLiquidityWideRangeBot(r) = {t}
  BY <1>1, <1>3, <1>4, <1>5, WyckoffIs DEF VolumeLiquidityBot, VolumeLiquidityWideRangeBot
<1>7. s.side = d /\ s.entry = Sweep(r, d).close /\ t.side = d /\ t.entry = Sweep(r, d).close
  BY <1>4, <1>5 DEF SignalOf
<1>8. Capped(r, s).side = s.side /\ Capped(r, s).entry = s.entry
  <2>1. s.side = d /\ DOMAIN s = {"side", "entry", "stop", "risk", "targets", "lots"}
    BY <1>4 DEF SignalOf
  <2> QED
    BY <2>1 DEF Capped
<1> QED
  BY <1>6, <1>7, <1>8 DEF Levels

LEMMA SweepsDiffer ==
  ASSUME NEW r \in SmcShape, entry \in Entries
  PROVE  {s.side : s \in JeafxSMCv2OBPOIBot(r)} = {s.side : s \in JeafxSMCv2Bot(r)}
<1>1. CASE ~(AtLeastOne(r, r.bos1) /\ Purges(r, r.bos1, r.m5))
  <2>1. JeafxSMCv2OBPOIBot(r) = {} /\ JeafxSMCv2Bot(r) = {}
    BY <1>1, SmcIs DEF JeafxSMCv2OBPOIBot, JeafxSMCv2Bot
  <2> QED
    BY <2>1
<1>2. CASE AtLeastOne(r, r.bos1) /\ Purges(r, r.bos1, r.m5)
  <2>1. r.bos1 \in Views /\ r.m5 \in Frames
    BY DEF SmcShape, Frames
  <2>2. /\ \A s \in JeafxSMCv2OBPOIBot(r) : s.side = r.bos1
        /\ \A s \in JeafxSMCv2Bot(r) : s.side = r.bos1
    BY <1>2, <2>1, SmcSound DEF JeafxSMCv2OBPOIBot, JeafxSMCv2Bot
  <2>3. JeafxSMCv2OBPOIBot(r) # {} /\ JeafxSMCv2Bot(r) # {}
    BY <1>2, SmcIs DEF JeafxSMCv2OBPOIBot, JeafxSMCv2Bot
  <2> QED
    BY <2>2, <2>3
<1> QED
  BY <1>1, <1>2

LEMMA VariantsKeep == ASSUME reading \in Readings, entry \in Entries PROVE VariantsChangeOneThing
<1>1. CASE reading.family = "macro"
  BY <1>1 DEF VariantsChangeOneThing
<1>2. CASE reading.family = "reversal" /\ reading \in ReversalShape
  BY <1>2, ReversalsDiffer DEF VariantsChangeOneThing
<1>3. CASE reading.family = "gaps"
  BY <1>3 DEF VariantsChangeOneThing, FVGExpansionHTFGatedBot
<1>4. CASE reading.family = "wyckoff" /\ reading \in WyckoffShape
  BY <1>4, RangesDiffer DEF VariantsChangeOneThing
<1>5. CASE reading.family = "smc" /\ reading \in SmcShape
  <2>1. /\ JeafxSMCHTFGatedBot(reading) \subseteq JeafxSMCBot(reading)
        /\ JeafxSMCHTFGatedOneHourEntryBot(reading) \subseteq JeafxSMCOneHourEntryBot(reading)
        /\ JeafxSMCv2Bot(reading) \subseteq JeafxSMCv2SingleAnchorBot(reading)
        /\ JeafxSMCv2OneHourEntryBot(reading) \subseteq JeafxSMCv2SingleAnchorOneHourEntryBot(reading)
    BY DEF JeafxSMCHTFGatedBot, JeafxSMCHTFGatedOneHourEntryBot, JeafxSMCv2Bot,
           JeafxSMCv2SingleAnchorBot, JeafxSMCv2OneHourEntryBot, JeafxSMCv2SingleAnchorOneHourEntryBot
  <2> QED
    BY <1>5, <2>1, SweepsDiffer DEF VariantsChangeOneThing
<1> QED
  BY <1>1, <1>2, <1>3, <1>4, <1>5, FamilyOfShape

-----------------------------------------------------------------------------
(* What the quotient of a division is.                                     *)
LEMMA QuotientIs ==
  ASSUME NEW b \in Nat, NEW g \in Nat, g > 0, NEW k \in Nat, k * g <= b, b < k * g + g
  PROVE  b \div g = k
<1>1. PICK q \in Nat : q = b \div g /\ q * g <= b /\ b < q * g + g
  OBVIOUS
<1>2. ~(q < k)
  <2> SUFFICES ASSUME q + 1 <= k PROVE FALSE
    OBVIOUS
  <2>1. (q + 1) * g <= k * g /\ (q + 1) * g = q * g + g
    OBVIOUS
  <2> QED
    BY <1>1, <2>1
<1>3. ~(k < q)
  <2> SUFFICES ASSUME k + 1 <= q PROVE FALSE
    OBVIOUS
  <2>1. (k + 1) * g <= q * g /\ (k + 1) * g = k * g + g
    OBVIOUS
  <2> QED
    BY <1>1, <2>1
<1> QED
  BY <1>1, <1>2, <1>3

(* A fill.  The third target is drawn again at the ratio read back from    *)
(* the levels, which is the one it was drawn with where the stop stayed.   *)
LEMMA ReadBack ==
  ASSUME NEW g \in Nat, g > 0, NEW x \in Nat, NEW y \in Nat, x = y + g, NEW h \in Nat, h = 2 * g
  PROVE  (200 * y) \div h + 100 = (100 * x) \div g
<1>1. PICK a \in Nat, b \in Nat, c \in Nat : a = 100 * y /\ b = 200 * y /\ c = 100 * x
  OBVIOUS
<1>2. PICK k \in Nat : k = a \div g /\ k * g <= a /\ a < k * g + g
  OBVIOUS
<1>3. PICK z \in Nat : z = k * g
  OBVIOUS
<1>4. b \div h = k
  <2>1. k * h = 2 * z
    BY <1>3
  <2>2. k * h <= b /\ b < k * h + h
    BY <1>1, <1>2, <1>3, <2>1
  <2> QED
    BY <2>2, QuotientIs
<1>5. c \div g = k + 100
  <2>1. PICK m \in Nat : m = k + 100
    OBVIOUS
  <2>2. m * g = z + 100 * g
    BY <1>3, <2>1
  <2>3. m * g <= c /\ c < m * g + g
    BY <1>1, <1>2, <1>3, <2>2
  <2> QED
    BY <2>1, <2>3, QuotientIs
<1> QED
  BY <1>1, <1>4, <1>5

(* Drawn in hundredths and read in hundredths: two of them are lost at most. *)
LEMMA DrawnAgain ==
  ASSUME NEW g \in Nat, g >= 60, NEW rr \in Nat
  PROVE  /\ (100 * ((g * rr) \div 100)) \div g \in Nat
         /\ (100 * ((g * rr) \div 100)) \div g <= rr
         /\ rr <= (100 * ((g * rr) \div 100)) \div g + 2
<1>1. PICK a \in Nat : a = g * rr
  OBVIOUS
<1>2. PICK b \in Nat : b = 100 * (a \div 100) /\ b <= a /\ a < b + 100
  OBVIOUS
<1>3. PICK v \in Nat : v = b \div g /\ v * g <= b /\ b < v * g + g
  OBVIOUS
<1>4. v <= rr
  <2> SUFFICES ASSUME rr + 1 <= v PROVE FALSE
    OBVIOUS
  <2>1. (rr + 1) * g <= v * g /\ (rr + 1) * g = a + g
    BY <1>1
  <2> QED
    BY <1>2, <1>3, <2>1
<1>5. rr <= v + 2
  <2> SUFFICES ASSUME v + 3 <= rr PROVE FALSE
    OBVIOUS
  <2>1. (v + 3) * g <= rr * g /\ rr * g = a /\ (v + 3) * g = v * g + 3 * g
    BY <1>1
  <2>2. PICK z \in Nat : z = v * g
    OBVIOUS
  <2> QED
    BY <1>2, <1>3, <2>1, <2>2
<1> QED
  BY <1>1, <1>2, <1>3, <1>4, <1>5

LEMMA FillKeeps ==
  ASSUME NEW s, SoundSignal(s), NEW p \in Quotes
  PROVE  RiskKept(s, Resized(s, p)) /\ LadderKept(s, Resized(s, p))
<1>1. /\ s.side \in Directions /\ s.entry \in Quotes /\ s.stop \in Int /\ s.lots \in Nat
      /\ s.targets.tp1 \in Int /\ s.targets.tp3 \in Int /\ s \in SignalShape
  BY DEF SoundSignal, SignalShape
<1>2. PICK d \in Directions, e \in Quotes, u \in Int, l \in Nat, t1 \in Int, t3 \in Int :
        d = s.side /\ e = s.entry /\ u = s.stop /\ l = s.lots /\ t1 = s.targets.tp1 /\ t3 = s.targets.tp3
  BY <1>1
<1>3. PICK g \in Nat : g = Gapped(e, u) /\ g >= 60 /\ u = Away(d, e, g)
  BY <1>2, BehindIs DEF SoundSignal
<1>4. t1 = Away(d, e, -g) /\ Ahead(d, e, t3)
  BY <1>2, <1>3 DEF SoundSignal
<1>5. PICK stop \in Int : /\ stop = StopAt(s, p) /\ Behind(d, p, stop) /\ Further(d, stop, u)
  <2>1. FloorOf(reading.symbol) \in Nat /\ FloorOf(reading.symbol) >= 15
    BY FloorsAre
  <2> QED
    BY <1>2, <2>1, FlooredIs, FlooredBehind DEF StopAt
<1>6. PICK r \in Nat : /\ r = Gapped(p, stop) /\ r >= 60 /\ r >= FloorAt(p, PlatformFloor)
                       /\ ~WrongSide(d, p, stop)
  BY <1>5, BehindIs
<1>7. e \in Int /\ p \in Int
  BY DEF Quotes
<1>8. PICK x \in Nat : x = Gapped(t3, e) /\ t3 = Away(d, e, -x) /\ x > 0
  <2>1. Gapped(t3, e) \in Nat /\ t3 = Away(d, e, -Gapped(t3, e)) /\ Gapped(t3, e) > 0
    BY <1>4, <1>7 DEF Ahead, WrongSide, Gapped, Away, Directions
  <2> QED
    BY <2>1
<1>9. PICK y \in Nat : y = Gapped(t1, stop) /\ y > 0
  BY <1>3, <1>4, <1>5, <1>7 DEF Further, Gapped, Away, Directions
<1>10. PICK rr \in Nat : rr = LadderOf(s, stop) /\ rr >= 100
  <2>1. PICK w \in Nat : w = 200 * Gapped(t3, t1)
    BY DEF Gapped
  <2>2. w \div y \in Nat
    BY <1>9
  <2>3. LadderOf(s, stop) = w \div y + 100
    BY <1>2, <1>9, <2>1 DEF LadderOf
  <2> QED
    BY <2>2, <2>3
<1>11. PICK q \in Nat : q = (r * rr) \div 100 /\ q >= r
  <2>1. PICK a \in Nat : a = r * rr /\ a >= 100 * r
    <3>1. r * rr \in Nat /\ r * rr >= r * 100
      BY <1>10
    <3> QED
      BY <3>1
  <2> QED
    BY <2>1
<1>12. PICK n \in Nat : n = l * g
  OBVIOUS
<1>13. PICK m \in Nat : m = n \div r /\ m * r <= n
  BY <1>6
<1>14. PICK k \in Nat : k = Least(l, m) /\ k <= l /\ k <= m
  BY DEF Least
<1>15. k * r <= n
  <2>1. k * r <= m * r /\ k * r \in Nat /\ m * r \in Nat
    BY <1>14
  <2> QED
    BY <1>13, <2>1
<1>16. PICK t : t = Resized(s, p)
  OBVIOUS
<1>17. t = [s EXCEPT !.entry = p, !.stop = stop,
              !.targets = [tp1 |-> Away(d, p, -r), tp2 |-> Away(d, p, -2 * r), tp3 |-> Away(d, p, -q)],
              !.lots = k]
  BY <1>2, <1>3, <1>5, <1>6, <1>10, <1>11, <1>12, <1>13, <1>14, <1>16 DEF Resized, Refilled, LotsWithin
<1>18. /\ t.side = d /\ t.entry = p /\ t.stop = stop /\ t.lots = k
       /\ t.targets.tp1 = Away(d, p, -r) /\ t.targets.tp2 = Away(d, p, -2 * r) /\ t.targets.tp3 = Away(d, p, -q)
  BY <1>1, <1>2, <1>17 DEF SignalShape
<1>19. RiskKept(s, t)
  <2>1. \A z \in Nat : z > 0 => Ahead(d, p, Away(d, p, -z))
    BY <1>7 DEF Ahead, Away, WrongSide, Directions
  <2>2. PICK r2 \in Nat : r2 = 2 * r /\ -2 * r = -r2 /\ r2 > 0
    BY <1>6
  <2>3. /\ Ahead(d, p, Away(d, p, -r)) /\ Ahead(d, p, Away(d, p, -2 * r)) /\ Ahead(d, p, Away(d, p, -q))
    BY <1>6, <1>11, <2>1, <2>2
  <2>4. \A z \in {t.targets.tp1, t.targets.tp2, t.targets.tp3} : z # t.entry /\ WrongSide(t.side, t.entry, z)
    BY <1>18, <2>3 DEF Ahead
  <2>5. t.lots * Gapped(t.entry, t.stop) <= s.lots * Gapped(s.entry, s.stop)
    BY <1>2, <1>3, <1>6, <1>12, <1>15, <1>18
  <2>6. Gapped(t.entry, t.stop) >= (t.entry \div 10000) * PlatformFloor
    BY <1>6, <1>18 DEF FloorAt
  <2>7. ~WrongSide(t.side, t.entry, t.stop) /\ t.lots <= s.lots
    BY <1>2, <1>6, <1>14, <1>18
  <2> QED
    BY <2>4, <2>5, <2>6, <2>7 DEF RiskKept
<1>20. LadderKept(s, t)
  <2>1. SUFFICES ASSUME stop = u, ~(x < g) PROVE Gapped(RatioOf(s), RatioOf(t)) <= 2
    <3>1. Gapped(s.targets.tp3, s.entry) = x
      BY <1>2, <1>8
    <3>2. Gapped(s.targets.tp1, s.entry) = g
      BY <1>2, <1>4, <1>7 DEF Gapped, Away, Directions
    <3> QED
      BY <1>2, <1>18, <2>1, <3>1, <3>2 DEF LadderKept
  <2>2. RatioOf(s) = (100 * x) \div g
    BY <1>2, <1>3, <1>8 DEF RatioOf
  <2>3. Gapped(t3, t1) = x - g /\ y = 2 * g
    BY <1>3, <1>4, <1>7, <1>8, <1>9, <2>1 DEF Gapped, Away, Directions
  <2>4. PICK w \in Nat, h \in Nat : x = w + g /\ h = 2 * g /\ h = y /\ Gapped(t3, t1) = w
    BY <2>1, <2>3
  <2>5. RatioOf(s) = rr
    <3>1. LadderOf(s, stop) = (200 * Gapped(t3, t1)) \div Gapped(t1, stop) + 100
      BY <1>2 DEF LadderOf
    <3>2. rr = (200 * w) \div h + 100
      BY <1>9, <1>10, <2>4, <3>1
    <3>3. (200 * w) \div h + 100 = (100 * x) \div g
      <4>1. g > 0
        BY <1>3
      <4>2. x = w + g
        BY <2>4
      <4>3. h = 2 * g
        BY <2>4
      <4> QED
        BY <4>1, <4>2, <4>3, ReadBack
    <3> QED
      BY <2>2, <3>2, <3>3
  <2>6. RatioOf(t) = (100 * ((r * rr) \div 100)) \div r
    <3>1. Gapped(Away(d, p, -q), p) = q
      BY <1>7 DEF Gapped, Away, Directions
    <3> QED
      BY <1>6, <1>11, <1>18, <3>1 DEF RatioOf
  <2>7. PICK v \in Nat : v = RatioOf(t) /\ v <= rr /\ rr <= v + 2
    BY <1>6, <2>6, DrawnAgain
  <2> QED
    BY <2>5, <2>7 DEF Gapped
<1> QED
  BY <1>16, <1>19, <1>20

-----------------------------------------------------------------------------
(* The pass collects what keeps the rules, and its check refuses nothing.  *)
PassSound ==
  /\ reading \in Readings /\ entry \in Entries
  /\ left \in Seq(BotsOf(reading))
  /\ refused = {}
  /\ \A x \in signals : SoundSignal(x.signal)

LEMMA PassStarts == StratInit => PassSound
<1> SUFFICES ASSUME StratInit PROVE PassSound
  OBVIOUS
<1>1. reading \in Readings /\ entry \in Entries /\ refused = {} /\ signals = {}
  BY DEF StratInit
<1>2. left \in Seq(BotsOf(reading))
  <2>1. left = Family[reading.family]
    BY DEF StratInit
  <2>2. PICK f : f = reading.family
    OBVIOUS
  <2>3. f \in {"macro", "reversal", "gaps", "wyckoff", "smc"}
    BY <1>1, <2>2, FamilyOfShape
  <2>4. CASE f = "macro"
    <3>1. left = <<1>>
      BY <2>1, <2>2, <2>4 DEF Family
    <3>2. BotsOf(reading) = {1}
      BY <2>2, <2>4 DEF BotsOf
    <3>3. <<1>> \in Seq({1})
      OBVIOUS
    <3> QED
      BY <3>1, <3>2, <3>3
  <2>5. CASE f = "reversal"
    <3>1. left = <<2, 11>>
      BY <2>1, <2>2, <2>5 DEF Family
    <3>2. BotsOf(reading) = {2, 11}
      BY <2>2, <2>5 DEF BotsOf
    <3>3. <<2, 11>> \in Seq({2, 11})
      OBVIOUS
    <3> QED
      BY <3>1, <3>2, <3>3
  <2>6. CASE f = "gaps"
    <3>1. left = <<3, 7, 13, 17>>
      BY <2>1, <2>2, <2>6 DEF Family
    <3>2. BotsOf(reading) = {3, 7, 13, 17}
      BY <2>2, <2>6 DEF BotsOf
    <3>3. <<3, 7, 13, 17>> \in Seq({3, 7, 13, 17})
      OBVIOUS
    <3> QED
      BY <3>1, <3>2, <3>3
  <2>7. CASE f = "wyckoff"
    <3>1. left = <<4, 9, 10>>
      BY <2>1, <2>2, <2>7 DEF Family
    <3>2. BotsOf(reading) = {4, 9, 10}
      BY <2>2, <2>7 DEF BotsOf
    <3>3. <<4, 9, 10>> \in Seq({4, 9, 10})
      OBVIOUS
    <3> QED
      BY <3>1, <3>2, <3>3
  <2>8. CASE f = "smc"
    <3>1. left = <<5, 6, 8, 14, 18, 19, 20, 21, 22>>
      BY <2>1, <2>2, <2>8 DEF Family
    <3>2. BotsOf(reading) = {5, 6, 8, 14, 18, 19, 20, 21, 22}
      BY <2>2, <2>8 DEF BotsOf
    <3>3. <<5, 6, 8, 14, 18, 19, 20, 21, 22>> \in Seq({5, 6, 8, 14, 18, 19, 20, 21, 22})
      OBVIOUS
    <3> QED
      BY <3>1, <3>2, <3>3
  <2> QED
    BY <2>3, <2>4, <2>5, <2>6, <2>7, <2>8
<1> QED
  BY <1>1, <1>2 DEF PassSound

LEMMA PassSteps == PassSound /\ [StratNext]_stratVars => PassSound'
<1> SUFFICES ASSUME PassSound, [StratNext]_stratVars PROVE PassSound'
  OBVIOUS
<1>1. CASE RunFamily
  <2>1. /\ left # <<>> /\ left' = Tail(left) /\ reading' = reading /\ entry' = entry
        /\ signals' = signals \cup {Taken(left[1], s) : s \in {x \in Analyze(left[1], reading) : RiskIsValid(x)}}
        /\ refused' = refused \cup {Taken(left[1], s) : s \in {x \in Analyze(left[1], reading) : ~RiskIsValid(x)}}
    BY <1>1 DEF RunFamily
  <2>2. PICK S : S = Analyze(left[1], reading)
    OBVIOUS
  <2>3. left[1] \in BotsOf(reading) /\ left' \in Seq(BotsOf(reading))
    BY <2>1 DEF PassSound
  <2>4. \A s \in S : SoundSignal(s) /\ RiskIsValid(s)
    BY <2>2, <2>3, AnalyzeSound DEF PassSound, AllSound, SoundSignal
  <2>5. refused' = {}
    BY <2>1, <2>2, <2>4 DEF PassSound
  <2>6. \A x \in signals' : SoundSignal(x.signal)
    BY <2>1, <2>2, <2>4 DEF PassSound, Taken
  <2>7. BotsOf(reading)' = BotsOf(reading)
    BY <2>1 DEF BotsOf
  <2> QED
    BY <2>1, <2>3, <2>5, <2>6, <2>7 DEF PassSound
<1>2. CASE AnalyzeRaises
  <2>1. left' \in Seq(BotsOf(reading)) /\ reading' = reading /\ entry' = entry /\ signals' = signals /\ refused' = refused
    BY <1>2 DEF AnalyzeRaises, PassSound
  <2>2. BotsOf(reading)' = BotsOf(reading)
    BY <2>1 DEF BotsOf
  <2> QED
    BY <2>1, <2>2 DEF PassSound
<1>3. CASE UNCHANGED stratVars
  <2>1. left' = left /\ reading' = reading /\ entry' = entry /\ signals' = signals /\ refused' = refused
    BY <1>3 DEF stratVars
  <2>2. BotsOf(reading)' = BotsOf(reading)
    BY <2>1 DEF BotsOf
  <2> QED
    BY <2>1, <2>2 DEF PassSound
<1> QED
  BY <1>1, <1>2, <1>3 DEF StratNext

LEMMA PassIsSound == PassSound => SignalsSound
<1> SUFFICES ASSUME PassSound PROVE SignalsSound
  OBVIOUS
<1>1. SignalsAreSound
  <2>1. ASSUME NEW x \in signals
        PROVE  LET s == x.signal IN
               /\ ~WrongSide(s.side, s.entry, s.stop)
               /\ Gapped(s.entry, s.stop) >= (s.entry \div 10000) * PlatformFloor
               /\ s.risk <= 300
               /\ \A t \in {s.targets.tp1, s.targets.tp2, s.targets.tp3} :
                    t # s.entry /\ WrongSide(s.side, s.entry, t)
    <3>1. PICK s : s = x.signal /\ SoundSignal(s)
      BY DEF PassSound
    <3>2. PICK d \in Directions, e \in Quotes, u \in Int : d = s.side /\ e = s.entry /\ u = s.stop /\ Behind(d, e, u)
      BY <3>1 DEF SoundSignal, SignalShape, Behind
    <3>3. PICK g \in Nat : g = Gapped(e, u) /\ g >= 60 /\ g >= (e \div 10000) * PlatformFloor /\ ~WrongSide(d, e, u)
      BY <3>2, BehindIs DEF FloorAt
    <3>4. e \in Int
      BY DEF Quotes
    <3>5. Ahead(d, e, Away(d, e, -g)) /\ Ahead(d, e, Away(d, e, -2 * g))
      BY <3>3, <3>4 DEF Ahead, Away, WrongSide, Directions
    <3>6. Ahead(d, e, s.targets.tp1) /\ Ahead(d, e, s.targets.tp2) /\ Ahead(d, e, s.targets.tp3) /\ s.risk <= 300
      BY <3>1, <3>2, <3>3, <3>5 DEF SoundSignal
    <3> QED
      BY <3>1, <3>2, <3>3, <3>6 DEF Ahead
  <2> QED
    BY <2>1 DEF SignalsAreSound, PassSound
<1>2. VariantsChangeOneThing
  BY VariantsKeep DEF PassSound
<1>3. FillsAreSound
  <2>1. \A x \in signals : \A p \in Fills(x.signal) : p \in Quotes /\ SoundSignal(x.signal)
    BY DEF PassSound, Fills
  <2>2. \A x \in signals : \A p \in Fills(x.signal) :
          RiskKept(x.signal, Resized(x.signal, p)) /\ LadderKept(x.signal, Resized(x.signal, p))
    BY <2>1, FillKeeps
  <2> QED
    BY <2>2 DEF FillsAreSound
<1> QED
  BY <1>1, <1>2, <1>3 DEF SignalsSound

(* Whatever the detectors report and the settings ask for, what the pass   *)
(* over the strategies signals has its stop at the platform's floor or     *)
(* beyond, behind its entry, its targets ahead of it and its risk within   *)
(* the caps, and so has the trade wherever its order fills; the variants   *)
(* differ from their originals as their docstrings say.                    *)
THEOREM SignallingSound == StratSpec => []SignalsSound
<1>1. PassSound => SignalsSound
  BY PassIsSound
<1> QED
  BY PassStarts, PassSteps, <1>1, PTL DEF StratSpec
==============================================================================
