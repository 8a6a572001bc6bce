----------------------------- MODULE FoldLemmas -----------------------------
(***************************************************************************)
(* Induction on finite sets, and what follows for the folds of the         *)
(* community modules: recursion over a set, and sums.  The induction       *)
(* hypothesis is a set of arguments, not an operator.                      *)
(***************************************************************************)
EXTENDS Integers, FiniteSets, FiniteSetsExt, Functions, FiniteSetTheorems, WellFoundedInduction, TLAPS

(* A set of naturals that is not empty has a least element. *)
LEMMA LeastNat ==
    ASSUME NEW T \in SUBSET Nat, T # {}
    PROVE  \E n \in T : \A m \in T : n <= m
<1>1. PICK n \in T : \A m \in T : ~(<<m, n>> \in OpToRel(<, Nat))
  BY NatLessThanWellFounded, WFMin
<1>2. \A m \in T : ~(m < n)
  BY <1>1 DEF OpToRel
<1>. QED  BY <1>2


(* h picks an element of every subset; T has a subset if it has it without that element. *)
Picks(h, S) == \A s \in SUBSET S : s # {} => h[s] \in s
Inductive(T, h, S) == {} \in T /\ \A s \in SUBSET S : s # {} /\ s \ {h[s]} \in T => s \in T

(* Induction on a finite set. *)
LEMMA SetInduction ==
    ASSUME NEW S, IsFiniteSet(S), NEW h, Picks(h, S), NEW T, Inductive(T, h, S)
    PROVE  \A s \in SUBSET S : s \in T
<1>. USE DEF Picks, Inductive
<1>. DEFINE Bad == {n \in Nat : \E s \in SUBSET S : Cardinality(s) = n /\ s \notin T}
<1>1. \A s \in SUBSET S : IsFiniteSet(s) /\ Cardinality(s) \in Nat
  BY FS_Subset, FS_CardinalityType
<1>2. \A s \in SUBSET S : s # {} => /\ s \ {h[s]} \in SUBSET S
                                    /\ Cardinality(s \ {h[s]}) = Cardinality(s) - 1
  BY <1>1, FS_RemoveElement
<1>. SUFFICES ASSUME NEW r \in SUBSET S, r \notin T PROVE FALSE
  OBVIOUS
<1>3. Bad # {} /\ Bad \in SUBSET Nat
  BY <1>1
<1>4. PICK n \in Bad : \A m \in Bad : n <= m
  <2>. HIDE DEF Bad
  <2>. QED  BY <1>3, LeastNat
<1>5. PICK s \in SUBSET S : Cardinality(s) = n /\ s \notin T
  BY <1>4
<1>6. s # {} /\ s \ {h[s]} \in SUBSET S /\ s \ {h[s]} \notin T /\ Cardinality(s \ {h[s]}) = n - 1
  BY <1>5, <1>2
<1>7. n - 1 \in Bad
  BY <1>6, <1>1
<1>. QED  BY <1>7, <1>4, <1>3

HasMax(s) == \E x \in s : \A y \in s : x >= y

(* A finite set of numbers has a largest one. *)
LEMMA LargestElement ==
    ASSUME NEW S \in SUBSET Nat, IsFiniteSet(S)
    PROVE  \A s \in SUBSET S : s # {} => Max(s) \in s /\ \A y \in s : Max(s) >= y
<1>. DEFINE h == [s \in SUBSET S |-> CHOOSE x \in s : TRUE]
            T == {s \in SUBSET S : s = {} \/ HasMax(s)}
<1>1. Picks(h, S)
  BY DEF Picks
<1>. HIDE DEF h
<1>2. {} \in T
  OBVIOUS
<1>3. ASSUME NEW s \in SUBSET S, s # {}, s \ {h[s]} \in T PROVE s \in T
  <2>1. h[s] \in s /\ h[s] \in Nat
    BY <1>1, <1>3 DEF Picks
  <2>2. CASE s \ {h[s]} = {}
    <3>1. \A y \in s : h[s] >= y
      BY <2>1, <2>2
    <3>. QED  BY <2>1, <3>1 DEF HasMax
  <2>3. CASE HasMax(s \ {h[s]})
    <3>1. PICK x \in s \ {h[s]} : \A y \in s \ {h[s]} : x >= y
      BY <2>3 DEF HasMax
    <3>2. CASE x >= h[s]
      <4>1. \A y \in s : x >= y
        BY <3>1, <3>2
      <4>. QED  BY <3>1, <4>1 DEF HasMax
    <3>3. CASE h[s] >= x
      <4>1. \A y \in s : h[s] >= y
        BY <2>1, <3>1, <3>3
      <4>. QED  BY <2>1, <4>1 DEF HasMax
    <3>. QED  BY <3>1, <3>2, <3>3, <2>1
  <2>. QED  BY <2>2, <2>3, <1>3
<1>4. \A s \in SUBSET S : s \in T
  <2>1. Inductive(T, h, S)
    BY <1>2, <1>3 DEF Inductive
  <2>. HIDE DEF T
  <2>. QED  BY <1>1, <2>1, SetInduction
<1>. QED  BY <1>4 DEF Max, HasMax

(* g takes one element after the other, as h picks them. *)
Recursion(g, S, base, h, step) ==
    \A s \in SUBSET S : g[s] = IF s = {} THEN base ELSE step[<<g[s \ {h[s]}], h[s]>>]

(* There is a function on the subsets that takes one element after the other. *)
LEMMA SetRecursion ==
    ASSUME NEW S, IsFiniteSet(S), NEW D, NEW base \in D,
           NEW h, Picks(h, S), NEW step \in [D \X S -> D]
    PROVE  \E g \in [SUBSET S -> D] : Recursion(g, S, base, h, step)
<1>. USE DEF Picks
<1>. DEFINE Small(n) == {s \in SUBSET S : Cardinality(s) <= n}
            Eq(g, s) == g[s] = IF s = {} THEN base ELSE step[<<g[s \ {h[s]}], h[s]>>]
            Good(n) == \E g \in [Small(n) -> D] : \A s \in Small(n) : Eq(g, s)
            Bad == {n \in Nat : ~Good(n)}
<1>1. \A s \in SUBSET S : IsFiniteSet(s) /\ Cardinality(s) \in Nat /\ (Cardinality(s) = 0 <=> s = {})
  BY FS_Subset, FS_CardinalityType, FS_EmptySet
<1>2. \A s \in SUBSET S : s # {} => /\ s \ {h[s]} \in SUBSET S
                                    /\ Cardinality(s \ {h[s]}) = Cardinality(s) - 1
  BY <1>1, FS_RemoveElement
<1>3. Good(0)
  <2>. DEFINE g == [s \in Small(0) |-> base]
  <2>1. \A s \in Small(0) : s = {}
    BY <1>1
  <2>2. g \in [Small(0) -> D] /\ \A s \in Small(0) : g[s] = base
    OBVIOUS
  <2>3. \A s \in Small(0) : Eq(g, s)
    BY <2>1, <2>2
  <2>. HIDE DEF g, Small
  <2>. QED  BY <2>2, <2>3
<1>4. ASSUME NEW n \in Nat, Good(n) PROVE Good(n + 1)
  <2>1. PICK g \in [Small(n) -> D] : \A s \in Small(n) : Eq(g, s)
    BY <1>4
  <2>. DEFINE k == [s \in Small(n + 1) |-> IF s = {} THEN base ELSE step[<<g[s \ {h[s]}], h[s]>>]]
  <2>2. \A s \in Small(n + 1) : s # {} => s \ {h[s]} \in Small(n) /\ h[s] \in S
    BY <1>1, <1>2
  <2>3. \A s \in Small(n) : s \in Small(n + 1)
    BY <1>1
  <2>. HIDE DEF Small
  <2>4. k \in [Small(n + 1) -> D]
    BY <2>1, <2>2
  <2>5. \A s \in Small(n) : k[s] = g[s]
    BY <2>1, <2>3
  <2>6. \A s \in Small(n + 1) : Eq(k, s)
    BY <2>2, <2>5
  <2>. HIDE DEF k
  <2>. QED  BY <2>4, <2>6
<1>. HIDE DEF Good
<1>5. \A n \in Nat : Good(n)
  <2>. SUFFICES ASSUME Bad # {} PROVE FALSE
    OBVIOUS
  <2>1. PICK n \in Bad : \A m \in Bad : n <= m
    BY LeastNat
  <2>2. n \in Nat /\ ~Good(n) /\ n # 0 /\ n - 1 \in Nat
    BY <1>3
  <2>3. n - 1 \notin Bad
    BY <2>1, <2>2
  <2>4. Good(n - 1)
    BY <2>2, <2>3
  <2>5. Good((n - 1) + 1)
    BY <2>2, <2>4, <1>4
  <2>. QED  BY <2>5, <2>2
<1>6. Cardinality(S) \in Nat /\ Small(Cardinality(S)) = SUBSET S
  BY FS_Subset, FS_CardinalityType
<1>. HIDE DEF Small
<1>7. \E g \in [Small(Cardinality(S)) -> D] : \A s \in Small(Cardinality(S)) : Eq(g, s)
  BY <1>5, <1>6 DEF Good
<1>. QED  BY <1>6, <1>7 DEF Recursion

Summing(g, f, S) ==
    /\ g[{}] = 0
    /\ \A s \in SUBSET S : s # {} =>
          g[s] = f[CHOOSE x \in s : TRUE] + g[s \ {CHOOSE x \in s : TRUE}]

(* What SumFunction computes, one element after the other. *)
LEMMA SumIter ==
    ASSUME NEW S, IsFiniteSet(S), NEW f \in [S -> Int]
    PROVE  \E g \in [SUBSET S -> Int] : g[S] = SumFunction(f) /\ Summing(g, f, S)
<1>. DEFINE h == [s \in SUBSET S |-> CHOOSE x \in s : TRUE]
            step == [p \in Int \X S |-> f[p[2]] + p[1]]
            Is(i) == i = [s \in SUBSET S |-> IF s = {} THEN 0
                              ELSE f[CHOOSE x \in s : TRUE] + i[s \ {CHOOSE x \in s : TRUE}]]
            it == CHOOSE i : Is(i)
            T == {s \in SUBSET S : it[s] \in Int}
<1>1. \A s \in SUBSET S : s # {} => h[s] \in s /\ s \ {h[s]} \in SUBSET S
  OBVIOUS
<1>2. step \in [Int \X S -> Int]
  OBVIOUS
<1>3. PICK g \in [SUBSET S -> Int] : Recursion(g, S, 0, h, step)
  <2>1. Picks(h, S)
    BY DEF Picks
  <2>2. 0 \in Int
    OBVIOUS
  <2>. HIDE DEF h, step
  <2>. QED  BY <1>2, <2>1, <2>2, SetRecursion
<1>4. Is(g)
  <2>. DEFINE k == [s \in SUBSET S |-> IF s = {} THEN 0
                              ELSE f[CHOOSE x \in s : TRUE] + g[s \ {CHOOSE x \in s : TRUE}]]
  <2>1. ASSUME NEW s \in SUBSET S PROVE g[s] = k[s]
    <3>1. CASE s = {}
      BY <3>1, <1>3 DEF Recursion
    <3>2. CASE s # {}
      <4>1. g[s \ {h[s]}] \in Int /\ h[s] \in S
        BY <1>1, <3>2, <1>3
      <4>2. g[s] = f[h[s]] + g[s \ {h[s]}]
        <5>. HIDE DEF h
        <5>. QED  BY <4>1, <1>3, <3>2 DEF Recursion
      <4>. QED  BY <4>2, <3>2
    <3>. QED  BY <3>1, <3>2
  <2>. QED  BY <2>1, <1>3
<1>5. Is(it)
  <2>. HIDE DEF Is
  <2>. QED  BY <1>4
<1>6. SumFunction(f) = it[S]
  <2>1. DOMAIN f = S
    OBVIOUS
  <2>. QED  BY <2>1 DEF SumFunction, SumFunctionOnSet, FoldFunctionOnSet, MapThenFoldSet
<1>. HIDE DEF it
<1>7. \A s \in SUBSET S : it[s] = IF s = {} THEN 0 ELSE f[h[s]] + it[s \ {h[s]}]
  BY <1>5
<1>8. \A s \in SUBSET S : s \in T
  <2>0. Picks(h, S)
    BY DEF Picks
  <2>. HIDE DEF h
  <2>1. {} \in T
    <3>1. {} \in SUBSET S
      OBVIOUS
    <3>2. it[{}] = 0
      BY <3>1, <1>7
    <3>. QED  BY <3>1, <3>2
  <2>2. ASSUME NEW s \in SUBSET S, s # {}, s \ {h[s]} \in T PROVE s \in T
    <3>1. it[s] = f[h[s]] + it[s \ {h[s]}]
      BY <1>7, <2>2
    <3>2. f[h[s]] \in Int /\ it[s \ {h[s]}] \in Int
      BY <2>0, <2>2 DEF Picks
    <3>. QED  BY <3>1, <3>2
  <2>3. Inductive(T, h, S)
    BY <2>1, <2>2 DEF Inductive
  <2>. HIDE DEF T
  <2>. QED  BY <2>3, <2>0, SetInduction
<1>9. it \in [SUBSET S -> Int]
  BY <1>8, <1>5
<1>10. Summing(it, f, S)
  BY <1>7 DEF Summing
<1>. QED  BY <1>9, <1>10, <1>6

LEMMA SumType ==
    ASSUME NEW S, IsFiniteSet(S), NEW f \in [S -> Int]
    PROVE  SumFunction(f) \in Int
<1>1. PICK g \in [SUBSET S -> Int] : g[S] = SumFunction(f) /\ Summing(g, f, S)
  BY SumIter
<1>2. S \in SUBSET S
  OBVIOUS
<1>. QED  BY <1>1, <1>2

LEMMA SumZero ==
    ASSUME NEW S, IsFiniteSet(S), NEW f \in [S -> Int], \A x \in S : f[x] = 0
    PROVE  SumFunction(f) = 0
<1>1. PICK g \in [SUBSET S -> Int] : g[S] = SumFunction(f) /\ Summing(g, f, S)
  BY SumIter
<1>. DEFINE h == [s \in SUBSET S |-> CHOOSE x \in s : TRUE]
            T == {s \in SUBSET S : g[s] = 0}
<1>2. Picks(h, S)
  BY DEF Picks
<1>3. \A s \in SUBSET S : s # {} => g[s] = f[h[s]] + g[s \ {h[s]}]
  BY <1>1 DEF Summing
<1>. HIDE DEF h
<1>4. {} \in T
  BY <1>1 DEF Summing
<1>5. ASSUME NEW s \in SUBSET S, s # {}, s \ {h[s]} \in T PROVE s \in T
  BY <1>2, <1>3, <1>5 DEF Picks
<1>6. \A s \in SUBSET S : s \in T
  <2>1. Inductive(T, h, S)
    BY <1>4, <1>5 DEF Inductive
  <2>. HIDE DEF T
  <2>. QED  BY <1>2, <2>1, SetInduction
<1>7. S \in SUBSET S
  OBVIOUS
<1>. QED  BY <1>1, <1>6, <1>7

(* The functions differ at most at z. *)
DifferAt(e, f, z, S) == \A x \in S : x # z => e[x] = f[x]

(* A sum changes by as much as the term that changes. *)
LEMMA SumUpdate ==
    ASSUME NEW S, IsFiniteSet(S), NEW f \in [S -> Int], NEW e \in [S -> Int], NEW z \in S,
           DifferAt(e, f, z, S)
    PROVE  SumFunction(e) = SumFunction(f) - f[z] + e[z]
<1>1. PICK g \in [SUBSET S -> Int] : g[S] = SumFunction(f) /\ Summing(g, f, S)
  BY SumIter
<1>2. PICK k \in [SUBSET S -> Int] : k[S] = SumFunction(e) /\ Summing(k, e, S)
  BY SumIter
<1>. DEFINE h == [s \in SUBSET S |-> CHOOSE x \in s : TRUE]
            T == {s \in SUBSET S : k[s] = g[s] + (IF z \in s THEN e[z] - f[z] ELSE 0)}
<1>3. Picks(h, S)
  BY DEF Picks
<1>4. \A s \in SUBSET S : s # {} => /\ g[s] = f[h[s]] + g[s \ {h[s]}]
                                    /\ k[s] = e[h[s]] + k[s \ {h[s]}]
  BY <1>1, <1>2 DEF Summing
<1>. HIDE DEF h
<1>5. {} \in T
  BY <1>1, <1>2 DEF Summing
<1>6. ASSUME NEW s \in SUBSET S, s # {}, s \ {h[s]} \in T PROVE s \in T
  <2>. DEFINE r == s \ {h[s]}
  <2>1. r \in SUBSET S /\ h[s] \in S /\ h[s] \in s /\ g[r] \in Int /\ k[r] \in Int
    BY <1>3, <1>6 DEF Picks
  <2>2. k[r] = g[r] + (IF z \in r THEN e[z] - f[z] ELSE 0)
    BY <1>6
  <2>3. g[s] = f[h[s]] + g[r] /\ k[s] = e[h[s]] + k[r]
    BY <1>4, <1>6
  <2>4. CASE h[s] = z
    BY <2>1, <2>2, <2>3, <2>4
  <2>5. CASE h[s] # z
    <3>1. z \in r <=> z \in s
      BY <2>5
    <3>. HIDE DEF r
    <3>. QED  BY <2>1, <2>2, <2>3, <2>5, <3>1 DEF DifferAt
  <2>. QED  BY <2>4, <2>5
<1>7. \A s \in SUBSET S : s \in T
  <2>1. Inductive(T, h, S)
    BY <1>5, <1>6 DEF Inductive
  <2>. HIDE DEF T
  <2>. QED  BY <1>3, <2>1, SetInduction
<1>8. S \in SUBSET S
  OBVIOUS
<1>. QED  BY <1>1, <1>2, <1>7, <1>8

(* Any element may be taken first. *)
AnyFirst(g, f, S) == \A s \in SUBSET S : \A z \in s : g[s] = f[z] + g[s \ {z}]

LEMMA SumTake ==
    ASSUME NEW S, IsFiniteSet(S), NEW f \in [S -> Int], NEW g \in [SUBSET S -> Int], Summing(g, f, S)
    PROVE  AnyFirst(g, f, S)
<1>. DEFINE h == [s \in SUBSET S |-> CHOOSE x \in s : TRUE]
            Any(s) == \A z \in s : g[s] = f[z] + g[s \ {z}]
            Bad == {n \in Nat : \E s \in SUBSET S : Cardinality(s) = n /\ ~Any(s)}
<1>1. \A s \in SUBSET S : IsFiniteSet(s) /\ Cardinality(s) \in Nat
  BY FS_Subset, FS_CardinalityType
<1>2. \A s \in SUBSET S : \A z \in s : s \ {z} \in SUBSET S /\ Cardinality(s \ {z}) = Cardinality(s) - 1
  BY <1>1, FS_RemoveElement
<1>3. \A s \in SUBSET S : s # {} => h[s] \in s /\ g[s] = f[h[s]] + g[s \ {h[s]}]
  BY DEF Summing
<1>. HIDE DEF h
<1>. SUFFICES ASSUME NEW r \in SUBSET S, ~Any(r) PROVE FALSE
  BY DEF AnyFirst
<1>4. Bad # {} /\ Bad \in SUBSET Nat
  <2>. HIDE DEF Any
  <2>. QED  BY <1>1
<1>5. PICK n \in Bad : \A m \in Bad : n <= m
  <2>. HIDE DEF Bad
  <2>. QED  BY <1>4, LeastNat
<1>6. PICK s \in SUBSET S : Cardinality(s) = n /\ ~Any(s)
  <2>. HIDE DEF Any
  <2>. QED  BY <1>5
<1>7. PICK z \in s : g[s] # f[z] + g[s \ {z}]
  BY <1>6
<1>. DEFINE y == h[s]
<1>8. y \in s /\ g[s] = f[y] + g[s \ {y}] /\ y # z
  BY <1>3, <1>6, <1>7
<1>. HIDE DEF y
<1>9. \A w \in s : Any(s \ {w})
  <2>. SUFFICES ASSUME NEW w \in s, ~Any(s \ {w}) PROVE FALSE
    OBVIOUS
  <2>. HIDE DEF Any
  <2>1. s \ {w} \in SUBSET S /\ Cardinality(s \ {w}) = n - 1 /\ n - 1 \in Nat
    BY <1>1, <1>2, <1>6
  <2>2. n - 1 \in Bad
    BY <2>1
  <2>. QED  BY <2>2, <1>4, <1>5
<1>10. /\ g[s \ {y}] = f[z] + g[(s \ {y}) \ {z}]
       /\ g[s \ {z}] = f[y] + g[(s \ {z}) \ {y}]
  <2>1. z \in s \ {y} /\ y \in s \ {z} /\ Any(s \ {y}) /\ Any(s \ {z})
    BY <1>8, <1>9
  <2>. QED  BY <2>1
<1>11. (s \ {y}) \ {z} = (s \ {z}) \ {y} /\ (s \ {y}) \ {z} \in SUBSET S
  OBVIOUS
<1>12. /\ f[y] \in Int /\ f[z] \in Int /\ g[(s \ {y}) \ {z}] \in Int
  BY <1>8, <1>11
<1>13. g[s] = f[y] + (f[z] + g[(s \ {y}) \ {z}]) /\ g[s \ {z}] = f[y] + g[(s \ {y}) \ {z}]
  BY <1>8, <1>10, <1>11
<1>14. g[s] = f[z] + g[s \ {z}]
  BY <1>12, <1>13
<1>. QED  BY <1>7, <1>14

(* The functions agree on S. *)
AgreeOn(e, f, S) == \A y \in S : e[y] = f[y]

LEMMA SumExtend ==
    ASSUME NEW S, IsFiniteSet(S), NEW x, x \notin S, NEW f \in [S \cup {x} -> Int],
           NEW e \in [S -> Int], AgreeOn(e, f, S)
    PROVE  SumFunction(f) = SumFunction(e) + f[x]
<1>. DEFINE U == S \cup {x}
            h == [s \in SUBSET S |-> CHOOSE y \in s : TRUE]

<1>1. IsFiniteSet(U)
  BY FS_AddElement
<1>2. PICK g \in [SUBSET U -> Int] : g[U] = SumFunction(f) /\ Summing(g, f, U)
  BY <1>1, SumIter
<1>3. PICK k \in [SUBSET S -> Int] : k[S] = SumFunction(e) /\ Summing(k, e, S)
  BY SumIter
<1>. DEFINE T == {s \in SUBSET S : g[s] = k[s]}
<1>4. Picks(h, S)
  BY DEF Picks
<1>5. \A s \in SUBSET S : s # {} => g[s] = f[h[s]] + g[s \ {h[s]}] /\ k[s] = e[h[s]] + k[s \ {h[s]}]
  BY <1>2, <1>3 DEF Summing
<1>. HIDE DEF h
<1>6. {} \in T
  BY <1>2, <1>3 DEF Summing
<1>7. ASSUME NEW s \in SUBSET S, s # {}, s \ {h[s]} \in T PROVE s \in T
  <2>1. h[s] \in S
    BY <1>4, <1>7 DEF Picks
  <2>. QED  BY <2>1, <1>5, <1>7 DEF AgreeOn
<1>8. S \in T
  <2>1. Inductive(T, h, S)
    BY <1>6, <1>7 DEF Inductive
  <2>. HIDE DEF T
  <2>. QED  BY <1>4, <2>1, SetInduction
<1>9. g[U] = f[x] + g[U \ {x}] /\ U \ {x} = S
  <2>1. AnyFirst(g, f, U)
    <3>1. f \in [U -> Int]
      OBVIOUS
    <3>. HIDE DEF U
    <3>. QED  BY <1>1, <1>2, <3>1, SumTake
  <2>2. U \in SUBSET U /\ x \in U /\ U \ {x} = S
    OBVIOUS
  <2>. QED  BY <2>1, <2>2 DEF AnyFirst
<1>10. k[S] \in Int /\ f[x] \in Int /\ g[S] = k[S]
  BY <1>3, <1>8
<1>11. SumFunction(f) = f[x] + SumFunction(e)
  BY <1>2, <1>3, <1>9, <1>10
<1>12. SumFunction(e) \in Int
  BY <1>3, <1>10
<1>. QED  BY <1>10, <1>11, <1>12

=============================================================================
