----------------------------- MODULE DataLemmas -----------------------------
(***************************************************************************)
(* Facts about numbers, finite sets and sums that the proofs about the     *)
(* conversation, its metrics and the gate share.                           *)
(***************************************************************************)
EXTENDS Integers, Sequences, FiniteSets, SequencesExt, TLAPS,
        FiniteSetTheorems, SequenceTheorems, WellFoundedInduction

-----------------------------------------------------------------------------
(* Induction over a set of naturals, which the provers can instantiate.    *)

LEMMA LeastNat ==
  ASSUME NEW T \in SUBSET Nat, T # {}
  PROVE  \E m \in T : \A n \in T : m <= n
<1> DEFINE R == OpToRel(<, Nat)
<1>1. PICK m \in T : \A n \in T : <<n, m>> \notin R
  <2>1. IsWellFoundedOn(R, Nat)
    BY NatLessThanWellFounded
  <2>. HIDE DEF R
  <2>. QED
    BY <2>1, WFMin
<1>2. ASSUME NEW n \in T PROVE ~(n < m)
  BY <1>1 DEF OpToRel
<1>. QED
  BY <1>2

LEMMA NatInduct ==
  ASSUME NEW S, 0 \in S, \A n \in Nat : n \in S => n + 1 \in S
  PROVE  \A n \in Nat : n \in S
<1> SUFFICES ASSUME Nat \ S # {} PROVE FALSE
  OBVIOUS
<1>1. PICK m \in Nat \ S : \A n \in Nat \ S : m <= n
  BY LeastNat
<1>2. m - 1 \in Nat
  BY <1>1
<1>. QED
  BY <1>1, <1>2

LEMMA MinFacts ==
  ASSUME NEW T \in SUBSET Nat, T # {}
  PROVE  Min(T) \in T /\ \A y \in T : Min(T) <= y
<1>1. PICK m \in T : \A y \in T : m <= y
  BY LeastNat
<1>. QED
  BY <1>1 DEF Min

LEMMA MaxBounded ==
  ASSUME NEW T \in SUBSET Nat, T # {}, NEW n \in Nat, \A y \in T : y <= n
  PROVE  Max(T) \in T
<1> DEFINE U == {n - y : y \in T}
<1>1. U \in SUBSET Nat /\ U # {}
  <2>1. \A y \in T : n - y \in Nat
    OBVIOUS
  <2>. QED
    BY <2>1
<1>2. PICK d \in U : \A z \in U : d <= z
  BY <1>1, LeastNat
<1>3. PICK m \in T : d = n - m
  BY <1>2
<1>4. ASSUME NEW y \in T PROVE m >= y
  <2>1. n - m <= n - y
    BY <1>2, <1>3
  <2>. QED
    BY <2>1
<1>. QED
  BY <1>3, <1>4 DEF Max

-----------------------------------------------------------------------------
(* Finite sets.                                                            *)

(* Induction over the subsets of a finite set, P being those of which      *)
(* something is true.                                                      *)
LEMMA SetInduct ==
  ASSUME NEW S, IsFiniteSet(S), NEW P, {} \in P,
         \A s \in SUBSET S : s # {} => \E x \in s : s \ {x} \in P => s \in P
  PROVE  S \in P
<1> DEFINE Q == {n \in Nat : \A s \in SUBSET S : Cardinality(s) = n => s \in P}
<1>1. \A s \in SUBSET S : IsFiniteSet(s) /\ Cardinality(s) \in Nat
  BY FS_Subset, FS_CardinalityType
<1>2. 0 \in Q
  BY <1>1, FS_EmptySet
<1>3. ASSUME NEW n \in Nat, n \in Q PROVE n + 1 \in Q
  <2> SUFFICES ASSUME NEW s \in SUBSET S, Cardinality(s) = n + 1 PROVE s \in P
    OBVIOUS
  <2>1. s # {}
    <3>1. Cardinality(s) # 0 /\ IsFiniteSet(s)
      BY <1>1
    <3>. QED
      BY <3>1, FS_EmptySet
  <2>2. PICK x \in s : s \ {x} \in P => s \in P
    BY <2>1
  <2>3. Cardinality(s \ {x}) = n
    <3>1. Cardinality(s \ {x}) = Cardinality(s) - 1
      BY <1>1, FS_RemoveElement
    <3>. QED
      BY <3>1
  <2>4. s \ {x} \in P
    BY <1>3, <2>3
  <2>. QED
    BY <2>2, <2>4
<1>4. Cardinality(S) \in Q
  <2>. HIDE DEF Q
  <2>. QED
    BY <1>1, <1>2, <1>3, NatInduct
<1>. QED
  BY <1>4

(* A finite set of naturals has a bound.                                   *)
LEMMA FiniteBound ==
  ASSUME NEW T \in SUBSET Nat, IsFiniteSet(T)
  PROVE  \E n \in Nat : \A y \in T : y <= n
<1> DEFINE P == {s \in SUBSET T : \E n \in Nat : \A y \in s : y <= n}
<1>1. {} \in P
  BY SMT
<1>2. ASSUME NEW s \in SUBSET T, s # {} PROVE \E x \in s : s \ {x} \in P => s \in P
  <2>1. PICK x \in s : TRUE
    BY <1>2
  <2>2. ASSUME NEW n \in Nat, \A y \in s \ {x} : y <= n
        PROVE  \E m \in Nat : \A y \in s : y <= m
    <3>1. x \in Nat /\ \A y \in s : y \in Nat
      BY <2>1
    <3>2. n + x \in Nat /\ \A y \in s : y <= n + x
      BY <2>2, <3>1
    <3>. QED
      BY <3>2
  <2>. QED
    BY <2>1, <2>2
<1>3. T \in P
  <2>. HIDE DEF P
  <2>. QED
    BY <1>1, <1>2, SetInduct
<1>. QED
  BY <1>3

(* A set of positions that holds all before each of its own is a prefix.   *)
LEMMA InitialSegment ==
  ASSUME NEW N \in Nat, NEW T \in SUBSET (1 .. N),
         \A j \in T : \A i \in 1 .. N : i < j => i \in T
  PROVE  /\ Cardinality(T) \in 0 .. N
         /\ \A i \in 1 .. N : i \in T <=> i <= Cardinality(T)
<1>1. CASE T = {}
  <2>1. Cardinality(T) = 0
    BY <1>1, FS_EmptySet
  <2>. QED
    BY <1>1, <2>1
<1>2. CASE T # {}
  <2> DEFINE m == Max(T)
  <2>1. m \in T /\ \A y \in T : y <= m
    <3>1. T \in SUBSET Nat /\ \A y \in T : y <= N
      OBVIOUS
    <3>2. m \in T
      BY <1>2, <3>1, MaxBounded
    <3>3. PICK x \in T : \A y \in T : x >= y
      <4> DEFINE U == {y \in Nat : \A z \in T : z <= y}
      <4>1. N \in U /\ U \in SUBSET Nat
        BY <3>1
      <4>2. PICK x \in U : \A y \in U : x <= y
        <5>. HIDE DEF U
        <5>. QED
          BY <4>1, LeastNat
      <4>3. x \in T
        <5> SUFFICES ASSUME x \notin T PROVE FALSE
          OBVIOUS
        <5>1. \A z \in T : z <= x /\ z # x
          BY <4>2
        <5>2. x \in Nat /\ \A z \in T : z \in 1 .. N
          BY <4>2
        <5>3. x - 1 \in Nat
          <6>1. PICK z \in T : TRUE
            BY <1>2
          <6>. QED
            BY <5>1, <5>2, <6>1
        <5>4. ASSUME NEW z \in T PROVE z <= x - 1
          BY <5>1, <5>2
        <5>5. x - 1 \in U
          BY <5>3, <5>4
        <5>. QED
          BY <4>2, <5>2, <5>5
      <4>. QED
        BY <3>1, <4>2, <4>3
    <3>4. \A y \in T : m >= y
      BY <3>3 DEF Max
    <3>. QED
      BY <3>1, <3>2, <3>4
  <2>. HIDE DEF m
  <2>2. m \in 1 .. N
    BY <2>1
  <2>3. ASSUME NEW i \in 1 .. N PROVE i \in T <=> i <= m
    <3>1. i \in T => i <= m
      BY <2>1
    <3>2. i < m => i \in T
      BY <2>1
    <3>. QED
      BY <2>1, <2>2, <3>1, <3>2
  <2>4. T = 1 .. m
    <3>1. ASSUME NEW i \in T PROVE i \in 1 .. m
      <4>1. i \in 1 .. N
        OBVIOUS
      <4>. QED
        BY <2>2, <2>3, <4>1
    <3>2. ASSUME NEW i \in 1 .. m PROVE i \in T
      <4>1. i \in 1 .. N /\ i <= m
        BY <2>2
      <4>. QED
        BY <2>3, <4>1
    <3>. QED
      BY <3>1, <3>2
  <2>5. Cardinality(T) = m
    BY <2>2, <2>4, FS_Interval
  <2>. QED
    BY <2>2, <2>3, <2>5
<1>. QED
  BY <1>1, <1>2

-----------------------------------------------------------------------------
(* Sums of naturals.  The sum of w over S is the number of its units,      *)
(* which is independent of any order.                                      *)

Units(w, S) == {u \in S \X Nat : u[2] \in 1 .. w[u[1]]}

LEMMA UnitsAdd ==
  ASSUME NEW T, NEW x, x \notin T, NEW w, w[x] \in Nat, IsFiniteSet(Units(w, T))
  PROVE  /\ IsFiniteSet(Units(w, T \cup {x}))
         /\ Cardinality(Units(w, T \cup {x})) = Cardinality(Units(w, T)) + w[x]
<1> DEFINE V == {x} \X (1 .. w[x])
<1>1. Units(w, T \cup {x}) = Units(w, T) \cup V /\ Units(w, T) \cap V = {}
  BY DEF Units
<1>2. IsFiniteSet(V) /\ Cardinality(V) = w[x]
  <2>1. IsFiniteSet({x}) /\ Cardinality({x}) = 1
    BY FS_Singleton
  <2>2. IsFiniteSet(1 .. w[x]) /\ Cardinality(1 .. w[x]) = w[x]
    BY FS_Interval
  <2>3. IsFiniteSet(V) /\ Cardinality(V) = Cardinality({x}) * Cardinality(1 .. w[x])
    BY <2>1, <2>2, FS_Product
  <2>. QED
    BY <2>1, <2>2, <2>3
<1>3. /\ IsFiniteSet(Units(w, T) \cup V)
      /\ Cardinality(Units(w, T) \cup V)
           = Cardinality(Units(w, T)) + Cardinality(V) - Cardinality(Units(w, T) \cap V)
  <2>. HIDE DEF V
  <2>. QED
    BY <1>2, FS_Union
<1>4. Cardinality(Units(w, T) \cap V) = 0
  BY <1>1, FS_EmptySet
<1>5. Cardinality(Units(w, T)) \in Nat
  BY FS_CardinalityType
<1>. HIDE DEF V
<1>6. Cardinality(Units(w, T) \cup V) = Cardinality(Units(w, T)) + w[x]
  BY <1>2, <1>3, <1>4, <1>5
<1>. QED
  BY <1>1, <1>3, <1>6

LEMMA UnitsFinite ==
  ASSUME NEW S, IsFiniteSet(S), NEW w, \A x \in S : w[x] \in Nat
  PROVE  IsFiniteSet(Units(w, S)) /\ Cardinality(Units(w, S)) \in Nat
<1> DEFINE P == {s \in SUBSET S : IsFiniteSet(Units(w, s))}
<1>1. {} \in P
  <2>1. Units(w, {}) = {}
    BY DEF Units
  <2>. QED
    BY <2>1, FS_EmptySet
<1>2. ASSUME NEW s \in SUBSET S, s # {} PROVE \E x \in s : s \ {x} \in P => s \in P
  <2>1. PICK x \in s : TRUE
    BY <1>2
  <2>2. s = (s \ {x}) \cup {x} /\ x \notin s \ {x} /\ w[x] \in Nat
    OBVIOUS
  <2>3. ASSUME s \ {x} \in P PROVE s \in P
    <3>1. IsFiniteSet(Units(w, (s \ {x}) \cup {x}))
      BY <2>2, <2>3, UnitsAdd
    <3>. QED
      BY <2>2, <3>1
  <2>. QED
    BY <2>3
<1>3. S \in P
  <2>. HIDE DEF P
  <2>. QED
    BY <1>1, <1>2, SetInduct
<1>. QED
  BY <1>3, FS_CardinalityType

(* A fold that adds up w, taking the elements in the order c takes them.   *)
IsFold(g, w, S, c) ==
  g = [s \in SUBSET S |-> IF s = {} THEN 0 ELSE w[c[s]] + g[s \ {c[s]}]]

LEMMA FoldExists ==
  ASSUME NEW S, IsFiniteSet(S), NEW w, \A x \in S : w[x] \in Nat,
         NEW c, \A s \in SUBSET S : s # {} => c[s] \in s
  PROVE  \E g : IsFold(g, w, S, c)
<1> DEFINE g == [s \in SUBSET S |-> Cardinality(Units(w, s))]
<1>1. ASSUME NEW s \in SUBSET S
      PROVE  g[s] = IF s = {} THEN 0 ELSE w[c[s]] + g[s \ {c[s]}]
  <2>1. CASE s = {}
    <3>1. Units(w, {}) = {}
      BY DEF Units
    <3>. QED
      BY <2>1, <3>1, FS_EmptySet
  <2>2. CASE s # {}
    <3> DEFINE x == c[s]
               t == s \ {x}
    <3>1. x \in s /\ s = t \cup {x} /\ x \notin t /\ t \in SUBSET S /\ w[x] \in Nat
      BY <2>2
    <3>2. IsFiniteSet(t) /\ \A y \in t : w[y] \in Nat
      BY <3>1, FS_Subset
    <3>. HIDE DEF x, t
    <3>3. IsFiniteSet(Units(w, t)) /\ Cardinality(Units(w, t)) \in Nat
      BY <3>2, UnitsFinite
    <3>4. Cardinality(Units(w, t \cup {x})) = Cardinality(Units(w, t)) + w[x]
      BY <3>1, <3>3, UnitsAdd
    <3>5. g[s] = w[x] + g[t]
      BY <3>1, <3>3, <3>4
    <3>. QED
      BY <2>2, <3>5 DEF x, t
  <2>. QED
    BY <2>1, <2>2
<1>2. g = [s \in SUBSET S |-> IF s = {} THEN 0 ELSE w[c[s]] + g[s \ {c[s]}]]
  <2> DEFINE h == [s \in SUBSET S |-> IF s = {} THEN 0 ELSE w[c[s]] + g[s \ {c[s]}]]
  <2>1. \A s \in SUBSET S : g[s] = h[s]
    BY <1>1
  <2>2. g = [s \in SUBSET S |-> g[s]] /\ h = [s \in SUBSET S |-> h[s]]
    OBVIOUS
  <2>. HIDE DEF g, h
  <2>3. g = h
    BY <2>1, <2>2
  <2>. QED
    BY <2>3 DEF h
<1>. QED
  BY <1>2 DEF IsFold

(* The same from the other side, as sequences are folded.                  *)
IsFoldLeft(g, w, S, c) ==
  g = [s \in SUBSET S |-> IF s = {} THEN 0 ELSE g[s \ {c[s]}] + w[c[s]]]

AddsUp(g, w, S, c) ==
  /\ g[{}] = 0
  /\ \A s \in SUBSET S : s # {} =>
       g[s] = w[c[s]] + g[s \ {c[s]}] \/ g[s] = g[s \ {c[s]}] + w[c[s]]

LEMMA FoldSums ==
  ASSUME NEW S, IsFiniteSet(S), NEW w, \A x \in S : w[x] \in Nat,
         NEW c, \A s \in SUBSET S : s # {} => c[s] \in s,
         NEW g, AddsUp(g, w, S, c)
  PROVE  \A s \in SUBSET S : g[s] = Cardinality(Units(w, s)) /\ g[s] \in Nat
<1> DEFINE P == {s \in SUBSET S : g[s] = Cardinality(Units(w, s))}
<1>1. {} \in P
  <2>1. Units(w, {}) = {}
    BY DEF Units
  <2>. QED
    BY <2>1, FS_EmptySet DEF AddsUp
<1>2. ASSUME NEW s \in SUBSET S, s # {} PROVE \E x \in s : s \ {x} \in P => s \in P
  <2> DEFINE x == c[s]
             t == s \ {x}
  <2>1. x \in s /\ s = t \cup {x} /\ x \notin t /\ t \in SUBSET S /\ w[x] \in Nat
    BY <1>2
  <2>2. g[s] = w[x] + g[t] \/ g[s] = g[t] + w[x]
    BY <1>2 DEF AddsUp
  <2>3. IsFiniteSet(t) /\ \A y \in t : w[y] \in Nat
    BY <2>1, FS_Subset
  <2>4. ASSUME s \ {x} \in P PROVE s \in P
    <3>1. g[t] = Cardinality(Units(w, t))
      BY <2>4
    <3>. HIDE DEF x, t
    <3>2. IsFiniteSet(Units(w, t)) /\ Cardinality(Units(w, t)) \in Nat
      BY <2>3, UnitsFinite
    <3>3. Cardinality(Units(w, t \cup {x})) = Cardinality(Units(w, t)) + w[x]
      BY <2>1, <3>2, UnitsAdd
    <3>4. g[s] = Cardinality(Units(w, s))
      BY <2>1, <2>2, <3>1, <3>2, <3>3
    <3>. QED
      BY <3>4
  <2>. QED
    BY <2>1, <2>4
<1>3. ASSUME NEW s \in SUBSET S PROVE g[s] = Cardinality(Units(w, s)) /\ g[s] \in Nat
  <2>1. IsFiniteSet(s) /\ \A x \in s : w[x] \in Nat
    BY FS_Subset
  <2>2. \A t \in SUBSET s : t # {} => \E x \in t : t \ {x} \in P => t \in P
    BY <1>2
  <2>3. s \in P
    <3>. HIDE DEF P
    <3>. QED
      BY <1>1, <2>1, <2>2, SetInduct
  <2>4. Cardinality(Units(w, s)) \in Nat
    BY <2>1, UnitsFinite
  <2>. QED
    BY <2>3, <2>4
<1>. QED
  BY <1>3

LEMMA FoldCounts ==
  ASSUME NEW S, IsFiniteSet(S), NEW w, \A x \in S : w[x] \in Nat,
         NEW c, \A s \in SUBSET S : s # {} => c[s] \in s,
         NEW g, IsFold(g, w, S, c) \/ IsFoldLeft(g, w, S, c)
  PROVE  \A s \in SUBSET S : g[s] = Cardinality(Units(w, s)) /\ g[s] \in Nat
<1>1. AddsUp(g, w, S, c)
  BY DEF IsFold, IsFoldLeft, AddsUp
<1>. QED
  BY <1>1, FoldSums

LEMMA FoldLeftExists ==
  ASSUME NEW S, IsFiniteSet(S), NEW w, \A x \in S : w[x] \in Nat,
         NEW c, \A s \in SUBSET S : s # {} => c[s] \in s
  PROVE  \E g : IsFoldLeft(g, w, S, c)
<1>1. PICK g : IsFold(g, w, S, c)
  BY FoldExists
<1>2. \A s \in SUBSET S : g[s] \in Nat
  BY <1>1, FoldCounts
<1>3. ASSUME NEW s \in SUBSET S
      PROVE  g[s] = IF s = {} THEN 0 ELSE g[s \ {c[s]}] + w[c[s]]
  <2>1. g[s] = IF s = {} THEN 0 ELSE w[c[s]] + g[s \ {c[s]}]
    BY <1>1 DEF IsFold
  <2>2. s # {} => w[c[s]] \in Nat /\ g[s \ {c[s]}] \in Nat
    BY <1>2
  <2>. QED
    BY <2>1, <2>2
<1>4. g = [s \in SUBSET S |-> IF s = {} THEN 0 ELSE g[s \ {c[s]}] + w[c[s]]]
  <2> DEFINE h == [s \in SUBSET S |-> IF s = {} THEN 0 ELSE g[s \ {c[s]}] + w[c[s]]]
  <2>1. \A s \in SUBSET S : g[s] = h[s]
    BY <1>3
  <2>2. g = [s \in SUBSET S |-> g[s]] /\ h = [s \in SUBSET S |-> h[s]]
    BY <1>1 DEF IsFold
  <2>. HIDE DEF h
  <2>3. g = h
    BY <2>1, <2>2
  <2>. QED
    BY <2>3 DEF h
<1>. QED
  BY <1>4 DEF IsFoldLeft

-----------------------------------------------------------------------------
(* Sets of one size.                                                       *)

LEMMA SameSize ==
  ASSUME NEW S, NEW T, IsFiniteSet(S), NEW f \in [S -> T],
         \A x, y \in S : f[x] = f[y] => x = y, \A t \in T : \E x \in S : f[x] = t
  PROVE  IsFiniteSet(T) /\ Cardinality(T) = Cardinality(S)
<1>1. f \in Bijection(S, T)
  BY DEF Bijection, Injection, IsInjective, Surjection
<1>2. ExistsBijection(S, T)
  BY <1>1 DEF ExistsBijection
<1>. QED
  BY <1>2, FS_Bijection

-----------------------------------------------------------------------------
(* Sorting: whatever there is a value for can be put in ascending order.   *)

SortsSet(p, v, s) ==
  LET m == Cardinality(s) IN
  /\ p \in [1 .. m -> s]
  /\ \A i, j \in 1 .. m : p[i] = p[j] => i = j
  /\ \A i, j \in 1 .. m : i < j => v[p[i]] <= v[p[j]]

LEMMA SortingExists ==
  ASSUME NEW S, IsFiniteSet(S), NEW v, \A k \in S : v[k] \in Nat
  PROVE  \E p : SortsSet(p, v, S)
<1> DEFINE P == {s \in SUBSET S : \E p : SortsSet(p, v, s)}
<1>1. {} \in P
  <2>1. Cardinality({}) = 0
    BY FS_EmptySet
  <2>2. SortsSet([i \in 1 .. 0 |-> i], v, {})
    BY <2>1 DEF SortsSet
  <2>. QED
    BY <2>2
<1>2. ASSUME NEW s \in SUBSET S, s # {} PROVE \E x \in s : s \ {x} \in P => s \in P
  <2>1. PICK x \in s : \A y \in s : v[x] <= v[y]
    <3> DEFINE T == {v[y] : y \in s}
    <3>1. T \in SUBSET Nat /\ T # {}
      BY <1>2
    <3>2. PICK a \in T : \A b \in T : a <= b
      <4>. HIDE DEF T
      <4>. QED
        BY <3>1, LeastNat
    <3>. QED
      BY <3>2
  <2> DEFINE t == s \ {x}
  <2>2. ASSUME NEW p, SortsSet(p, v, t) PROVE \E q : SortsSet(q, v, s)
    <3> DEFINE m == Cardinality(t)
               q == [i \in 1 .. m + 1 |-> IF i = 1 THEN x ELSE p[i - 1]]
    <3>1. IsFiniteSet(s) /\ IsFiniteSet(t) /\ m \in Nat
      <4>1. t \subseteq S
        OBVIOUS
      <4>. QED
        BY <4>1, FS_Subset, FS_CardinalityType
    <3>2. Cardinality(s) = m + 1
      <4>1. Cardinality(t) = Cardinality(s) - 1 /\ Cardinality(s) \in Nat
        BY <3>1, FS_RemoveElement, FS_CardinalityType
      <4>. QED
        BY <4>1
    <3>3. /\ \A i \in 1 .. m : p[i] \in t
          /\ \A i, j \in 1 .. m : p[i] = p[j] => i = j
          /\ \A i, j \in 1 .. m : i < j => v[p[i]] <= v[p[j]]
      BY <2>2 DEF SortsSet
    <3>4. x \notin t /\ t \subseteq s
      OBVIOUS
    <3>. HIDE DEF m, t
    <3>5. /\ q[1] = x
          /\ \A i \in 2 .. m + 1 : q[i] = p[i - 1] /\ i - 1 \in 1 .. m
      BY <3>1
    <3>6. q \in [1 .. m + 1 -> s]
      BY <3>1, <3>3, <3>4
    <3>. HIDE DEF q
    <3>7. ASSUME NEW i \in 1 .. m + 1, NEW j \in 1 .. m + 1, q[i] = q[j] PROVE i = j
      <4>1. \A k \in 1 .. m + 1 : k = 1 \/ k \in 2 .. m + 1
        BY <3>1
      <4>2. \A k \in 2 .. m + 1 : q[k] # x
        BY <3>3, <3>4, <3>5
      <4>3. CASE i \in 2 .. m + 1 /\ j \in 2 .. m + 1
        <5>1. i - 1 = j - 1
          BY <3>3, <3>5, <3>7, <4>3
        <5>. QED
          BY <3>1, <4>3, <5>1
      <4>. QED
        BY <3>5, <3>7, <4>1, <4>2, <4>3
    <3>8. ASSUME NEW i \in 1 .. m + 1, NEW j \in 1 .. m + 1, i < j PROVE v[q[i]] <= v[q[j]]
      <4>1. CASE i = 1
        BY <2>1, <3>5, <3>6, <4>1
      <4>2. CASE i # 1
        <5>1. i \in 2 .. m + 1 /\ j \in 2 .. m + 1 /\ i - 1 < j - 1
          BY <3>1, <3>8, <4>2
        <5>. QED
          BY <3>3, <3>5, <5>1
      <4>. QED
        BY <4>1, <4>2
    <3>9. SortsSet(q, v, s)
      BY <3>2, <3>6, <3>7, <3>8 DEF SortsSet
    <3>. QED
      BY <3>9
  <2>. QED
    BY <2>1, <2>2
<1>3. S \in P
  <2>. HIDE DEF P
  <2>. QED
    BY <1>1, <1>2, SetInduct
<1>. QED
  BY <1>3

(* A one-to-one map of a finite set to itself leaves nothing out.          *)
LEMMA OntoItself ==
  ASSUME NEW S, IsFiniteSet(S), NEW p \in [S -> S], \A x, y \in S : p[x] = p[y] => x = y
  PROVE  \A z \in S : \E x \in S : p[x] = z
<1>1. p \in Injection(S, S)
  BY DEF Injection, IsInjective
<1>2. p \in Surjection(S, S)
  BY <1>1, FS_Injection
<1>. QED
  BY <1>2 DEF Surjection
=============================================================================
