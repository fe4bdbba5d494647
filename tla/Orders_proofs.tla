------------------------------ MODULE Orders_proofs ------------------------------
(* Lemmas about orders that the proofs of several modules need: a set of      *)
(* numbers that is not empty has a smallest, which serves for induction too   *)
(* (a statement that fails for some number fails for a smallest one), and     *)
(* Sorted lists a finite set of numbers, each once and the smallest first.    *)
EXTENDS Orders, Sequences, Functions, FiniteSetTheorems, NaturalsInduction, WellFoundedInduction, TLAPS

LEMMA SmallestOf ==
  ASSUME NEW S \in SUBSET Nat, S # {}
  PROVE  \E x \in S : \A y \in S : x <= y
  <1>1. PICK x \in S : \A y \in S : <<y, x>> \notin OpToRel(<, Nat)
    BY NatLessThanWellFounded, WFMin
  <1>2. \A y \in S : ~(y < x)
    BY <1>1 DEF OpToRel
  <1>. QED
    BY <1>2

(* q is the list; some sequence is.                                           *)
Lists(q, S) ==
    /\ q \in [1 .. Cardinality(S) -> S]
    /\ \A i, j \in 1 .. Cardinality(S) : i < j => q[i] < q[j]

LEMMA SomeList ==
  ASSUME NEW S \in SUBSET Nat, IsFiniteSet(S)
  PROVE  \E q : Lists(q, S)
  <1>. DEFINE Without(n) == \E T \in SUBSET Nat : /\ IsFiniteSet(T) /\ Cardinality(T) = n
                                                  /\ \A q : ~Lists(q, T)
  <1>1. SUFFICES ASSUME {n \in Nat : Without(n)} # {} PROVE FALSE
    BY FS_CardinalityType
  <1>2. PICK n \in Nat : Without(n) /\ \A k \in Nat : Without(k) => n <= k
    <2>. HIDE DEF Without
    <2>. QED
      BY <1>1, SmallestOf
  <1>3. PICK T \in SUBSET Nat : IsFiniteSet(T) /\ Cardinality(T) = n /\ \A q : ~Lists(q, T)
    BY <1>2
  <1>4. CASE T = {}
    <2>1. n = 0
      BY <1>3, <1>4, FS_EmptySet
    <2>2. Lists([i \in 1 .. 0 |-> i], T)
      BY <2>1, <1>3, <1>4 DEF Lists
    <2>. QED
      BY <2>2, <1>3
  <1>5. CASE T # {}
    <2>1. PICK x \in T : \A y \in T : x <= y
      BY <1>5, SmallestOf
    <2>2. IsFiniteSet(T \ {x}) /\ Cardinality(T \ {x}) = n - 1 /\ n - 1 \in Nat
      <3>1. IsFiniteSet(T \ {x}) /\ Cardinality(T \ {x}) = n - 1
        BY <1>3, <2>1, FS_RemoveElement
      <3>2. Cardinality(T \ {x}) \in Nat
        BY <3>1, FS_CardinalityType
      <3>. QED
        BY <3>1, <3>2
    <2>3. ~Without(n - 1)
      <3>. HIDE DEF Without
      <3>. QED
        BY <1>2, <2>2
    <2>4. PICK q : Lists(q, T \ {x})
      BY <2>2, <2>3
    <2>. DEFINE r == [i \in 1 .. n |-> IF i = 1 THEN x ELSE q[i - 1]]
    <2>5. /\ \A i \in 1 .. n : i # 1 => i - 1 \in 1 .. n - 1
          /\ \A i \in 1 .. n - 1 : q[i] \in T \ {x}
          /\ \A i, j \in 1 .. n - 1 : i < j => q[i] < q[j]
      <3>1. /\ q \in [1 .. n - 1 -> T \ {x}]
            /\ \A i, j \in 1 .. n - 1 : i < j => q[i] < q[j]
        BY <2>2, <2>4 DEF Lists
      <3>2. \A i \in 1 .. n : i # 1 => i - 1 \in 1 .. n - 1
        OBVIOUS
      <3>. QED
        BY <3>1, <3>2
    <2>6. \A i \in 1 .. n : r[i] \in T
      BY <2>1, <2>5
    <2>7. \A i, j \in 1 .. n : i < j => r[i] < r[j]
      <3>. SUFFICES ASSUME NEW i \in 1 .. n, NEW j \in 1 .. n, i < j PROVE r[i] < r[j]
        OBVIOUS
      <3>1. j # 1 /\ j - 1 \in 1 .. n - 1 /\ r[j] = q[j - 1] /\ q[j - 1] \in T \ {x}
        BY <2>5
      <3>2. CASE i = 1
        <4>1. x <= q[j - 1] /\ q[j - 1] # x /\ x \in Nat /\ q[j - 1] \in Nat
          BY <2>1, <3>1
        <4>. QED
          BY <4>1, <3>1, <3>2
      <3>3. CASE i # 1
        <4>1. i - 1 \in 1 .. n - 1 /\ i - 1 < j - 1 /\ r[i] = q[i - 1]
          BY <2>5, <3>3
        <4>. QED
          BY <4>1, <3>1, <2>5
      <3>. QED
        BY <3>2, <3>3
    <2>8. Lists(r, T)
      BY <2>6, <2>7, <1>3 DEF Lists
    <2>. QED
      BY <2>8, <1>3
  <1>. QED
    BY <1>4, <1>5

LEMMA SortedLists ==
  ASSUME NEW S \in SUBSET Nat, IsFiniteSet(S)
  PROVE  /\ Sorted(S) \in Seq(S) /\ Len(Sorted(S)) = Cardinality(S)
         /\ {Sorted(S)[i] : i \in DOMAIN Sorted(S)} = S
         /\ \A i, j \in DOMAIN Sorted(S) : i < j => Sorted(S)[i] < Sorted(S)[j]
  <1>. DEFINE n == Cardinality(S)
              Ascends(q) == \A i, j \in DOMAIN q : i < j => q[i] < q[j]
  <1>1. n \in Nat
    BY FS_CardinalityType
  <1>2. \E q \in [1 .. n -> S] : Ascends(q)
    <2>1. PICK q : Lists(q, S)
      BY SomeList
    <2>. QED
      BY <2>1 DEF Lists
  <1>. DEFINE s == Sorted(S)
  <1>3. s \in [1 .. n -> S] /\ Ascends(s)
    BY <1>2 DEF Sorted
  <1>. HIDE DEF s
  <1>4. \A i, j \in 1 .. n : s[i] = s[j] => i = j
    <2>. SUFFICES ASSUME NEW i \in 1 .. n, NEW j \in 1 .. n, s[i] = s[j], i # j PROVE FALSE
      OBVIOUS
    <2>1. i < j \/ j < i
      OBVIOUS
    <2>2. s[i] \in Nat /\ s[j] \in Nat
      BY <1>3
    <2>. QED
      BY <1>3, <2>1, <2>2
  <1>5. s \in Injection(1 .. n, S)
    BY <1>3, <1>4 DEF Injection, IsInjective
  <1>6. Cardinality(1 .. n) = n
    BY <1>1, FS_Interval
  <1>7. s \in Surjection(1 .. n, S)
    BY <1>5, <1>6, FS_Injection
  <1>8. {s[i] : i \in 1 .. n} = S
    BY <1>3, <1>7 DEF Surjection
  <1>9. s \in Seq(S) /\ Len(s) = n
    BY <1>1, <1>3
  <1>. QED
    BY <1>3, <1>8, <1>9 DEF s
(* A list that ascends and leaves out no smaller element of the set begins    *)
(* the sorted list of it.                                                     *)
LEMMA SortedBegins ==
  ASSUME NEW S \in SUBSET Nat, IsFiniteSet(S), NEW n \in Nat, NEW w \in [1 .. n -> S],
         \A i, j \in 1 .. n : i < j => w[i] < w[j],
         \A i \in 1 .. n : \A x \in S : x < w[i] => \E j \in 1 .. n : w[j] = x
  PROVE  /\ n <= Len(Sorted(S))
         /\ \A i \in 1 .. n : w[i] = Sorted(S)[i]
         /\ (\A x \in S : \E j \in 1 .. n : w[j] = x) => n = Len(Sorted(S))
  <1>. DEFINE s == Sorted(S)
              m == Len(s)
  <1>1. /\ m \in Nat /\ DOMAIN s = 1 .. m
        /\ \A i \in 1 .. m : s[i] \in S
        /\ \A x \in S : \E i \in 1 .. m : s[i] = x
        /\ \A i, j \in 1 .. m : i < j => s[i] < s[j]
    BY SortedLists
  <1>. HIDE DEF s, m
  <1>2. \A i \in 1 .. n : i \in 1 .. m /\ w[i] = s[i]
    <2>. DEFINE Bad == {i \in 1 .. n : ~(i \in 1 .. m /\ w[i] = s[i])}
    <2>. SUFFICES ASSUME Bad # {} PROVE FALSE
      OBVIOUS
    <2>1. PICK i \in Bad : \A j \in Bad : i <= j
      <3>1. Bad \in SUBSET Nat
        OBVIOUS
      <3>. HIDE DEF Bad
      <3>. QED
        BY <3>1, SmallestOf
    <2>2. \A j \in 1 .. n : j < i => j \in 1 .. m /\ w[j] = s[j]
      BY <2>1
    <2>3. w[i] \in S /\ i \in 1 .. n
      BY <2>1
    <2>4. PICK j \in 1 .. m : s[j] = w[i]
      BY <1>1, <2>3
    <2>5. ~(j < i)
      <3>. SUFFICES ASSUME j < i PROVE FALSE
        OBVIOUS
      <3>0. j \in 1 .. n
        BY <1>1, <2>3
      <3>1. w[j] = s[j] /\ w[j] < w[i] /\ w[i] \in Nat
        BY <3>0, <2>2, <2>3
      <3>. QED
        BY <3>1, <2>4
    <2>6. CASE i = j
      BY <2>6, <2>4, <2>1
    <2>7. CASE i < j
      <3>1. i \in 1 .. m /\ s[i] < s[j] /\ s[i] \in S
        BY <2>7, <2>3, <1>1
      <3>2. PICK l \in 1 .. n : w[l] = s[i]
        BY <3>1, <2>3, <2>4
      <3>3. l < i
        <4>1. w[l] < w[i]
          BY <3>1, <3>2, <2>4
        <4>2. w[l] \in Nat /\ w[i] \in Nat /\ (i < l => w[i] < w[l])
          BY <3>2, <2>3
        <4>. QED
          BY <4>1, <4>2, <2>3, <3>2
      <3>4. l \in 1 .. m /\ s[l] = s[i] /\ s[l] < s[i] /\ s[i] \in Nat
        BY <3>3, <3>2, <3>1, <2>2, <1>1
      <3>. QED
        BY <3>4
    <2>. QED
      BY <2>5, <2>6, <2>7, <2>3, <2>4
  <1>3. n <= m
    BY <1>1, <1>2
  <1>4. ASSUME \A x \in S : \E j \in 1 .. n : w[j] = x PROVE n = m
    <2>. SUFFICES ASSUME n < m PROVE FALSE
      BY <1>1, <1>3
    <2>1. m \in 1 .. m /\ s[m] \in S
      BY <1>1
    <2>2. PICK j \in 1 .. n : w[j] = s[m]
      BY <1>4, <2>1
    <2>3. j \in 1 .. m /\ j < m /\ s[j] = s[m]
      BY <1>1, <1>2, <2>2
    <2>4. s[j] < s[m] /\ s[m] \in Nat
      BY <1>1, <2>1, <2>3
    <2>. QED
      BY <2>3, <2>4
  <1>. QED
    BY <1>2, <1>3, <1>4 DEF s, m
===============================================================================
