------------------------- MODULE DecisionReviewProofs -------------------------
(***************************************************************************)
(* Proofs about DecisionReview and the engine of Allocation.               *)
(*                                                                         *)
(* The engine is folds and loops over what it is given, so the first part  *)
(* proves, once, that a loop with a falling measure and a fold over a      *)
(* finite set are functions and keep what each of their turns keeps.  The  *)
(* next parts say what each cut of an order may change: Sound orders can   *)
(* be paid with the reserve, Light ones put no stock above its limit, and  *)
(* every later cut leaves sound orders sound and light orders light.  The  *)
(* last parts follow the computation from the first sale to the proposal,  *)
(* and the reviews from there.                                             *)
(***************************************************************************)
EXTENDS DecisionReview, FiniteSetTheorems, NaturalsInduction, WellFoundedInduction, TLAPS

-----------------------------------------------------------------------------
(* Counting up, loops, and folds over sets.                                *)

\* What holds of zero, and of a number when it holds of the one before, holds
\* of all of them.
LEMMA CountingUp ==
    ASSUME NEW n \in Nat, NEW T, 0 \in T, \A k \in 1..n : k - 1 \in T => k \in T
    PROVE  \A k \in 0..n : k \in T
<1> DEFINE Missed == {k \in 0..n : k \notin T}
<1> SUFFICES ASSUME Missed # {} PROVE FALSE
  OBVIOUS
<1>1. Missed \subseteq Nat
  OBVIOUS
<1> HIDE DEF Missed
<1>2. PICK x \in Missed : \A y \in Missed : <<y, x>> \notin OpToRel(<, Nat)
  BY <1>1, NatLessThanWellFounded, WFMin, Zenon
<1>3. \A y \in Missed : ~(y < x)
  BY <1>1, <1>2 DEF OpToRel
<1>4. x - 1 \notin Missed
  BY <1>1, <1>3
<1> QED BY <1>4 DEF Missed

\* What holds of the empty set, and of a set when it holds of it without one of
\* its members, holds of a finite set.
LEMMA SetInduction ==
    ASSUME NEW S, IsFiniteSet(S), NEW P, {} \in P,
           \A T \in SUBSET S : T # {} => \E s \in T : T \ {s} \in P => T \in P
    PROVE  S \in P
<1> DEFINE Q == {k \in Nat : \A T \in SUBSET S : Cardinality(T) = k => T \in P}
<1>1. \A T \in SUBSET S : IsFiniteSet(T) /\ Cardinality(T) \in Nat
  BY FS_Subset, FS_CardinalityType
<1>2. PICK n \in Nat : n = Cardinality(S)
  BY <1>1
<1>3. 0 \in Q
  <2>1. \A T \in SUBSET S : Cardinality(T) = 0 => T = {}
    BY <1>1, FS_EmptySet
  <2> QED BY <2>1
<1>4. ASSUME NEW k \in 1..n, k - 1 \in Q PROVE k \in Q
  <2> SUFFICES ASSUME NEW T \in SUBSET S, Cardinality(T) = k PROVE T \in P
    OBVIOUS
  <2>1. T # {}
    <3>1. Cardinality({}) = 0
      BY FS_EmptySet
    <3> QED BY <3>1
  <2>2. PICK s \in T : T \ {s} \in P => T \in P
    BY <2>1
  <2>3. Cardinality(T \ {s}) = k - 1
    BY <1>1, FS_RemoveElement
  <2>4. T \ {s} \in P
    BY <1>4, <2>3
  <2> QED BY <2>2, <2>4
<1>5. n \in Q
  <2> HIDE DEF Q
  <2> QED BY <1>3, <1>4, CountingUp
<1> QED BY <1>2, <1>5

\* A loop that ends where Done says and otherwise goes on with g, which brings a
\* measure down, is a function.
LoopOf(f, D, Done, g, h) == f = [x \in D |-> IF x \in Done THEN h[x] ELSE f[g[x]]]

Falls(D, Done, g, m) ==
    /\ g \in [D -> D] /\ m \in [D -> Nat]
    /\ \A x \in D : x \notin Done => m[g[x]] < m[x]

\* Where it ends, and what it keeps.
LEMMA LoopKeeps ==
    ASSUME NEW f, NEW D, NEW Done, NEW g, NEW h, NEW m,
           LoopOf(f, D, Done, g, h), Falls(D, Done, g, m),
           NEW I \in SUBSET D, \A x \in I : x \notin Done => g[x] \in I, NEW start \in I
    PROVE  \E y \in I : y \in Done /\ f[start] = h[y]
<1> DEFINE Q == {k \in Nat : \A x \in I : m[x] <= k => \E y \in I : y \in Done /\ f[x] = h[y]}
<1>0. \A x \in D : m[x] \in Nat /\ g[x] \in D
  BY DEF Falls
<1>1. \A x \in D : f[x] = IF x \in Done THEN h[x] ELSE f[g[x]]
  BY DEF LoopOf
<1>2. \A x \in D : x \notin Done => m[g[x]] < m[x]
  BY DEF Falls
<1>3. 0 \in Q
  <2> SUFFICES ASSUME NEW x \in I, m[x] <= 0 PROVE \E y \in I : y \in Done /\ f[x] = h[y]
    OBVIOUS
  <2>1. x \in Done
    BY <1>0, <1>2
  <2> QED BY <1>1, <2>1
<1>4. PICK n \in Nat : n = m[start]
  BY <1>0
<1>5. ASSUME NEW k \in 1..n, k - 1 \in Q PROVE k \in Q
  <2> SUFFICES ASSUME NEW x \in I, m[x] <= k PROVE \E y \in I : y \in Done /\ f[x] = h[y]
    OBVIOUS
  <2>1. CASE x \in Done
    BY <1>1, <2>1
  <2>2. CASE x \notin Done
    <3>1. g[x] \in I /\ m[g[x]] <= k - 1
      BY <1>0, <1>2, <2>2
    <3>2. \E y \in I : y \in Done /\ f[g[x]] = h[y]
      BY <1>5, <3>1
    <3>3. f[x] = f[g[x]]
      BY <1>1, <2>2
    <3> QED BY <3>2, <3>3
  <2> QED BY <2>1, <2>2
<1>6. n \in Q
  <2> HIDE DEF Q
  <2> QED BY <1>3, <1>5, CountingUp
<1> QED BY <1>4, <1>6

LEMMA LoopExists ==
    ASSUME NEW D, NEW Done, NEW g, NEW h, NEW m, Falls(D, Done, g, m)
    PROVE  \E f : LoopOf(f, D, Done, g, h)
<1> DEFINE Upto(k) == {x \in D : m[x] <= k}
           Good(f, k) == \A x \in Upto(k) : f[x] = IF x \in Done THEN h[x] ELSE f[g[x]]
           Q == {k \in Nat : \E f : Good(f, k)}
           F == [k \in Nat |-> CHOOSE f : Good(f, k)]
           f == [x \in D |-> F[m[x]][x]]
<1>0. \A x \in D : m[x] \in Nat /\ g[x] \in D
  BY DEF Falls
<1>1. \A x \in D : x \notin Done => m[g[x]] < m[x]
  BY DEF Falls
<1>2. 0 \in Q
  <2>1. \A x \in Upto(0) : x \in Done
    BY <1>0, <1>1
  <2>2. Good([x \in D |-> h[x]], 0)
    BY <2>1
  <2>3. \E ff : Good(ff, 0)
    BY <2>2
  <2> QED BY <2>3
<1>3. ASSUME NEW n \in Nat PROVE \E ff : Good(ff, n)
  <2>1. ASSUME NEW k \in 1..n, k - 1 \in Q PROVE k \in Q
    <3>1. PICK e : Good(e, k - 1)
      BY <2>1
    <3> DEFINE e2 == [x \in D |-> IF x \in Done THEN h[x]
                                  ELSE IF m[x] <= k - 1 THEN e[x] ELSE e[g[x]]]
    <3>2. ASSUME NEW x \in Upto(k) PROVE e2[x] = IF x \in Done THEN h[x] ELSE e2[g[x]]
      <4>1. CASE x \in Done
        BY <4>1
      <4>2. CASE x \notin Done
        <5>1. g[x] \in Upto(k - 1)
          BY <1>0, <1>1, <4>2
        <5>2. e2[g[x]] = e[g[x]]
          BY <3>1, <5>1
        <5>3. e2[x] = e[g[x]]
          BY <3>1, <4>2
        <5> QED BY <4>2, <5>2, <5>3
      <4> QED BY <4>1, <4>2
    <3>3. Good(e2, k)
      BY <3>2
    <3>4. \E ff : Good(ff, k)
      <4> HIDE DEF e2, Good
      <4> QED BY <3>3
    <3> QED BY <3>4
  <2>2. n \in Q
    <3> HIDE DEF Q
    <3> QED BY <1>2, <2>1, CountingUp
  <2> QED BY <2>2
<1>4. ASSUME NEW k \in Nat PROVE Good(F[k], k)
  <2>1. \E ff : Good(ff, k)
    BY <1>3
  <2>2. Good(CHOOSE ff : Good(ff, k), k)
    <3> HIDE DEF Good
    <3> QED BY <2>1
  <2>3. F[k] = CHOOSE ff : Good(ff, k)
    OBVIOUS
  <2> HIDE DEF Good, F
  <2> QED BY <2>2, <2>3
<1>5. ASSUME NEW x \in D, NEW j \in Nat, NEW k \in Nat, m[x] <= j, m[x] <= k
      PROVE  F[j][x] = F[k][x]
  <2> DEFINE R == {i \in Nat : \A y \in D : \A a, b \in Nat :
                      m[y] <= i /\ m[y] <= a /\ m[y] <= b => F[a][y] = F[b][y]}
  <2> HIDE DEF F
  <2>1. ASSUME NEW y \in D, NEW a \in Nat, m[y] <= a
        PROVE  F[a][y] = IF y \in Done THEN h[y] ELSE F[a][g[y]]
    BY <1>4, <2>1
  <2>2. 0 \in R
    <3> SUFFICES ASSUME NEW y \in D, NEW a \in Nat, NEW b \in Nat,
                        m[y] <= 0, m[y] <= a, m[y] <= b
                 PROVE  F[a][y] = F[b][y]
      OBVIOUS
    <3>1. y \in Done
      BY <1>0, <1>1
    <3> QED BY <2>1, <3>1
  <2>3. ASSUME NEW i \in 1..m[x], i - 1 \in R PROVE i \in R
    <3> SUFFICES ASSUME NEW y \in D, NEW a \in Nat, NEW b \in Nat,
                        m[y] <= i, m[y] <= a, m[y] <= b
                 PROVE  F[a][y] = F[b][y]
      OBVIOUS
    <3>1. CASE y \in Done
      BY <2>1, <3>1
    <3>2. CASE y \notin Done
      <4>1. g[y] \in D /\ m[g[y]] <= i - 1 /\ m[g[y]] <= a /\ m[g[y]] <= b
        BY <1>0, <1>1, <3>2
      <4>2. F[a][g[y]] = F[b][g[y]]
        BY <2>3, <4>1
      <4> QED BY <2>1, <3>2, <4>2
    <3> QED BY <3>1, <3>2
  <2>4. m[x] \in Nat
    BY <1>0
  <2>5. m[x] \in R
    <3> HIDE DEF R
    <3> QED BY <2>2, <2>3, <2>4, CountingUp
  <2> QED BY <1>5, <2>4, <2>5
<1>6. ASSUME NEW x \in D PROVE f[x] = IF x \in Done THEN h[x] ELSE f[g[x]]
  <2> HIDE DEF F
  <2>1. m[x] \in Nat /\ f[x] = F[m[x]][x]
    BY <1>0
  <2>2. F[m[x]][x] = IF x \in Done THEN h[x] ELSE F[m[x]][g[x]]
    BY <1>4, <2>1
  <2>3. CASE x \notin Done
    <3>1. g[x] \in D /\ m[g[x]] \in Nat /\ m[g[x]] <= m[x]
      BY <1>0, <1>1, <2>3
    <3>2. f[g[x]] = F[m[g[x]]][g[x]]
      BY <3>1
    <3>3. F[m[g[x]]][g[x]] = F[m[x]][g[x]]
      BY <1>5, <2>1, <3>1
    <3> QED BY <2>1, <2>2, <2>3, <3>2, <3>3
  <2> QED BY <2>1, <2>2, <2>3
<1>7. f = [x \in D |-> IF x \in Done THEN h[x] ELSE f[g[x]]]
  <2>1. f = [x \in D |-> f[x]]
    OBVIOUS
  <2> HIDE DEF f
  <2> QED BY <1>6, <2>1
<1>8. LoopOf(f, D, Done, g, h)
  BY <1>7 DEF LoopOf
<1> HIDE DEF f
<1> QED BY <1>8

\* Of some numbers there is a largest and a smallest, by a key.
Keyed(S, key) == \A s \in S : key[s] \in Int

LEMMA KeyExtremes ==
    ASSUME NEW S, IsFiniteSet(S), S # {}, NEW key, Keyed(S, key)
    PROVE  /\ Last(S, key) \in S /\ \A t \in S : key[t] <= key[Last(S, key)]
           /\ First(S, key) \in S /\ \A t \in S : key[First(S, key)] <= key[t]
<1> DEFINE P == {T \in SUBSET S : T = {} \/
                    /\ \E s \in T : \A t \in T : key[t] <= key[s]
                    /\ \E s \in T : \A t \in T : key[s] <= key[t]}
<1>1. {} \in P
  OBVIOUS
<1>2. ASSUME NEW T \in SUBSET S, T # {} PROVE \E x \in T : T \ {x} \in P => T \in P
  <2>1. PICK x \in T : TRUE
    BY <1>2
  <2> SUFFICES ASSUME T \ {x} \in P PROVE T \in P
    BY <2>1, Zenon
  <2>2. \A s \in T : key[s] \in Int
    BY DEF Keyed
  <2>3. CASE T \ {x} = {}
    <3>1. \A t \in T : t = x
      BY <2>3
    <3>2. \A t \in T : key[t] <= key[x] /\ key[x] <= key[t]
      BY <2>2, <3>1
    <3> QED BY <3>2
  <2>4. CASE T \ {x} # {}
    <3>1. PICK a \in T \ {x} : \A t \in T \ {x} : key[t] <= key[a]
      BY <2>4
    <3>2. PICK b \in T \ {x} : \A t \in T \ {x} : key[b] <= key[t]
      BY <2>4
    <3>3. \E s \in T : \A t \in T : key[t] <= key[s]
      <4>1. CASE key[x] <= key[a]
        BY <3>1, <4>1
      <4>2. CASE ~(key[x] <= key[a])
        <5>1. \A t \in T : key[t] <= key[x]
          BY <2>2, <3>1, <4>2
        <5> QED BY <5>1
      <4> QED BY <4>1, <4>2
    <3>4. \E s \in T : \A t \in T : key[s] <= key[t]
      <4>1. CASE key[b] <= key[x]
        BY <3>2, <4>1
      <4>2. CASE ~(key[b] <= key[x])
        <5>1. \A t \in T : key[x] <= key[t]
          BY <2>2, <3>2, <4>2
        <5> QED BY <5>1
      <4> QED BY <4>1, <4>2
    <3> QED BY <3>3, <3>4
  <2> QED BY <2>3, <2>4
<1>3. S \in P
  <2> HIDE DEF P
  <2> QED BY <1>1, <1>2, SetInduction
<1>4. \E s \in S : \A t \in S : key[t] <= key[s]
  BY <1>3
<1>5. \E s \in S : \A t \in S : key[s] <= key[t]
  BY <1>3
<1> QED BY <1>4, <1>5 DEF First, Last

\* If no two have the same key, every place is taken by one of them.
LEMMA SortedIs ==
    ASSUME NEW S, IsFiniteSet(S), NEW key, Keyed(S, key),
           \A s, t \in S : key[s] = key[t] => s = t,
           NEW i \in 1..Cardinality(S)
    PROVE  Sorted(S, key)[i] \in S
<1> DEFINE Below(s) == {t \in S : key[t] < key[s]}
           f == [s \in S |-> Cardinality(Below(s))]
<1>1. PICK n \in Nat : n = Cardinality(S)
  BY FS_CardinalityType
<1>2. \A s \in S : IsFiniteSet(Below(s)) /\ Cardinality(Below(s)) \in Nat
  BY FS_Subset, FS_CardinalityType
<1>3. ASSUME NEW s \in S PROVE Cardinality(Below(s)) \in 0..(n - 1)
  <2>1. s \notin Below(s) /\ Below(s) \subseteq S
    BY DEF Keyed
  <2>2. IsFiniteSet(S \ {s}) /\ Cardinality(S \ {s}) = n - 1
    BY <1>1, FS_RemoveElement
  <2>3. Below(s) \in SUBSET (S \ {s})
    BY <2>1
  <2>4. Cardinality(Below(s)) <= n - 1
    <3> HIDE DEF Below
    <3> QED BY <2>2, <2>3, FS_Subset
  <2> QED BY <1>1, <1>2, <2>4
<1>4. ASSUME NEW s \in S, NEW t \in S, key[s] < key[t]
      PROVE  Cardinality(Below(s)) # Cardinality(Below(t))
  <2>1. key[s] \in Int /\ key[t] \in Int
    BY DEF Keyed
  <2>2. \A r \in S : key[r] \in Int
    BY DEF Keyed
  <2>3. Below(s) \in SUBSET Below(t) /\ s \in Below(t) /\ s \notin Below(s)
    BY <1>4, <2>1, <2>2
  <2>4. IsFiniteSet(Below(t))
    BY <1>2
  <2> HIDE DEF Below
  <2> QED BY <2>3, <2>4, FS_Subset
<1>5. \A s, t \in S : f[s] = f[t] => s = t
  <2> SUFFICES ASSUME NEW s \in S, NEW t \in S, s # t PROVE f[s] # f[t]
    OBVIOUS
  <2>1. f[s] = Cardinality(Below(s)) /\ f[t] = Cardinality(Below(t))
    OBVIOUS
  <2>2. key[s] < key[t] \/ key[t] < key[s]
    BY DEF Keyed
  <2> HIDE DEF f, Below
  <2> QED BY <1>4, <2>1, <2>2
<1>6. f \in [S -> 0..(n - 1)]
  BY <1>3
<1>7. f \in Injection(S, 0..(n - 1))
  <2> HIDE DEF f
  <2> QED BY <1>5, <1>6 DEF Injection, IsInjective
<1>8. IsFiniteSet(0..(n - 1)) /\ Cardinality(0..(n - 1)) = n
  BY FS_Interval
<1>9. f \in Surjection(S, 0..(n - 1))
  <2> HIDE DEF f
  <2> QED BY <1>1, <1>7, <1>8, FS_Injection
<1>10. i - 1 \in 0..(n - 1)
  BY <1>1
<1>11. \E s \in S : f[s] = i - 1
  <2> HIDE DEF f
  <2> QED BY <1>9, <1>10 DEF Surjection
<1>12. \E s \in S : Cardinality(Below(s)) = i - 1
  BY <1>11
<1>13. Sorted(S, key)[i] = CHOOSE s \in S : Cardinality(Below(s)) = i - 1
  BY DEF Sorted
<1> HIDE DEF Below
<1> QED BY <1>12, <1>13

\* A fold of the library over a set, which takes c[T] of what is left; there is
\* one. G gives the step: of a member and a value so far, the next value.
FoldOver(f, A, base, S, c, G) ==
    /\ f[{}] = base
    /\ \A T \in SUBSET S : T # {} /\ f[T \ {c[T]}] \in A => f[T] = G[<<c[T], f[T \ {c[T]}]>>]
Chooses(S, c) == \A T \in SUBSET S : T # {} => c[T] \in T
Goes(F, S, A, base, G, value) ==
    /\ F \in [SUBSET S -> A] /\ F[{}] = base /\ F[S] = value
    /\ \A T \in SUBSET S : T # {} => \E s \in T : F[T] = G[<<s, F[T \ {s}]>>]

Folded(f, A, base, S, c, G) ==
    /\ \A T \in SUBSET S : f[T] \in A
    /\ f = [T \in SUBSET S |-> IF T = {} THEN base ELSE G[<<c[T], f[T \ {c[T]}]>>]]

LEMMA SetFoldExists ==
    ASSUME NEW S, IsFiniteSet(S), NEW A, NEW base \in A, NEW c, Chooses(S, c),
           NEW G \in [S \X A -> A]
    PROVE  \E f : Folded(f, A, base, S, c, G)
<1> DEFINE size == [T \in SUBSET S |-> Cardinality(T)]
           rest == [T \in SUBSET S |-> T \ {c[T]}]
           Upto(k) == {T \in SUBSET S : size[T] <= k}
           Value(f, T) == IF T = {} THEN base ELSE G[<<c[T], f[rest[T]]>>]
           Good(f, k) == \A T \in Upto(k) : f[T] \in A /\ f[T] = Value(f, T)
           Q == {k \in Nat : \E f : Good(f, k)}
<1>1. \A T \in SUBSET S : /\ size[T] \in Nat
                          /\ T # {} => /\ c[T] \in S /\ rest[T] \in SUBSET S
                                       /\ size[rest[T]] = size[T] - 1
  <2> SUFFICES ASSUME NEW T \in SUBSET S
               PROVE  /\ size[T] \in Nat
                      /\ T # {} => /\ c[T] \in S /\ rest[T] \in SUBSET S
                                   /\ size[rest[T]] = size[T] - 1
    OBVIOUS
  <2>1. IsFiniteSet(T) /\ Cardinality(T) \in Nat
    BY FS_Subset, FS_CardinalityType
  <2>2. ASSUME T # {} PROVE c[T] \in T /\ Cardinality(T \ {c[T]}) = Cardinality(T) - 1
    <3>1. c[T] \in T
      BY <2>2 DEF Chooses
    <3> QED BY <2>1, <3>1, FS_RemoveElement
  <2> QED BY <2>1, <2>2
<1>0. \A T \in SUBSET S : size[T] = Cardinality(T) /\ rest[T] = T \ {c[T]}
  OBVIOUS
<1> HIDE DEF size, rest
<1>2. \A T \in SUBSET S : T # {} => size[T] > 0
  <2> SUFFICES ASSUME NEW T \in SUBSET S, T # {} PROVE size[T] > 0
    OBVIOUS
  <2>1. size[T] \in Nat /\ size[rest[T]] \in Nat /\ size[rest[T]] = size[T] - 1
    BY <1>1
  <2> QED BY <2>1
<1>3. 0 \in Q
  <2>1. \A T \in Upto(0) : T = {}
    BY <1>1, <1>2
  <2>2. Good([T \in SUBSET S |-> base], 0)
    BY <2>1
  <2>3. \E f : Good(f, 0)
    BY <2>2
  <2> QED BY <2>3
<1>4. PICK n \in Nat : n = size[S]
  BY <1>1
<1>5. ASSUME NEW k \in 1..n, k - 1 \in Q PROVE k \in Q
  <2>1. PICK f : Good(f, k - 1)
    BY <1>5
  <2> DEFINE f2 == [T \in SUBSET S |-> IF size[T] <= k - 1 THEN f[T] ELSE Value(f, T)]
  <2>2. ASSUME NEW T \in Upto(k) PROVE f2[T] \in A /\ f2[T] = Value(f2, T)
    <3>0. T \in SUBSET S /\ size[T] <= k /\ size[T] \in Nat
      BY <1>1
    <3>1. CASE T = {}
      <4>1. f2[T] = base
        BY <2>1, <3>0, <3>1
      <4> QED BY <3>1, <4>1
    <3>2. CASE T # {}
      <4>1. c[T] \in S /\ rest[T] \in Upto(k - 1)
        <5>1. c[T] \in S /\ rest[T] \in SUBSET S /\ size[rest[T]] = size[T] - 1
          BY <1>1, <3>0, <3>2
        <5> QED BY <3>0, <5>1
      <4>2. f[rest[T]] \in A /\ f2[rest[T]] = f[rest[T]]
        BY <2>1, <4>1
      <4>3. f2[T] = G[<<c[T], f[rest[T]]>>]
        BY <2>1, <3>2
      <4>4. G[<<c[T], f[rest[T]]>>] \in A
        BY <4>1, <4>2
      <4> QED BY <3>2, <4>2, <4>3, <4>4
    <3> QED BY <3>1, <3>2
  <2>3. Good(f2, k)
    BY <2>2
  <2>4. \E e : Good(e, k)
    <3> HIDE DEF f2, Good
    <3> QED BY <2>3
  <2>5. k \in Nat
    OBVIOUS
  <2> HIDE DEF Good
  <2> QED BY <2>4, <2>5
<1>6. n \in Q
  <2> HIDE DEF Q
  <2> QED BY <1>3, <1>5, CountingUp
<1>7. PICK f : Good(f, n)
  BY <1>6
<1>8. \A T \in SUBSET S : T \in Upto(n)
  <2> SUFFICES ASSUME NEW T \in SUBSET S PROVE size[T] <= size[S]
    BY <1>4
  <2>1. Cardinality(T) <= Cardinality(S)
    BY FS_Subset
  <2> QED BY <1>0, <2>1
<1> DEFINE g == [T \in SUBSET S |-> f[T]]
<1>9. ASSUME NEW T \in SUBSET S
      PROVE  g[T] \in A /\ g[T] = IF T = {} THEN base ELSE G[<<c[T], g[T \ {c[T]}]>>]
  <2>1. f[T] \in A /\ f[T] = Value(f, T)
    BY <1>7, <1>8
  <2>2. CASE T # {}
    <3>1. T \ {c[T]} \in SUBSET S /\ rest[T] = T \ {c[T]}
      BY <1>0
    <3> QED BY <2>1, <2>2, <3>1
  <2> QED BY <2>1, <2>2
<1>10. g = [T \in SUBSET S |-> IF T = {} THEN base ELSE G[<<c[T], g[T \ {c[T]}]>>]]
  <2>1. g = [T \in SUBSET S |-> g[T]]
    OBVIOUS
  <2> HIDE DEF g
  <2> QED BY <1>9, <2>1
<1>11. Folded(g, A, base, S, c, G)
  <2> HIDE DEF g
  <2> QED BY <1>9, <1>10 DEF Folded
<1> QED BY <1>11

LEMMA SetFoldGoes ==
    ASSUME NEW f, NEW S, IsFiniteSet(S), NEW A, NEW base \in A, NEW c, Chooses(S, c),
           NEW G \in [S \X A -> A], FoldOver(f, A, base, S, c, G)
    PROVE  \E F : Goes(F, S, A, base, G, f[S])
<1> DEFINE P == {T \in SUBSET S : f[T] \in A}
           F == [T \in SUBSET S |-> f[T]]
<1>1. ASSUME NEW T \in SUBSET S, T # {}, f[T \ {c[T]}] \in A
      PROVE  c[T] \in T /\ f[T] \in A /\ f[T] = G[<<c[T], f[T \ {c[T]}]>>]
  <2>1. c[T] \in T
    BY <1>1 DEF Chooses
  <2>2. f[T] = G[<<c[T], f[T \ {c[T]}]>>]
    BY <1>1 DEF FoldOver
  <2>3. G[<<c[T], f[T \ {c[T]}]>>] \in A
    BY <1>1, <2>1
  <2> QED BY <2>1, <2>2, <2>3
<1>2. ASSUME NEW R \in SUBSET S PROVE f[R] \in A
  <2>1. {} \in P
    BY DEF FoldOver
  <2>2. ASSUME NEW T \in SUBSET R, T # {} PROVE \E s \in T : T \ {s} \in P => T \in P
    <3>1. c[T] \in T
      BY <2>2 DEF Chooses
    <3>2. T \ {c[T]} \in P => T \in P
      BY <1>1, <2>2
    <3> QED BY <3>1, <3>2
  <2>3. IsFiniteSet(R)
    BY FS_Subset
  <2>4. R \in P
    <3> HIDE DEF P
    <3> QED BY <2>1, <2>2, <2>3, SetInduction
  <2> QED BY <2>4
<1>3. F \in [SUBSET S -> A] /\ F[{}] = base /\ F[S] = f[S]
  BY <1>2 DEF FoldOver
<1>4. ASSUME NEW T \in SUBSET S, T # {} PROVE \E s \in T : F[T] = G[<<s, F[T \ {s}]>>]
  <2>1. T \ {c[T]} \in SUBSET S /\ f[T \ {c[T]}] \in A
    BY <1>2
  <2>2. c[T] \in T /\ f[T] = G[<<c[T], f[T \ {c[T]}]>>]
    BY <1>1, <1>4, <2>1
  <2>3. F[T] = G[<<c[T], F[T \ {c[T]}]>>]
    BY <2>1, <2>2
  <2> QED BY <2>2, <2>3
<1> HIDE DEF F
<1>5. Goes(F, S, A, base, G, f[S])
  BY <1>3, <1>4 DEF Goes
<1> QED BY <1>5

-----------------------------------------------------------------------------
(* Sums.                                                                   *)

Numbers(f, S) == \A s \in S : f[s] \in Int
SumRule(f, S, F) ==
    F = [T \in SUBSET S |-> IF T = {} THEN 0
                            ELSE LET x == CHOOSE x \in T : TRUE IN f[x] + F[T \ {x}]]
SumOver(f, S) == CHOOSE F : SumRule(f, S, F)

LEMMA SumRuled ==
    ASSUME NEW S, IsFiniteSet(S), NEW f, Numbers(f, S)
    PROVE  /\ SumRule(f, S, SumOver(f, S)) /\ Sum(f, S) = SumOver(f, S)[S]
           /\ \A T \in SUBSET S : SumOver(f, S)[T] \in Int
<1> DEFINE c == [T \in SUBSET S |-> CHOOSE x \in T : TRUE]
           G == [p \in S \X Int |-> f[p[1]] + p[2]]
<1>1. \A T \in SUBSET S : T # {} => c[T] \in T
  OBVIOUS
<1>2. Chooses(S, c)
  BY <1>1 DEF Chooses
<1>3. G \in [S \X Int -> Int] /\ \A s \in S, x \in Int : G[<<s, x>>] = f[s] + x
  BY DEF Numbers
<1>4. \A T \in SUBSET S : c[T] = CHOOSE x \in T : TRUE
  OBVIOUS
<1> HIDE DEF c, G
<1>5. PICK F : /\ \A T \in SUBSET S : F[T] \in Int
               /\ F = [T \in SUBSET S |-> IF T = {} THEN 0 ELSE G[<<c[T], F[T \ {c[T]}]>>]]
  <2>1. \E F : Folded(F, Int, 0, S, c, G)
    BY <1>2, <1>3, 0 \in Int, SetFoldExists
  <2> QED BY <2>1 DEF Folded
<1>6. ASSUME NEW T \in SUBSET S
      PROVE  F[T] = IF T = {} THEN 0 ELSE LET x == CHOOSE x \in T : TRUE IN f[x] + F[T \ {x}]
  <2>1. F[T] = IF T = {} THEN 0 ELSE G[<<c[T], F[T \ {c[T]}]>>]
    BY <1>5
  <2>2. ASSUME T # {} PROVE G[<<c[T], F[T \ {c[T]}]>>] = f[c[T]] + F[T \ {c[T]}]
    <3>1. c[T] \in S /\ F[T \ {c[T]}] \in Int
      BY <1>1, <1>5, <2>2
    <3> QED BY <1>3, <3>1
  <2> QED BY <1>4, <2>1, <2>2
<1>7. SumRule(f, S, F)
  <2>1. F = [T \in SUBSET S |-> F[T]]
    BY <1>5
  <2> QED BY <1>6, <2>1 DEF SumRule
<1>8. SumRule(f, S, SumOver(f, S))
  BY <1>7, Zenon DEF SumOver
<1>9. Sum(f, S) = SumOver(f, S)[S]
  BY DEF Sum, SumOver, SumRule, MapThenSumSet, MapThenFoldSet
<1>10. \A T \in SUBSET S : SumOver(f, S)[T] = F[T]
  <2> DEFINE H == SumOver(f, S)
             P == {T \in SUBSET S : H[T] = F[T]}
  <2>1. ASSUME NEW T \in SUBSET S
        PROVE  /\ H[T] = IF T = {} THEN 0 ELSE LET x == CHOOSE x \in T : TRUE IN f[x] + H[T \ {x}]
    BY <1>8 DEF SumRule
  <2> HIDE DEF H
  <2>2. {} \in P
    BY <1>6, <2>1
  <2>3. ASSUME NEW T \in SUBSET S, T # {} PROVE \E s \in T : T \ {s} \in P => T \in P
    <3>1. PICK x \in T : x = CHOOSE y \in T : TRUE
      BY <2>3
    <3>2. H[T] = f[x] + H[T \ {x}] /\ F[T] = f[x] + F[T \ {x}]
      BY <1>6, <2>1, <2>3, <3>1
    <3>3. T \ {x} \in P => T \in P
      BY <3>2
    <3> QED BY <3>3
  <2>4. ASSUME NEW R \in SUBSET S PROVE R \in P
    <3>1. IsFiniteSet(R)
      BY FS_Subset
    <3>2. \A T \in SUBSET R : T # {} => \E s \in T : T \ {s} \in P => T \in P
      BY <2>3
    <3> HIDE DEF P
    <3> QED BY <2>2, <3>1, <3>2, SetInduction
  <2> QED BY <2>4 DEF H
<1> QED BY <1>5, <1>8, <1>9, <1>10

LEMMA SumSteps ==
    ASSUME NEW S, IsFiniteSet(S), NEW f, Numbers(f, S)
    PROVE  /\ Sum(f, S) \in Int
           /\ S = {} => Sum(f, S) = 0
           /\ S # {} => \E s \in S : Sum(f, S) = f[s] + Sum(f, S \ {s})
<1>1. /\ SumRule(f, S, SumOver(f, S)) /\ Sum(f, S) = SumOver(f, S)[S]
      /\ \A T \in SUBSET S : SumOver(f, S)[T] \in Int
  BY SumRuled
<1>2. Sum(f, S) \in Int
  BY <1>1
<1>3. S = {} => Sum(f, S) = 0
  BY <1>1 DEF SumRule
<1>4. ASSUME S # {} PROVE \E s \in S : Sum(f, S) = f[s] + Sum(f, S \ {s})
  <2>1. PICK s \in S : s = CHOOSE x \in S : TRUE
    BY <1>4
  <2>2. SumOver(f, S)[S] = f[s] + SumOver(f, S)[S \ {s}]
    BY <1>1, <1>4, <2>1 DEF SumRule
  <2> DEFINE R == S \ {s}
             H == SumOver(f, S)
             K == SumOver(f, R)
             P == {T \in SUBSET R : H[T] = K[T]}
  <2>3. IsFiniteSet(R) /\ Numbers(f, R)
    BY FS_Subset DEF Numbers
  <2>4. SumRule(f, R, K) /\ Sum(f, R) = K[R]
    BY <2>3, SumRuled
  <2>5. ASSUME NEW T \in SUBSET R
        PROVE  /\ H[T] = IF T = {} THEN 0 ELSE LET x == CHOOSE x \in T : TRUE IN f[x] + H[T \ {x}]
               /\ K[T] = IF T = {} THEN 0 ELSE LET x == CHOOSE x \in T : TRUE IN f[x] + K[T \ {x}]
    <3>1. T \in SUBSET S
      OBVIOUS
    <3>2. SumRule(f, S, H)
      BY <1>1
    <3> HIDE DEF H, K, R
    <3> QED BY <2>4, <3>1, <3>2 DEF SumRule
  <2> HIDE DEF H, K
  <2>6. {} \in P
    BY <2>5
  <2>7. ASSUME NEW T \in SUBSET R, T # {} PROVE \E t \in T : T \ {t} \in P => T \in P
    <3>1. PICK x \in T : x = CHOOSE y \in T : TRUE
      BY <2>7
    <3>2. H[T] = f[x] + H[T \ {x}] /\ K[T] = f[x] + K[T \ {x}]
      BY <2>5, <2>7, <3>1
    <3>3. T \ {x} \in P => T \in P
      BY <3>2
    <3> QED BY <3>3
  <2>8. R \in P
    <3> HIDE DEF P, R
    <3> QED BY <2>3, <2>6, <2>7, SetInduction
  <2>9. Sum(f, S) = f[s] + Sum(f, S \ {s})
    BY <1>1, <2>2, <2>4, <2>8 DEF H
  <2> QED BY <2>9
<1> QED BY <1>2, <1>3, <1>4

LEMMA SumZero ==
    ASSUME NEW S, IsFiniteSet(S), NEW z, \A s \in S : z[s] = 0
    PROVE  Sum(z, S) = 0
<1> DEFINE P == {T \in SUBSET S : Sum(z, T) = 0}
<1>1. ASSUME NEW T \in SUBSET S
      PROVE  /\ T = {} => Sum(z, T) = 0
             /\ T # {} => \E s \in T : Sum(z, T) = z[s] + Sum(z, T \ {s})
  <2>1. IsFiniteSet(T) /\ Numbers(z, T)
    BY FS_Subset DEF Numbers
  <2> QED BY <2>1, SumSteps
<1>2. {} \in P
  BY <1>1
<1>3. ASSUME NEW T \in SUBSET S, T # {} PROVE \E s \in T : T \ {s} \in P => T \in P
  <2>1. PICK s \in T : Sum(z, T) = z[s] + Sum(z, T \ {s})
    BY <1>1, <1>3
  <2>2. T \ {s} \in P => T \in P
    BY <2>1
  <2> QED BY <2>2
<1>4. S \in P
  <2> HIDE DEF P
  <2> QED BY <1>2, <1>3, SetInduction
<1> QED BY <1>4

\* A member of the sum by itself.
LEMMA SumRemove ==
    ASSUME NEW S, IsFiniteSet(S), NEW f, Numbers(f, S), NEW x \in S
    PROVE  Sum(f, S) = f[x] + Sum(f, S \ {x})
<1> DEFINE P == {T \in SUBSET S : \A y \in T : Sum(f, T) = f[y] + Sum(f, T \ {y})}
           Q == {k \in Nat : \A T \in SUBSET S : Cardinality(T) = k => T \in P}
<1>1. ASSUME NEW T \in SUBSET S
      PROVE  /\ IsFiniteSet(T) /\ Cardinality(T) \in Nat /\ Numbers(f, T) /\ Sum(f, T) \in Int
             /\ T # {} => \E s \in T : Sum(f, T) = f[s] + Sum(f, T \ {s})
  <2>1. IsFiniteSet(T) /\ Cardinality(T) \in Nat
    BY FS_Subset, FS_CardinalityType
  <2>2. Numbers(f, T)
    BY DEF Numbers
  <2> QED BY <2>1, <2>2, SumSteps
<1>2. PICK n \in Nat : n = Cardinality(S)
  BY <1>1
<1>3. 0 \in Q
  <2>1. \A T \in SUBSET S : Cardinality(T) = 0 => T = {}
    BY <1>1, FS_EmptySet
  <2> QED BY <2>1
<1>4. ASSUME NEW k \in 1..n, k - 1 \in Q PROVE k \in Q
  <2> SUFFICES ASSUME NEW T \in SUBSET S, Cardinality(T) = k, NEW y \in T
               PROVE  Sum(f, T) = f[y] + Sum(f, T \ {y})
    OBVIOUS
  <2>1. PICK s \in T : Sum(f, T) = f[s] + Sum(f, T \ {s})
    BY <1>1
  <2>2. CASE s = y
    BY <2>1, <2>2
  <2>3. CASE s # y
    <3>1. Cardinality(T \ {s}) = k - 1 /\ Cardinality(T \ {y}) = k - 1
      BY <1>1, FS_RemoveElement
    <3>2. T \ {s} \in P /\ T \ {y} \in P
      BY <1>4, <3>1
    <3>3. Sum(f, T \ {s}) = f[y] + Sum(f, (T \ {s}) \ {y})
      BY <2>3, <3>2
    <3>4. Sum(f, T \ {y}) = f[s] + Sum(f, (T \ {y}) \ {s})
      BY <2>3, <3>2
    <3>5. (T \ {s}) \ {y} = (T \ {y}) \ {s}
      OBVIOUS
    <3>6. PICK a \in Int, b \in Int, r \in Int :
               a = f[s] /\ b = f[y] /\ r = Sum(f, (T \ {y}) \ {s})
      BY <1>1 DEF Numbers
    <3>7. Sum(f, T \ {s}) = b + r /\ Sum(f, T \ {y}) = a + r /\ Sum(f, T) = a + Sum(f, T \ {s})
      BY <2>1, <3>3, <3>4, <3>5, <3>6
    <3>8. Sum(f, T) = a + (b + r) /\ a + (b + r) = b + (a + r)
      BY <3>6, <3>7
    <3> QED BY <3>6, <3>7, <3>8
  <2> QED BY <2>2, <2>3
<1>5. n \in Q
  <2> HIDE DEF Q
  <2> QED BY <1>3, <1>4, CountingUp
<1>6. S \in P
  BY <1>2, <1>5
<1> QED BY <1>6

\* Smaller numbers have a smaller sum.
LEMMA SumLess ==
    ASSUME NEW S, IsFiniteSet(S), NEW f, NEW g, Numbers(f, S), Numbers(g, S),
           \A s \in S : f[s] <= g[s]
    PROVE  /\ Sum(f, S) \in Int /\ Sum(g, S) \in Int /\ Sum(f, S) <= Sum(g, S)
           /\ (\E s \in S : f[s] < g[s]) => Sum(f, S) < Sum(g, S)
<1> DEFINE P == {T \in SUBSET S : Sum(f, T) <= Sum(g, T)}
<1>1. ASSUME NEW T \in SUBSET S
      PROVE  /\ IsFiniteSet(T) /\ Numbers(f, T) /\ Numbers(g, T)
             /\ Sum(f, T) \in Int /\ Sum(g, T) \in Int
  <2>1. IsFiniteSet(T) /\ Numbers(f, T) /\ Numbers(g, T)
    BY FS_Subset DEF Numbers
  <2> QED BY <2>1, SumSteps
<1>2. {} \in P
  <2>1. Sum(f, {}) = 0 /\ Sum(g, {}) = 0
    BY <1>1, SumSteps
  <2> QED BY <2>1
<1>3. ASSUME NEW T \in SUBSET S, NEW s \in T
      PROVE  /\ Sum(f, T) = f[s] + Sum(f, T \ {s}) /\ Sum(g, T) = g[s] + Sum(g, T \ {s})
             /\ f[s] \in Int /\ g[s] \in Int /\ f[s] <= g[s]
             /\ Sum(f, T \ {s}) \in Int /\ Sum(g, T \ {s}) \in Int
  <2>1. Sum(f, T) = f[s] + Sum(f, T \ {s}) /\ Sum(g, T) = g[s] + Sum(g, T \ {s})
    BY <1>1, SumRemove
  <2> QED BY <1>1, <2>1 DEF Numbers
<1>4. ASSUME NEW R \in SUBSET S PROVE R \in P
  <2>1. ASSUME NEW T \in SUBSET R, T # {} PROVE \E s \in T : T \ {s} \in P => T \in P
    <3>1. PICK s \in T : TRUE
      BY <2>1
    <3>2. T \ {s} \in P => T \in P
      BY <1>3
    <3> QED BY <3>2
  <2>2. IsFiniteSet(R)
    BY <1>1
  <2> HIDE DEF P
  <2> QED BY <1>2, <2>1, <2>2, SetInduction
<1>5. Sum(f, S) <= Sum(g, S)
  BY <1>4
<1>6. ASSUME NEW s \in S, f[s] < g[s] PROVE Sum(f, S) < Sum(g, S)
  <2>1. Sum(f, S \ {s}) <= Sum(g, S \ {s})
    BY <1>4
  <2> QED BY <1>3, <1>6, <2>1
<1> QED BY <1>1, <1>5, <1>6

LEMMA SumSame ==
    ASSUME NEW S, IsFiniteSet(S), NEW f, NEW g, Numbers(f, S), \A s \in S : f[s] = g[s]
    PROVE  Sum(f, S) = Sum(g, S) /\ Sum(f, S) \in Int
<1>1. Numbers(g, S)
  BY DEF Numbers
<1>2. \A s \in S : f[s] <= g[s] /\ g[s] <= f[s]
  BY DEF Numbers
<1>3. Sum(f, S) \in Int /\ Sum(g, S) \in Int /\ Sum(f, S) <= Sum(g, S) /\ Sum(g, S) <= Sum(f, S)
  BY <1>1, <1>2, SumLess
<1> QED BY <1>3

\* One number changed.
LEMMA SumChanged ==
    ASSUME NEW S, IsFiniteSet(S), NEW f, NEW g, Numbers(f, S), Numbers(g, S), NEW x \in S,
           \A s \in S : s # x => f[s] = g[s]
    PROVE  /\ Sum(f, S) \in Int /\ Sum(g, S) \in Int
           /\ Sum(g, S) = Sum(f, S) - f[x] + g[x]
<1>1. IsFiniteSet(S \ {x}) /\ Numbers(f, S \ {x}) /\ Numbers(g, S \ {x})
  BY FS_Subset DEF Numbers
<1>2. Sum(f, S \ {x}) = Sum(g, S \ {x}) /\ Sum(f, S \ {x}) \in Int
  BY <1>1, SumSame
<1>3. Sum(f, S) = f[x] + Sum(f, S \ {x}) /\ Sum(g, S) = g[x] + Sum(g, S \ {x})
  BY SumRemove
<1>4. f[x] \in Int /\ g[x] \in Int
  BY DEF Numbers
<1> QED BY <1>2, <1>3, <1>4

\* A sum of sums.
LEMMA SumAdds ==
    ASSUME NEW S, IsFiniteSet(S), NEW f, NEW g, NEW h, Numbers(f, S), Numbers(g, S),
           \A s \in S : h[s] = f[s] + g[s]
    PROVE  /\ Sum(f, S) \in Int /\ Sum(g, S) \in Int /\ Sum(h, S) = Sum(f, S) + Sum(g, S)
<1> DEFINE P == {T \in SUBSET S : Sum(h, T) = Sum(f, T) + Sum(g, T)}
<1>1. ASSUME NEW T \in SUBSET S
      PROVE  /\ IsFiniteSet(T) /\ Numbers(f, T) /\ Numbers(g, T) /\ Numbers(h, T)
             /\ Sum(f, T) \in Int /\ Sum(g, T) \in Int /\ Sum(h, T) \in Int
  <2>1. IsFiniteSet(T) /\ Numbers(f, T) /\ Numbers(g, T) /\ Numbers(h, T)
    BY FS_Subset DEF Numbers
  <2> QED BY <2>1, SumSteps
<1>2. {} \in P
  <2>1. Sum(f, {}) = 0 /\ Sum(g, {}) = 0 /\ Sum(h, {}) = 0
    BY <1>1, SumSteps
  <2> QED BY <2>1
<1>3. ASSUME NEW T \in SUBSET S, T # {} PROVE \E s \in T : T \ {s} \in P => T \in P
  <2>1. PICK s \in T : TRUE
    BY <1>3
  <2>2. /\ Sum(f, T) = f[s] + Sum(f, T \ {s}) /\ Sum(g, T) = g[s] + Sum(g, T \ {s})
        /\ Sum(h, T) = h[s] + Sum(h, T \ {s})
    BY <1>1, SumRemove
  <2>3. f[s] \in Int /\ g[s] \in Int /\ h[s] = f[s] + g[s]
    BY DEF Numbers
  <2>4. Sum(f, T \ {s}) \in Int /\ Sum(g, T \ {s}) \in Int
    BY <1>1
  <2>5. T \ {s} \in P => T \in P
    BY <2>2, <2>3, <2>4
  <2> QED BY <2>5
<1>4. S \in P
  <2> HIDE DEF P
  <2> QED BY <1>2, <1>3, SetInduction
<1> QED BY <1>1, <1>4

\* The sum of a part is that of the whole with nothing elsewhere.
LEMMA SumPart ==
    ASSUME NEW S, IsFiniteSet(S), NEW R \in SUBSET S, NEW f, Numbers(f, R),
           NEW g, \A s \in S : g[s] = IF s \in R THEN f[s] ELSE 0
    PROVE  Sum(f, R) = Sum(g, S) /\ Sum(f, R) \in Int
<1> DEFINE P == {T \in SUBSET S : Sum(f, T \cap R) = Sum(g, T)}
<1>1. ASSUME NEW T \in SUBSET S
      PROVE  /\ IsFiniteSet(T) /\ IsFiniteSet(T \cap R) /\ Numbers(f, T \cap R) /\ Numbers(g, T)
             /\ Sum(f, T \cap R) \in Int /\ Sum(g, T) \in Int
  <2>1. IsFiniteSet(T) /\ IsFiniteSet(T \cap R)
    BY FS_Subset
  <2>2. Numbers(f, T \cap R) /\ Numbers(g, T)
    BY DEF Numbers
  <2> QED BY <2>1, <2>2, SumSteps
<1>2. {} \in P
  <2>1. Sum(f, {} \cap R) = 0 /\ Sum(g, {}) = 0
    BY <1>1, SumSteps, {} \cap R = {}
  <2> QED BY <2>1
<1>3. ASSUME NEW T \in SUBSET S, T # {} PROVE \E s \in T : T \ {s} \in P => T \in P
  <2>1. PICK s \in T : TRUE
    BY <1>3
  <2>2. Sum(g, T) = g[s] + Sum(g, T \ {s}) /\ Sum(g, T \ {s}) \in Int
    BY <1>1, SumRemove
  <2>3. CASE s \in R
    <3>1. (T \cap R) \ {s} = (T \ {s}) \cap R
      OBVIOUS
    <3>2. Sum(f, T \cap R) = f[s] + Sum(f, (T \cap R) \ {s})
      BY <1>1, <2>3, SumRemove
    <3> QED BY <2>2, <2>3, <3>1, <3>2
  <2>4. CASE s \notin R
    <3>1. T \cap R = (T \ {s}) \cap R /\ g[s] = 0
      BY <2>4
    <3>2. Sum(g, T) = Sum(g, T \ {s})
      BY <2>2, <3>1
    <3>3. T \ {s} \in SUBSET S
      OBVIOUS
    <3> QED BY <3>1, <3>2, <3>3
  <2> QED BY <2>3, <2>4
<1>4. S \in P
  <2> HIDE DEF P
  <2> QED BY <1>2, <1>3, SetInduction
<1>5. S \cap R = R
  OBVIOUS
<1> QED BY <1>1, <1>4, <1>5

\* A loop that goes to the next value until there is nothing to change ends
\* where there is not, within what it keeps.
Shrinks(g, D, m) ==
    /\ g \in [D -> D] /\ m \in [D -> Nat]
    /\ \A x \in D : g[x] = x \/ m[g[x]] < m[x]

RepeatRule(next, F) == F = [x \in DOMAIN next |-> IF next[x] = x THEN x ELSE F[next[x]]]
RepeatOf(next) == CHOOSE F : RepeatRule(next, F)

LEMMA Repeats ==
    ASSUME NEW D, NEW g, NEW m, Shrinks(g, D, m),
           NEW I \in SUBSET D, \A x \in I : g[x] \in I, NEW start \in I
    PROVE  /\ Repeat(g, start) \in I
           /\ g[Repeat(g, start)] = Repeat(g, start)
<1> DEFINE Done == {x \in D : g[x] = x}
           h == [x \in D |-> x]
<1>1. g \in [D -> D] /\ DOMAIN g = D
  BY DEF Shrinks
<1>2. Falls(D, Done, g, m)
  BY DEF Falls, Shrinks
<1>3. PICK f : LoopOf(f, D, Done, g, h)
  BY <1>2, LoopExists
<1>4. RepeatRule(g, f)
  <2>1. f = [x \in D |-> f[x]] /\ \A x \in D : f[x] = IF g[x] = x THEN x ELSE f[g[x]]
    BY <1>3 DEF LoopOf
  <2> QED BY <1>1, <2>1 DEF RepeatRule
<1>5. RepeatRule(g, RepeatOf(g))
  BY <1>4, Zenon DEF RepeatOf
<1>6. LoopOf(RepeatOf(g), D, Done, g, h)
  <2> DEFINE F == RepeatOf(g)
  <2>1. F = [x \in D |-> IF g[x] = x THEN x ELSE F[g[x]]]
    BY <1>1, <1>5 DEF RepeatRule
  <2> HIDE DEF F
  <2>2. F = [x \in D |-> F[x]] /\ \A x \in D : F[x] = IF x \in Done THEN h[x] ELSE F[g[x]]
    BY <2>1
  <2>3. F = [x \in D |-> IF x \in Done THEN h[x] ELSE F[g[x]]]
    <3> HIDE DEF Done, h
    <3> QED BY <2>2
  <2> QED BY <2>3 DEF LoopOf, F
<1>7. Repeat(g, start) = RepeatOf(g)[start]
  BY DEF Repeat, RepeatOf, RepeatRule
<1>8. \A x \in I : x \notin Done => g[x] \in I
  OBVIOUS
<1>9. \E y \in I : y \in Done /\ RepeatOf(g)[start] = h[y]
  <2> HIDE DEF Done, h
  <2> QED BY <1>2, <1>6, <1>8, LoopKeeps
<1> QED BY <1>7, <1>9

-----------------------------------------------------------------------------
(* Money.                                                                  *)

IsDay(d) ==
    /\ d.held \in [Symbols -> Nat] /\ d.tier \in [Symbols -> 0..2]
    /\ d.cash \in Int /\ d.settled \in Int /\ d.breadth \in Nat
    /\ d.buffer \in Nat /\ d.defensive \in BOOLEAN
IsLimits(e) == e.buffer \in Nat /\ e.stock \in Nat /\ e.turnover \in Nat

LEMMA DayIs ==
    ASSUME NEW d, IsDay(d), NEW s \in Symbols
    PROVE  d.held[s] \in Nat /\ d.tier[s] \in 0..2
  BY DEF IsDay

LEMMA DataAre ==
    /\ IsFiniteSet(Symbols) /\ Symbols \subseteq Nat
    /\ \A s \in Symbols : /\ Price[s] \in Nat /\ Price[s] > 0 /\ Special[s] \in Nat
                         /\ Atr[s] \in Nat /\ Ranking[s] \in Nat /\ Sector[s] \in Nat
  BY AllocationAssumption

LEMMA PolicyNumbers ==
    /\ Policy.slippage \in Nat /\ Policy.minimumCommission \in Nat /\ Policy.stressSlippage \in Nat
    /\ Policy.reserve \in Nat /\ Policy.trim \in Nat /\ Policy.derisk \in Nat /\ Policy.alpha \in Nat
    /\ Policy.minPositions \in Nat /\ Policy.maxPositions \in Nat /\ Policy.maxStock \in Nat
    /\ Policy.maxSector \in Nat /\ Policy.maxTurnover \in Nat /\ Policy.cashCeiling \in Nat
    /\ Policy.activeShare \in Nat /\ Policy.maxDrops \in Nat /\ Policy.maxRevisions \in Nat
    /\ Policy.maxSwaps \in Nat /\ Policy.forcedSwaps \in Nat /\ Policy.minNewTier \in Nat
    /\ Policy.headroom \in Nat /\ Policy.headroomBuy \in Nat
<1>1. ASSUME NEW n \in {"slippage", "minimumCommission", "stressSlippage", "reserve", "trim", "derisk",
                      "alpha", "minPositions", "maxPositions", "maxStock", "maxSector",
                      "maxTurnover", "cashCeiling", "activeShare", "maxDrops", "maxRevisions",
                      "maxSwaps", "forcedSwaps", "minNewTier", "headroom", "headroomBuy"}
      PROVE  Policy[n] \in Nat
  BY PolicyAssumption, Zenon
<1> QED BY <1>1

\* Division rounds down.
LEMMA Rounds ==
    ASSUME NEW a \in Int, NEW b \in Nat \ {0}
    PROVE  a \div b \in Int /\ (0 <= a => 0 <= a \div b)
  OBVIOUS

LEMMA Upward ==
    ASSUME NEW a \in Int, NEW b \in Nat \ {0}
    PROVE  Ceiling(a, b) \in Int /\ (0 < a => 0 < Ceiling(a, b))
<1>1. (-a) \div b \in Int
  BY Rounds
<1>2. ASSUME 0 < a PROVE (-a) \div b < 0
  BY <1>2
<1> QED BY <1>1, <1>2 DEF Ceiling

LEMMA Times ==
    ASSUME NEW a \in Nat, NEW b \in Int, NEW c \in Int, b <= c
    PROVE  a * b <= a * c /\ a * b \in Int /\ a * c \in Int
  OBVIOUS

LEMMA CommissionIs ==
    ASSUME NEW g \in Int, NEW h \in Int, g <= h
    PROVE  /\ Commission(g) \in Nat /\ Tax(g) \in Int
           /\ Commission(g) <= Commission(h) /\ Tax(g) <= Tax(h)
<1>1. Policy.minimumCommission \in Nat
  BY PolicyNumbers
<1>2. PICK m \in Nat : m = Policy.minimumCommission
  BY <1>1
<1>3. Ceiling(g * 57, 40000) \in Int /\ Ceiling(h * 57, 40000) \in Int
      /\ Ceiling(g * 57, 40000) <= Ceiling(h * 57, 40000)
  BY DEF Ceiling
<1>4. Tax(g) \in Int /\ Tax(g) <= Tax(h)
  BY DEF Tax, Ceiling
<1> HIDE DEF Ceiling
<1> QED BY <1>2, <1>3, <1>4 DEF Commission, MaxOf

\* What a sale of g more costs beside what one of h costs.
LEMMA CostsTogether ==
    ASSUME NEW g \in Nat, NEW h \in Nat
    PROVE  Commission(g + h) + Tax(g + h) <= Commission(g) + Tax(g) + Commission(h) + Tax(h)
<1>1. PICK m \in Nat : m = Policy.minimumCommission
  BY PolicyNumbers
<1>2. /\ Ceiling(g * 57, 40000) \in Nat /\ Ceiling(h * 57, 40000) \in Nat
      /\ Ceiling((g + h) * 57, 40000) \in Int
      /\ Ceiling((g + h) * 57, 40000) <= Ceiling(g * 57, 40000) + Ceiling(h * 57, 40000)
  BY DEF Ceiling
<1>3. Tax(g) \in Int /\ Tax(h) \in Int /\ Tax(g + h) \in Int /\ Tax(g + h) <= Tax(g) + Tax(h)
  BY DEF Tax, Ceiling
<1>4. Commission(g + h) <= Commission(g) + Commission(h) /\ Commission(g) \in Int
      /\ Commission(h) \in Int /\ Commission(g + h) \in Int
  BY <1>1, <1>2 DEF Commission, MaxOf
<1> QED BY <1>3, <1>4

LEMMA GrossIs ==
    ASSUME NEW s \in Symbols, NEW k \in Nat
    PROVE  /\ Price[s] \in Nat \ {0} /\ \A n \in Int : Gross(s, n, k) \in Int
           /\ \E p \in Nat : /\ Price[s] <= p
                             /\ \A m \in Nat : Gross(s, m, k) = m * p
           /\ \E p \in Int : \A m \in Nat : Gross(s, -m, k) = m * p
<1>1. PICK p \in Nat \ {0} : p = Price[s]
  BY DataAre
<1>2. PICK w \in Nat : w = Policy.slippage
  BY PolicyNumbers
<1>3. p * w * k \in Nat
  OBVIOUS
<1>4. PICK x \in Nat : x = (p * w * k + 5000) \div 10000
  BY <1>3
<1>5. \A m \in Int : Gross(s, m, k) = IF m > 0 THEN m * (p + x) ELSE (-m) * (p - x)
  BY <1>1, <1>2, <1>4 DEF Gross
<1>6. \A m \in Nat : Gross(s, m, k) = m * (p + x)
  <2> SUFFICES ASSUME NEW m \in Nat PROVE Gross(s, m, k) = m * (p + x)
    OBVIOUS
  <2>1. CASE m = 0
    <3>1. Gross(s, 0, k) = 0 * (p - x)
      BY <1>5
    <3> QED BY <2>1, <3>1
  <2> QED BY <1>5, <2>1
<1>7. \A m \in Nat : Gross(s, -m, k) = m * (p - x)
  BY <1>5
<1>8. ASSUME NEW n \in Int PROVE Gross(s, n, k) \in Int
  <2>1. n * (p + x) \in Int /\ (-n) * (p - x) \in Int
    OBVIOUS
  <2> QED BY <1>5, <2>1
<1>9. p + x \in Nat /\ p - x \in Int /\ p <= p + x
  OBVIOUS
<1> QED BY <1>1, <1>6, <1>7, <1>8, <1>9

\* A buy of fewer lots leaves at least their price.
LEMMA ImpactOfBuy ==
    ASSUME NEW s \in Symbols, NEW k \in Nat, NEW m \in Nat, NEW n \in Nat, m <= n
    PROVE  /\ Impact(s, m, k) \in Int /\ Impact(s, n, k) \in Int /\ Impact(s, 0, k) = 0
           /\ (n - m) * Price[s] \in Int
           /\ Impact(s, n, k) + (n - m) * Price[s] <= Impact(s, m, k)
<1>1. PICK p \in Nat : /\ Price[s] <= p
                       /\ \A i \in Nat : Gross(s, i, k) = i * p
  BY GrossIs
<1>2. Price[s] \in Nat
  BY GrossIs
<1>3. PICK g \in Int, h \in Int : g = m * p /\ h = n * p
  OBVIOUS
<1>4. (n - m) * Price[s] \in Int /\ (n - m) * Price[s] <= h - g /\ 0 <= (n - m) * Price[s]
  <2>1. n - m \in Nat
    OBVIOUS
  <2>2. (n - m) * Price[s] <= (n - m) * p /\ 0 <= (n - m) * Price[s]
    BY <1>1, <1>2, <2>1
  <2>3. (n - m) * p = h - g
    BY <1>3
  <2> QED BY <1>2, <2>2, <2>3
<1>5. Commission(g) \in Nat /\ Commission(h) \in Nat /\ Commission(g) <= Commission(h)
  BY <1>3, <1>4, CommissionIs
<1>6. Impact(s, m, k) = IF m = 0 THEN 0 ELSE -(g + Commission(g))
  BY <1>1, <1>3 DEF Impact, CashFlow
<1>7. Impact(s, n, k) = IF n = 0 THEN 0 ELSE -(h + Commission(h))
  BY <1>1, <1>3 DEF Impact, CashFlow
<1>8. Impact(s, 0, k) = 0
  BY DEF Impact, CashFlow
<1>9. m = 0 => g = 0
  BY <1>3
<1>10. n = 0 => h = 0 /\ m = 0
  BY <1>3
<1>11. PICK x \in Int : x = (n - m) * Price[s]
  BY <1>4
<1> QED BY <1>4, <1>5, <1>6, <1>7, <1>8, <1>9, <1>10, <1>11

\* A sale of a lot more brings no less.
LEMMA ImpactOfSale ==
    ASSUME NEW s \in Symbols, NEW m \in Nat
    PROVE  /\ Impact(s, -m, 1) \in Int /\ Impact(s, -(m + 1), 1) \in Int
           /\ Impact(s, -m, 1) <= Impact(s, -(m + 1), 1)
<1>1. PICK p \in Int : \A i \in Nat : Gross(s, -i, 1) = i * p
  BY GrossIs
<1>2. Impact(s, -1, 1) >= 0 /\ Impact(s, 0, 1) = 0
  BY PolicyAssumption DEF Impact, CashFlow
<1>3. Impact(s, -1, 1) = p - Commission(p) - Tax(p)
  <2>1. Gross(s, -1, 1) = p
    BY <1>1
  <2> QED BY <2>1 DEF Impact, CashFlow
<1>4. Commission(p) \in Nat /\ Tax(p) \in Int
  BY CommissionIs
<1>5. p \in Nat
  <2>1. p < 0 => Tax(p) > p
    BY DEF Tax, Ceiling
  <2> QED BY <1>2, <1>3, <1>4, <2>1
<1>6. PICK g \in Nat : g = m * p
  BY <1>5
<1>7. Gross(s, -m, 1) = g /\ Gross(s, -(m + 1), 1) = g + p
  <2>1. Gross(s, -m, 1) = m * p
    BY <1>1
  <2>2. PICK n \in Nat : n = m + 1
    OBVIOUS
  <2>3. Gross(s, -n, 1) = n * p
    BY <1>1
  <2>4. n * p = g + p
    BY <1>6, <2>2
  <2>5. Gross(s, -(m + 1), 1) = n * p
    BY <2>2, <2>3, Zenon
  <2> QED BY <1>6, <2>1, <2>4, <2>5
<1>8. Commission(g) \in Nat /\ Tax(g) \in Int /\ Commission(g + p) \in Nat /\ Tax(g + p) \in Int
  BY <1>5, CommissionIs
<1>9. Commission(g + p) + Tax(g + p) <= Commission(g) + Tax(g) + Commission(p) + Tax(p)
  BY <1>5, CostsTogether
<1>10. Impact(s, -(m + 1), 1) = (g + p) - Commission(g + p) - Tax(g + p)
  BY <1>7 DEF Impact, CashFlow
<1>11. CASE m < 1
  <2>1. -m = 0 /\ -(m + 1) = -1
    BY <1>11
  <2>2. Impact(s, -1, 1) \in Int
    BY <1>3, <1>4
  <2> QED BY <1>2, <2>1, <2>2
<1>12. CASE ~(m < 1)
  <2>1. Impact(s, -m, 1) = g - Commission(g) - Tax(g)
    BY <1>7, <1>12 DEF Impact, CashFlow
  <2> QED BY <1>2, <1>3, <1>4, <1>8, <1>9, <1>10, <2>1
<1> QED BY <1>11, <1>12

LEMMA ImpactIs ==
    ASSUME NEW s \in Symbols, NEW n \in Int, NEW k \in Nat
    PROVE  Impact(s, n, k) \in Int
<1>1. PICK g \in Int : g = Gross(s, n, k)
  BY GrossIs
<1>2. Commission(g) \in Nat /\ Tax(g) \in Int
  BY CommissionIs
<1> QED BY <1>1, <1>2 DEF Impact, CashFlow

\* Some lots fewer of a buy, or one lot fewer of a position.
Fewer(a, n) == n < a /\ (0 <= n \/ n = a - 1)

LEMMA FewerCostsLess ==
    ASSUME NEW s \in Symbols, NEW a \in Int, NEW n \in Int, Fewer(a, n)
    PROVE  /\ Impact(s, a, 1) \in Int /\ Impact(s, n, 1) \in Int
           /\ Impact(s, a, 1) <= Impact(s, n, 1)
           /\ Impact(s, MaxOf(a, 0), 1) \in Int /\ Impact(s, MaxOf(n, 0), 1) \in Int
           /\ Impact(s, MaxOf(a, 0), 1) <= Impact(s, MaxOf(n, 0), 1)
<1>1. n < a /\ (0 <= n \/ n = a - 1)
  BY DEF Fewer
<1>2. Impact(s, a, 1) \in Int /\ Impact(s, n, 1) \in Int
  BY ImpactIs
<1>3. ASSUME NEW b \in Nat, NEW c \in Nat, b <= c
      PROVE  Impact(s, c, 1) <= Impact(s, b, 1) /\ Impact(s, c, 1) \in Int /\ Impact(s, b, 1) \in Int
  <2>1. Price[s] \in Nat
    BY GrossIs
  <2>2. PICK x \in Nat : x = (c - b) * Price[s]
    <3>1. c - b \in Nat
      BY <1>3
    <3> QED BY <2>1, <3>1
  <2>3. /\ Impact(s, b, 1) \in Int /\ Impact(s, c, 1) \in Int
        /\ Impact(s, c, 1) + x <= Impact(s, b, 1)
    BY <1>3, <2>2, ImpactOfBuy
  <2> QED BY <2>3
<1>4. CASE 0 <= n
  <2>1. MaxOf(a, 0) = a /\ MaxOf(n, 0) = n /\ n \in Nat /\ a \in Nat /\ n <= a
    BY <1>1, <1>4 DEF MaxOf
  <2> QED BY <1>2, <1>3, <2>1
<1>5. CASE ~(0 <= n)
  <2>1. PICK m \in Nat : m = -a /\ a = -m /\ n = -(m + 1)
    BY <1>1, <1>5
  <2>2. Impact(s, -m, 1) <= Impact(s, -(m + 1), 1)
    BY ImpactOfSale
  <2>3. Impact(s, a, 1) <= Impact(s, n, 1)
    BY <2>1, <2>2, Zenon
  <2>4. MaxOf(a, 0) = 0 /\ MaxOf(n, 0) = 0
    BY <1>1, <1>5 DEF MaxOf
  <2>5. Impact(s, 0, 1) \in Int
    BY ImpactIs
  <2> QED BY <1>2, <2>3, <2>4, <2>5
<1> QED BY <1>4, <1>5

BoughtAt(o) == [s \in Symbols |-> Impact(s, MaxOf(o[s], 0), 1)]
Payable(d, floor, o) ==
    100 * (d.settled + Impacts(o, 1))
        + Policy.reserve * Sum([s \in Symbols |-> Impact(s, o[s], 1)], Bought(o)) >= floor

LEMMA ImpactsAre ==
    ASSUME NEW o \in OrderSet, NEW k \in Nat
    PROVE  Impacts(o, k) \in Int /\ Numbers([s \in Symbols |-> Impact(s, o[s], k)], Symbols)
<1>1. \A s \in Symbols : o[s] \in Int
  BY DEF OrderSet
<1>2. \A s \in Symbols : Impact(s, o[s], k) \in Int
  BY <1>1, ImpactIs
<1>3. Numbers([s \in Symbols |-> Impact(s, o[s], k)], Symbols)
  BY <1>2 DEF Numbers
<1>4. IsFiniteSet(Symbols)
  BY DataAre
<1>5. Sum([s \in Symbols |-> Impact(s, o[s], k)], Symbols) \in Int
  BY <1>3, <1>4, SumSteps
<1> QED BY <1>3, <1>5 DEF Impacts

LEMMA BoughtSum ==
    ASSUME NEW o \in OrderSet
    PROVE  /\ Sum([s \in Symbols |-> Impact(s, o[s], 1)], Bought(o)) = Sum(BoughtAt(o), Symbols)
           /\ Sum(BoughtAt(o), Symbols) \in Int /\ Numbers(BoughtAt(o), Symbols)
<1> DEFINE f == [s \in Symbols |-> Impact(s, o[s], 1)]
<1>1. \A s \in Symbols : o[s] \in Int
  BY DEF OrderSet
<1>2. \A s \in Symbols : Impact(s, 0, 1) = 0
  <2> SUFFICES ASSUME NEW s \in Symbols PROVE Impact(s, 0, 1) = 0
    OBVIOUS
  <2> QED BY DEF Impact, CashFlow
<1>3. Numbers(f, Symbols) /\ IsFiniteSet(Symbols)
  BY ImpactsAre, DataAre
<1>4. Bought(o) \in SUBSET Symbols
  BY DEF Bought
<1>5. \A s \in Symbols : BoughtAt(o)[s] = IF s \in Bought(o) THEN f[s] ELSE 0
  <2> SUFFICES ASSUME NEW s \in Symbols
               PROVE  BoughtAt(o)[s] = IF s \in Bought(o) THEN f[s] ELSE 0
    OBVIOUS
  <2>1. BoughtAt(o)[s] = Impact(s, MaxOf(o[s], 0), 1)
    BY DEF BoughtAt
  <2>2. CASE o[s] > 0
    <3>1. MaxOf(o[s], 0) = o[s] /\ s \in Bought(o)
      BY <1>1, <2>2 DEF MaxOf, Bought
    <3>2. BoughtAt(o)[s] = f[s]
      BY <2>1, <3>1
    <3> QED BY <3>1, <3>2
  <2>3. CASE ~(o[s] > 0)
    <3>1. MaxOf(o[s], 0) = 0 /\ s \notin Bought(o)
      BY <1>1, <2>3 DEF MaxOf, Bought
    <3>2. BoughtAt(o)[s] = 0
      BY <1>2, <2>1, <3>1
    <3> QED BY <3>1, <3>2
  <2> QED BY <2>2, <2>3
<1>6. Numbers(f, Bought(o))
  BY <1>3, <1>4 DEF Numbers
<1> HIDE DEF f
<1>7. Sum(f, Bought(o)) = Sum(BoughtAt(o), Symbols) /\ Sum(f, Bought(o)) \in Int
  BY <1>3, <1>4, <1>5, <1>6, SumPart
<1>8. Numbers(BoughtAt(o), Symbols)
  BY <1>3, <1>5 DEF Numbers
<1> QED BY <1>7, <1>8 DEF f

CutAt(o, x, n) == [o EXCEPT ![x] = n]

LEMMA StaysPayable ==
    ASSUME NEW d, IsDay(d), NEW floor \in Int, NEW o \in OrderSet, NEW x \in Symbols,
           NEW n \in Int, Fewer(o[x], n), Payable(d, floor, o)
    PROVE  Payable(d, floor, CutAt(o, x, n))
<1> DEFINE c == CutAt(o, x, n)
           f == [s \in Symbols |-> Impact(s, o[s], 1)]
           g == [s \in Symbols |-> Impact(s, c[s], 1)]
<1>1. c \in OrderSet /\ c[x] = n /\ \A s \in Symbols : s # x => c[s] = o[s]
  BY DEF OrderSet, CutAt
<1> HIDE DEF c
<1>2. IsFiniteSet(Symbols) /\ o[x] \in Int
  BY DataAre DEF OrderSet
<1>3. Numbers(f, Symbols) /\ Numbers(g, Symbols)
  BY <1>1, ImpactsAre
<1>4. \A s \in Symbols : s # x => f[s] = g[s]
  BY <1>1
<1>5. f[x] = Impact(x, o[x], 1) /\ g[x] = Impact(x, n, 1)
  BY <1>1
<1> HIDE DEF f, g
<1>6. Sum(f, Symbols) \in Int /\ Sum(g, Symbols) = Sum(f, Symbols) - f[x] + g[x]
  BY <1>2, <1>3, <1>4, SumChanged
<1>7. \A s \in Symbols : s # x => BoughtAt(o)[s] = BoughtAt(c)[s]
  BY <1>1 DEF BoughtAt
<1>8. BoughtAt(o)[x] = Impact(x, MaxOf(o[x], 0), 1) /\ BoughtAt(c)[x] = Impact(x, MaxOf(n, 0), 1)
  BY <1>1 DEF BoughtAt
<1>9. Numbers(BoughtAt(o), Symbols) /\ Numbers(BoughtAt(c), Symbols)
  BY <1>1, BoughtSum
<1>10. /\ Sum(BoughtAt(o), Symbols) \in Int
       /\ Sum(BoughtAt(c), Symbols) = Sum(BoughtAt(o), Symbols) - BoughtAt(o)[x] + BoughtAt(c)[x]
  BY <1>2, <1>7, <1>9, SumChanged
<1>11. PICK a1 \in Int, a2 \in Int, b1 \in Int, b2 \in Int :
            a1 = f[x] /\ a2 = g[x] /\ b1 = BoughtAt(o)[x] /\ b2 = BoughtAt(c)[x]
            /\ a1 <= a2 /\ b1 <= b2
  BY <1>2, <1>5, <1>8, FewerCostsLess
<1>12. PICK i1 \in Int, i2 \in Int, s1 \in Int, s2 \in Int :
            /\ i1 = Impacts(o, 1) /\ i2 = Impacts(c, 1) /\ s1 = Sum(BoughtAt(o), Symbols)
            /\ s2 = Sum(BoughtAt(c), Symbols) /\ i1 <= i2 /\ s1 <= s2
  <2>1. Impacts(o, 1) = Sum(f, Symbols) /\ Impacts(c, 1) = Sum(g, Symbols)
    BY DEF Impacts, f, g
  <2>2. PICK i \in Int : i = Sum(f, Symbols)
    BY <1>6
  <2>3. PICK k \in Int : k = Sum(BoughtAt(o), Symbols)
    BY <1>10
  <2>4. Sum(g, Symbols) = i - a1 + a2 /\ Sum(BoughtAt(c), Symbols) = k - b1 + b2
    BY <1>6, <1>10, <1>11, <2>2, <2>3
  <2>5. i <= i - a1 + a2 /\ k <= k - b1 + b2 /\ i - a1 + a2 \in Int /\ k - b1 + b2 \in Int
    BY <1>11
  <2> QED BY <2>1, <2>2, <2>3, <2>4, <2>5
<1>13. PICK r \in Nat : r = Policy.reserve
  BY PolicyNumbers
<1>14. r * s1 <= r * s2 /\ r * s1 \in Int /\ r * s2 \in Int
  BY <1>12, Times
<1>15. 100 * (d.settled + i1) + r * s1 >= floor
  BY <1>12, <1>13, BoughtSum DEF Payable
<1>16. 100 * (d.settled + i2) + r * s2 >= floor
  <2>1. d.settled \in Int
    BY DEF IsDay
  <2>2. PICK y1 \in Int, y2 \in Int : y1 = r * s1 /\ y2 = r * s2
    BY <1>14
  <2>3. y1 <= y2 /\ 100 * (d.settled + i1) + y1 >= floor
    BY <1>14, <1>15, <2>2
  <2>4. 100 * (d.settled + i2) + y2 >= floor
    BY <1>12, <2>1, <2>3
  <2> QED BY <2>2, <2>4
<1>17. Sum([s \in Symbols |-> Impact(s, c[s], 1)], Bought(c)) = s2
  BY <1>1, <1>12, BoughtSum
<1> QED BY <1>12, <1>13, <1>16, <1>17 DEF Payable, c

\* Orders of no more lots than are wanted, which can be paid.
Within(o, wanted) == \A s \in Symbols : o[s] <= wanted[s]
Sound(d, floor, wanted) ==
    {o \in OrderSet : Within(o, wanted) /\ (Bought(o) # {} => Payable(d, floor, o))}

Left(d, o) == Sum([s \in Symbols |-> MaxOf(0, d.held[s] + o[s])], Symbols)

LEMMA LeftIs ==
    ASSUME NEW d, IsDay(d), NEW o \in OrderSet
    PROVE  /\ Left(d, o) \in Nat
           /\ Numbers([s \in Symbols |-> MaxOf(0, d.held[s] + o[s])], Symbols)
<1> DEFINE f == [s \in Symbols |-> MaxOf(0, d.held[s] + o[s])]
           z == [s \in Symbols |-> 0]
<1>1. \A s \in Symbols : f[s] \in Nat
  BY DEF IsDay, OrderSet, MaxOf
<1>2. Numbers(f, Symbols) /\ Numbers(z, Symbols) /\ \A s \in Symbols : z[s] <= f[s]
  BY <1>1 DEF Numbers
<1>3. IsFiniteSet(Symbols)
  BY DataAre
<1>4. Sum(f, Symbols) \in Int /\ Sum(z, Symbols) \in Int /\ Sum(z, Symbols) <= Sum(f, Symbols)
  <2> HIDE DEF f, z
  <2> QED BY <1>2, <1>3, SumLess
<1>5. Sum(z, Symbols) = 0
  BY <1>3, SumZero
<1> QED BY <1>2, <1>4, <1>5 DEF Left

LEMMA CutIsSound ==
    ASSUME NEW d, IsDay(d), NEW floor \in Int, NEW B \in OrderSet, NEW o \in Sound(d, floor, B),
           NEW x \in Symbols, NEW n \in Int, Fewer(o[x], n)
    PROVE  CutAt(o, x, n) \in Sound(d, floor, B)
<1>1. o \in OrderSet /\ Within(o, B) /\ (Bought(o) # {} => Payable(d, floor, o))
  BY DEF Sound
<1>2. CutAt(o, x, n) \in OrderSet
  BY <1>1 DEF CutAt, OrderSet
<1>3. /\ Bought(CutAt(o, x, n)) \subseteq Bought(o)
      /\ Within(CutAt(o, x, n), B)
  <2>1. o[x] \in Int /\ n < o[x]
    BY <1>1 DEF OrderSet, Fewer
  <2>2. \A s \in Symbols : CutAt(o, x, n)[s] <= o[s]
    BY <1>1, <2>1 DEF CutAt, OrderSet
  <2>3. \A s \in Symbols : CutAt(o, x, n)[s] \in Int /\ o[s] \in Int /\ B[s] \in Int
    BY <1>1, <1>2 DEF OrderSet
  <2>4. Bought(CutAt(o, x, n)) \subseteq Bought(o)
    BY <2>2, <2>3 DEF Bought
  <2>5. \A s \in Symbols : CutAt(o, x, n)[s] <= B[s]
    BY <1>1, <2>2, <2>3 DEF Within
  <2> QED BY <2>4, <2>5 DEF Within
<1>4. Bought(o) # {} => Payable(d, floor, CutAt(o, x, n))
  BY <1>1, StaysPayable
<1> QED BY <1>1, <1>2, <1>3, <1>4 DEF Sound

LEMMA CutLeavesLess ==
    ASSUME NEW d, IsDay(d), NEW o \in OrderSet, NEW x \in Symbols, NEW n \in Int, n < o[x],
           d.held[x] + o[x] > 0
    PROVE  Left(d, CutAt(o, x, n)) < Left(d, o)
<1> DEFINE c == CutAt(o, x, n)
           f == [s \in Symbols |-> MaxOf(0, d.held[s] + o[s])]
           g == [s \in Symbols |-> MaxOf(0, d.held[s] + c[s])]
<1>1. c \in OrderSet /\ c[x] = n /\ \A s \in Symbols : s # x => c[s] = o[s]
  BY DEF OrderSet, CutAt
<1> HIDE DEF c
<1>2. IsFiniteSet(Symbols) /\ o[x] \in Int /\ d.held[x] \in Nat
  BY DataAre DEF OrderSet, IsDay
<1>3. Numbers(f, Symbols) /\ Numbers(g, Symbols)
  BY <1>1, LeftIs
<1>4. \A s \in Symbols : s # x => f[s] = g[s]
  BY <1>1
<1>5. f[x] = MaxOf(0, d.held[x] + o[x]) /\ g[x] = MaxOf(0, d.held[x] + n)
  BY <1>1
<1>6. f[x] \in Int /\ g[x] \in Int /\ g[x] < f[x]
  BY <1>2, <1>5 DEF MaxOf
<1> HIDE DEF f, g
<1>7. Sum(f, Symbols) \in Int /\ Sum(g, Symbols) = Sum(f, Symbols) - f[x] + g[x]
  BY <1>2, <1>3, <1>4, SumChanged
<1>8. Left(d, c) = Sum(g, Symbols) /\ Left(d, o) = Sum(f, Symbols)
  BY DEF Left, f, g
<1>9. Sum(g, Symbols) < Sum(f, Symbols)
  BY <1>6, <1>7
<1> QED BY <1>8, <1>9 DEF c

LEMMA NavIs ==
    ASSUME NEW d, IsDay(d), NEW e, IsLimits(e), NEW restored \in BOOLEAN
    PROVE  Nav(d) \in Int /\ CashFloor(d, e, restored) \in Int
<1> DEFINE v == [s \in Symbols |-> d.held[s] * Price[s]]
<1>1. ASSUME NEW s \in Symbols PROVE v[s] \in Int
  BY DataAre, DayIs
<1>2. Numbers(v, Symbols)
  BY <1>1 DEF Numbers
<1>3. Nav(d) = d.cash + Sum(v, Symbols)
  BY DEF Nav
<1> HIDE DEF v
<1>4. Sum(v, Symbols) \in Int /\ d.cash \in Int
  BY <1>2, DataAre, SumSteps DEF IsDay
<1>5. PICK a \in Int, b \in Int, c \in Int : a = Nav(d) /\ b = e.buffer /\ c = d.settled
  BY <1>3, <1>4 DEF IsDay, IsLimits
<1>6. a * b \in Int
  OBVIOUS
<1> QED BY <1>5, <1>6 DEF CashFloor, MinOf

-----------------------------------------------------------------------------
(* The scenarios.                                                          *)

IsScenario(c) == c.factor \in 0..100 /\ c.fill \in 0..100 /\ c.slip \in Nat

LEMMA ScenariosAre == \A i \in 1..3 : IsScenario(Scenarios[i])
<1>1. Policy.decline \in 0..100 /\ Policy.fill \in 0..100 /\ Policy.stressSlippage \in Nat
  BY PolicyAssumption, PolicyNumbers
<1>2. IsScenario(Scenarios[1])
  BY DEF IsScenario, Scenarios
<1>3. IsScenario(Scenarios[2])
  BY <1>1 DEF IsScenario, Scenarios
<1>4. IsScenario(Scenarios[3])
  BY <1>1 DEF IsScenario, Scenarios
<1> QED BY <1>2, <1>3, <1>4

LEMMA FilledIs ==
    ASSUME NEW o \in OrderSet, NEW c, IsScenario(c)
    PROVE  /\ Filled(o, c) \in OrderSet
           /\ \A s \in Symbols : o[s] >= 0 => Filled(o, c)[s] = (o[s] * c.fill) \div 100
<1>1. PICK f \in Nat : f = c.fill
  BY DEF IsScenario
<1>2. \A s \in Symbols : /\ o[s] \in Int
                         /\ (o[s] * f) \div 100 \in Int /\ -(((-o[s]) * f) \div 100) \in Int
  <2> SUFFICES ASSUME NEW s \in Symbols
               PROVE  /\ o[s] \in Int
                      /\ (o[s] * f) \div 100 \in Int /\ -(((-o[s]) * f) \div 100) \in Int
    OBVIOUS
  <2>1. PICK n \in Int : n = o[s]
    BY DEF OrderSet
  <2>2. PICK a \in Int, b \in Int : a = n * f /\ b = (-n) * f
    OBVIOUS
  <2>3. a \div 100 \in Int /\ -(b \div 100) \in Int
    OBVIOUS
  <2> QED BY <2>1, <2>2, <2>3
<1> QED BY <1>1, <1>2 DEF Filled, OrderSet

\* Less is filled of a buy that is smaller.
LEMMA FilledLess ==
    ASSUME NEW a \in Nat, NEW b \in Nat, a <= b, NEW f \in Nat
    PROVE  (a * f) \div 100 \in Nat /\ (b * f) \div 100 \in Nat
           /\ (a * f) \div 100 <= (b * f) \div 100
<1>1. PICK x \in Nat, y \in Nat : x = a * f /\ y = b * f /\ x <= y
  <2>0. f * a <= f * b /\ f * a = a * f /\ f * b = b * f
    BY Times
  <2>1. a * f \in Nat /\ b * f \in Nat /\ a * f <= b * f
    BY <2>0
  <2> QED BY <2>1
<1>2. x \div 100 \in Nat /\ y \div 100 \in Nat /\ x \div 100 <= y \div 100
  BY <1>1
<1> QED BY <1>1, <1>2

Value(d, done, s, c) == ((d.held[s] + done[s]) * Price[s] * c.factor) \div 100

\* What fewer lots are worth less is no more than their price.
LEMMA ValueLess ==
    ASSUME NEW h \in Nat, NEW a \in Nat, NEW b \in Nat, a <= b, NEW p \in Nat, NEW f \in 0..100
    PROVE  /\ ((h + a) * p * f) \div 100 \in Int /\ ((h + b) * p * f) \div 100 \in Int
           /\ (b - a) * p \in Int
           /\ ((h + a) * p * f) \div 100 <= ((h + b) * p * f) \div 100
           /\ ((h + b) * p * f) \div 100 <= ((h + a) * p * f) \div 100 + (b - a) * p
<1>1. PICK x \in Nat : x = (h + a) * p * f
  <2>1. PICK z \in Nat : z = (h + a) * p
    OBVIOUS
  <2>2. z * f \in Nat
    OBVIOUS
  <2> QED BY <2>1, <2>2
<1>2. PICK y \in Nat : y = (b - a) * p
  <2>1. b - a \in Nat
    OBVIOUS
  <2> QED BY <2>1
<1>3. PICK w \in Nat : w = y * f
  OBVIOUS
<1>4. w <= 100 * y
  BY <1>3
<1>5. (h + b) * p * f = x + w
  <2>1. (h + b) * p = (h + a) * p + y
    <3>1. (h + b) * p = (h + a + (b - a)) * p
      OBVIOUS
    <3>2. (h + a + (b - a)) * p = (h + a) * p + (b - a) * p
      OBVIOUS
    <3> QED BY <1>2, <3>1, <3>2
  <2>2. PICK z \in Nat : z = (h + a) * p
    OBVIOUS
  <2>3. (z + y) * f = z * f + y * f
    OBVIOUS
  <2> QED BY <1>1, <1>3, <2>1, <2>2, <2>3
<1>6. x \div 100 <= (x + w) \div 100 /\ (x + w) \div 100 <= x \div 100 + y
      /\ x \div 100 \in Int /\ (x + w) \div 100 \in Int
  BY <1>4
<1> QED BY <1>1, <1>2, <1>5, <1>6

LEMMA ScenarioIs ==
    ASSUME NEW d, IsDay(d), NEW o \in OrderSet, NEW c, IsScenario(c)
    PROVE  /\ Scenario(d, o, c).value \in [Symbols -> Int]
           /\ \A s \in Symbols : Scenario(d, o, c).value[s] = Value(d, Filled(o, c), s, c)
           /\ Scenario(d, o, c).cash \in Int /\ Scenario(d, o, c).nav \in Int
           /\ Scenario(d, o, c).nav = d.cash + Impacts(Filled(o, c), c.slip)
                                        + Sum(Scenario(d, o, c).value, Symbols)
           /\ Impacts(Filled(o, c), c.slip) \in Int /\ Sum(Scenario(d, o, c).value, Symbols) \in Int
<1> DEFINE done == Filled(o, c)
           v == [s \in Symbols |-> Value(d, done, s, c)]
<1>1. done \in OrderSet
  BY FilledIs
<1> HIDE DEF done
<1>2. \A s \in Symbols : v[s] = Value(d, done, s, c) /\ Value(d, done, s, c) \in Int
  <2> SUFFICES ASSUME NEW s \in Symbols PROVE Value(d, done, s, c) \in Int
    OBVIOUS
  <2>0. d.held[s] \in Int /\ done[s] \in Int /\ Price[s] \in Int /\ c.factor \in Int
    BY <1>1, DataAre DEF IsDay, IsScenario, OrderSet
  <2>1. PICK a \in Int, p \in Int, f \in Int : a = d.held[s] + done[s] /\ p = Price[s] /\ f = c.factor
    BY <2>0
  <2>2. PICK z \in Int : z = a * p * f
    OBVIOUS
  <2>3. z \div 100 \in Int
    OBVIOUS
  <2> QED BY <2>1, <2>2, <2>3 DEF Value
<1>3. v \in [Symbols -> Int] /\ Numbers(v, Symbols)
  BY <1>2 DEF Numbers
<1>4. Scenario(d, o, c).value = v
  BY DEF Scenario, After, Outcome, Value, done
<1>5. Scenario(d, o, c).cash = d.cash + Impacts(done, c.slip)
  BY DEF Scenario, After, Outcome, done
<1>6. Scenario(d, o, c).nav = d.cash + Impacts(done, c.slip) + Sum(v, Symbols)
  BY DEF Scenario, After, Outcome, Value, done
<1> HIDE DEF v
<1>7. IsFiniteSet(Symbols)
  BY DataAre
<1>8. Sum(v, Symbols) \in Int
  BY <1>3, <1>7, SumSteps
<1>9. Impacts(done, c.slip) \in Int /\ d.cash \in Int
  BY <1>1, ImpactsAre DEF IsDay, IsScenario
<1>10. d.cash + Impacts(done, c.slip) \in Int /\ d.cash + Impacts(done, c.slip) + Sum(v, Symbols) \in Int
  BY <1>8, <1>9
<1> QED BY <1>2, <1>3, <1>4, <1>5, <1>6, <1>8, <1>9, <1>10 DEF done

\* A smaller buy leaves the NAV no smaller, and no stock worth more.
LEMMA NavGrows ==
    ASSUME NEW d, IsDay(d), NEW o \in OrderSet, NEW c, IsScenario(c), NEW x \in Symbols,
           NEW n \in Nat, n < o[x]
    PROVE  /\ Scenario(d, o, c).nav <= Scenario(d, CutAt(o, x, n), c).nav
           /\ \A s \in Symbols :
                Scenario(d, CutAt(o, x, n), c).value[s] <= Scenario(d, o, c).value[s]
<1> DEFINE o2 == CutAt(o, x, n)
           done == Filled(o, c)
           done2 == Filled(o2, c)
           v == Scenario(d, o, c).value
           v2 == Scenario(d, o2, c).value
           f == [s \in Symbols |-> Impact(s, done[s], c.slip)]
           g == [s \in Symbols |-> Impact(s, done2[s], c.slip)]
<1>1. o2 \in OrderSet /\ o2[x] = n /\ \A s \in Symbols : s # x => o2[s] = o[s]
  BY DEF OrderSet, CutAt
<1>2. o[x] \in Nat /\ d.held[x] \in Nat /\ Price[x] \in Nat /\ IsFiniteSet(Symbols)
  BY DataAre DEF OrderSet, IsDay
<1> HIDE DEF o2
<1>3. done \in OrderSet /\ done2 \in OrderSet /\ \A s \in Symbols : s # x => done2[s] = done[s]
  <2>1. \A s \in Symbols : s # x => done2[s] = done[s]
    BY <1>1 DEF Filled
  <2> QED BY <1>1, <2>1, FilledIs
<1>4. PICK a \in Nat, b \in Nat : a = done2[x] /\ b = done[x] /\ a <= b
  <2>1. done[x] = (o[x] * c.fill) \div 100 /\ done2[x] = (n * c.fill) \div 100
    BY <1>1, <1>2, FilledIs
  <2>2. c.fill \in Nat
    BY DEF IsScenario
  <2>3. (n * c.fill) \div 100 \in Nat /\ (o[x] * c.fill) \div 100 \in Nat
        /\ (n * c.fill) \div 100 <= (o[x] * c.fill) \div 100
    BY <1>2, <2>2, FilledLess
  <2> QED BY <2>1, <2>3
<1>5. /\ v \in [Symbols -> Int] /\ v2 \in [Symbols -> Int]
      /\ \A s \in Symbols : v[s] = Value(d, done, s, c) /\ v2[s] = Value(d, done2, s, c)
      /\ Scenario(d, o, c).nav = d.cash + Impacts(done, c.slip) + Sum(v, Symbols)
      /\ Scenario(d, o2, c).nav = d.cash + Impacts(done2, c.slip) + Sum(v2, Symbols)
  BY <1>1, ScenarioIs
<1> HIDE DEF done, done2, v, v2
<1>6. PICK y \in Int : y = (b - a) * Price[x]
  BY <1>2
<1>7. v2[x] <= v[x] /\ v[x] <= v2[x] + y
  <2>1. v[x] = ((d.held[x] + b) * Price[x] * c.factor) \div 100
        /\ v2[x] = ((d.held[x] + a) * Price[x] * c.factor) \div 100
    BY <1>4, <1>5 DEF Value
  <2>2. c.factor \in 0..100
    BY DEF IsScenario
  <2>3. PICK h \in Nat, p \in Nat, e \in 0..100 : h = d.held[x] /\ p = Price[x] /\ e = c.factor
    BY <1>2, <2>2
  <2>4. /\ ((h + a) * p * e) \div 100 <= ((h + b) * p * e) \div 100
        /\ ((h + b) * p * e) \div 100 <= ((h + a) * p * e) \div 100 + (b - a) * p
    <3>1. a <= b
      BY <1>4
    <3> QED BY <3>1, ValueLess, ZenonT(60)
  <2>5. v[x] = ((h + b) * p * e) \div 100 /\ v2[x] = ((h + a) * p * e) \div 100 /\ y = (b - a) * p
    BY <1>6, <2>1, <2>3
  <2> QED BY <2>4, <2>5, Zenon
<1>8. \A s \in Symbols : s # x => v[s] = v2[s]
  BY <1>3, <1>5 DEF Value
<1>9. Numbers(v, Symbols) /\ Numbers(v2, Symbols)
  BY <1>5 DEF Numbers
<1>10. Sum(v, Symbols) \in Int /\ Sum(v2, Symbols) = Sum(v, Symbols) - v[x] + v2[x]
  BY <1>2, <1>8, <1>9, SumChanged
<1>11. c.slip \in Nat
  BY DEF IsScenario
<1>12. Numbers(f, Symbols) /\ Numbers(g, Symbols)
  BY <1>3, <1>11, ImpactsAre
<1>13. \A s \in Symbols : s # x => f[s] = g[s]
  BY <1>3
<1>14. f[x] = Impact(x, b, c.slip) /\ g[x] = Impact(x, a, c.slip)
  BY <1>4
<1>15. Impacts(done, c.slip) = Sum(f, Symbols) /\ Impacts(done2, c.slip) = Sum(g, Symbols)
  BY DEF Impacts
<1> HIDE DEF f, g
<1>16. Sum(f, Symbols) \in Int /\ Sum(g, Symbols) = Sum(f, Symbols) - f[x] + g[x]
  BY <1>2, <1>12, <1>13, SumChanged
<1>17. f[x] \in Int /\ g[x] \in Int /\ f[x] + y <= g[x]
  BY <1>4, <1>6, <1>11, <1>14, ImpactOfBuy
<1>18. PICK k \in Int, i \in Int, j \in Int : k = d.cash /\ i = Sum(f, Symbols) /\ j = Sum(v, Symbols)
  BY <1>10, <1>16 DEF IsDay
<1>19. PICK p \in Int, q \in Int, t \in Int, u \in Int :
            p = f[x] /\ q = g[x] /\ t = v[x] /\ u = v2[x] /\ p + y <= q /\ t <= u + y
  BY <1>5, <1>7, <1>17
<1>20. Scenario(d, o, c).nav = k + i + j /\ Scenario(d, o2, c).nav = k + (i - p + q) + (j - t + u)
  BY <1>5, <1>10, <1>15, <1>16, <1>18, <1>19
<1>21. k + i + j <= k + (i - p + q) + (j - t + u)
  BY <1>19
<1>22. Scenario(d, o, c).nav <= Scenario(d, o2, c).nav
  BY <1>20, <1>21
<1>23. \A s \in Symbols : v2[s] <= v[s]
  <2> SUFFICES ASSUME NEW s \in Symbols PROVE v2[s] <= v[s]
    OBVIOUS
  <2>1. CASE s = x
    BY <1>7, <2>1
  <2>2. CASE s # x
    BY <1>5, <1>8, <2>2
  <2> QED BY <2>1, <2>2
<1> QED BY <1>22, <1>23 DEF v, v2, o2

-----------------------------------------------------------------------------
(* The weight of a stock.                                                  *)

LEMMA LimitGrows ==
    ASSUME NEW a \in Int, NEW b \in Int, a <= b, NEW l \in Nat, NEW h \in Nat, NEW k \in Nat,
           h = k \/ (0 < h /\ h <= k /\ 0 <= (a * l * h) \div 100000)
    PROVE  /\ (a * l * h) \div 100000 \in Int /\ (b * l * k) \div 100000 \in Int
           /\ (a * l * h) \div 100000 <= (b * l * k) \div 100000
<1>1. PICK x \in Int, y \in Int : x = a * l /\ y = b * l /\ x <= y
  <2>1. l * a <= l * b /\ l * a = a * l /\ l * b = b * l /\ a * l \in Int /\ b * l \in Int
    BY Times
  <2> QED BY <2>1
<1>2. PICK p \in Int, q \in Int : p = x * h /\ q = y * k
  OBVIOUS
<1>3. p <= q
  <2>1. CASE h = k
    <3>1. h * x <= h * y /\ h * x = x * h /\ h * y = y * h
      BY <1>1, Times
    <3> QED BY <1>2, <2>1, <3>1
  <2>2. CASE 0 < h /\ h <= k /\ 0 <= (a * l * h) \div 100000
    <3>0. 0 <= p \div 100000
      BY <1>1, <1>2, <2>2
    <3>1. 0 <= p
      BY <3>0
    <3>2. CASE x >= 0
      <4>1. h * x <= h * y /\ h * x = x * h /\ h * y = y * h
        BY <1>1, Times
      <4>2. y * h <= y * k
        BY <1>1, <2>2, <3>2, Times
      <4> QED BY <1>2, <4>1, <4>2
    <3>3. CASE x < 0
      <4>1. -x \in Nat /\ 1 <= h
        BY <2>2, <3>3
      <4>2. (-x) * 1 <= (-x) * h
        BY <4>1, Times
      <4>3. (-x) * h = -p /\ (-x) * 1 = -x
        BY <1>2
      <4>4. FALSE
        BY <3>1, <3>3, <4>2, <4>3
      <4> QED BY <4>4
    <3> QED BY <3>2, <3>3
  <2> QED BY <2>1, <2>2
<1>4. p \div 100000 \in Int /\ q \div 100000 \in Int /\ p \div 100000 <= q \div 100000
  BY <1>3
<1> QED BY <1>1, <1>2, <1>4

LEMMA LimitIs ==
    ASSUME NEW e, IsLimits(e), NEW s \in Symbols, NEW o
    PROVE  Limit(e, s) \in Nat /\ Headroom(o, s) \in Nat /\ 0 < Policy.headroomBuy
           /\ Policy.headroomBuy <= Policy.headroom
  BY DataAre, PolicyNumbers, PolicyAssumption DEF IsLimits, Limit, Headroom

LEMMA StaysLight ==
    ASSUME NEW d, IsDay(d), NEW e, IsLimits(e), NEW o \in OrderSet, NEW x \in Symbols, NEW n \in Nat,
           n < o[x], NEW s \in Symbols, ~Overweight(d, e, o, s)
    PROVE  ~Overweight(d, e, CutAt(o, x, n), s)
<1> DEFINE o2 == CutAt(o, x, n)
<1>1. o2 \in OrderSet /\ o2[x] = n /\ \A t \in Symbols : t # x => o2[t] = o[t]
  BY DEF OrderSet, CutAt
<1>2. o2 = CutAt(o, x, n)
  OBVIOUS
<1> HIDE DEF o2
<1> SUFFICES ASSUME NEW i \in 1..3
             PROVE  ~(Scenario(d, o2, Scenarios[i]).value[s]
                        > (Scenario(d, o2, Scenarios[i]).nav * Limit(e, s) * Headroom(o2, s)) \div 100000)
  BY <1>2 DEF Overweight
<1>3. PICK c : c = Scenarios[i] /\ IsScenario(c)
  BY ScenariosAre
<1>4. PICK a \in Int, b \in Int, v \in Int, w \in Int :
          /\ a = Scenario(d, o, c).nav /\ b = Scenario(d, o2, c).nav
          /\ v = Scenario(d, o, c).value[s] /\ w = Scenario(d, o2, c).value[s]
          /\ a <= b /\ w <= v
  <2>1. Scenario(d, o, c).nav <= Scenario(d, o2, c).nav
        /\ Scenario(d, o2, c).value[s] <= Scenario(d, o, c).value[s]
    BY <1>2, <1>3, NavGrows
  <2>2. Scenario(d, o, c).nav \in Int /\ Scenario(d, o, c).value[s] \in Int
    BY <1>3, ScenarioIs
  <2>3. Scenario(d, o2, c).nav \in Int /\ Scenario(d, o2, c).value[s] \in Int
    BY <1>1, <1>3, ScenarioIs
  <2> QED BY <2>1, <2>2, <2>3
<1>5. PICK l \in Nat, h \in Nat, k \in Nat :
          /\ l = Limit(e, s) /\ h = Headroom(o, s) /\ k = Headroom(o2, s)
  BY LimitIs
<1>6. v <= (a * l * h) \div 100000
  <2>1. ~(Scenario(d, o, c).value[s] > (Scenario(d, o, c).nav * Limit(e, s) * Headroom(o, s)) \div 100000)
    BY <1>3 DEF Overweight
  <2>2. ~(v > (a * l * h) \div 100000)
    BY <1>4, <1>5, <2>1
  <2>3. (a * l * h) \div 100000 \in Int
    BY LimitGrows
  <2> QED BY <2>2, <2>3
<1>7. h = k \/ (0 < h /\ h <= k /\ s = x)
  <2>1. CASE s = x
    <3>1. o[x] > 0 /\ o2[x] = n
      BY <1>1 DEF OrderSet
    <3>2. h = Policy.headroomBuy
      BY <1>5, <2>1, <3>1 DEF Headroom
    <3>3. k = Policy.headroomBuy \/ k = Policy.headroom
      BY <1>5 DEF Headroom
    <3> QED BY <2>1, <3>2, <3>3, LimitIs
  <2>2. CASE s # x
    BY <1>1, <1>5, <2>2 DEF Headroom
  <2> QED BY <2>1, <2>2
<1>8. s = x => 0 <= v
  <2> SUFFICES ASSUME s = x PROVE 0 <= v
    OBVIOUS
  <2>1. o[x] \in Nat /\ d.held[x] \in Nat /\ Price[x] \in Nat
    BY DataAre DEF OrderSet, IsDay
  <2>2. PICK f \in Nat : f = Filled(o, c)[x]
    <3>1. Filled(o, c)[x] = (o[x] * c.fill) \div 100
      BY <1>3, <2>1, FilledIs
    <3>2. (o[x] * c.fill) \div 100 \in Nat
      BY <1>3, <2>1, FilledLess DEF IsScenario
    <3> QED BY <3>1, <3>2
  <2>3. v = ((d.held[x] + f) * Price[x] * c.factor) \div 100
    BY <1>3, <1>4, <2>2, ScenarioIs DEF Value
  <2>8. d.held[x] + f \in Nat /\ c.factor \in Nat
    BY <1>3, <2>1, <2>2 DEF IsScenario
  <2>4. PICK g \in Nat, p \in Nat, t \in Nat : g = d.held[x] + f /\ p = Price[x] /\ t = c.factor
    BY <2>1, <2>8
  <2>5. PICK y \in Nat : y = g * p
    OBVIOUS
  <2>6. PICK z \in Nat : z = y * t
    OBVIOUS
  <2>7. v = z \div 100
    BY <2>3, <2>4, <2>5, <2>6
  <2> QED BY <2>7
<1>9. PICK r \in Int, u \in Int : r = (a * l * h) \div 100000 /\ u = (b * l * k) \div 100000 /\ r <= u
  <2>1. h = k \/ (0 < h /\ h <= k /\ 0 <= (a * l * h) \div 100000)
    <3>1. (a * l * h) \div 100000 \in Int
      BY LimitGrows
    <3>2. PICK r \in Int : r = (a * l * h) \div 100000
      BY <3>1
    <3>3. s = x => 0 <= r
      BY <1>6, <1>8, <3>2
    <3> QED BY <1>7, <3>2, <3>3
  <2>2. /\ (a * l * h) \div 100000 \in Int /\ (b * l * k) \div 100000 \in Int
        /\ (a * l * h) \div 100000 <= (b * l * k) \div 100000
    <3>1. a <= b
      BY <1>4
    <3> QED BY <2>1, <3>1, LimitGrows
  <2> QED BY <2>2
<1>10. ~(w > u)
  BY <1>4, <1>6, <1>9
<1> QED BY <1>3, <1>4, <1>5, <1>9, <1>10

\* No position is above its limit.
Light(d, e) == {o \in OrderSet : \A s \in Positions(d, o) : ~Overweight(d, e, o, s)}

LEMMA CutIsLight ==
    ASSUME NEW d, IsDay(d), NEW e, IsLimits(e), NEW o \in Light(d, e), NEW x \in Symbols, NEW n \in Nat,
           n < o[x]
    PROVE  CutAt(o, x, n) \in Light(d, e)
<1>1. o \in OrderSet /\ \A s \in Positions(d, o) : ~Overweight(d, e, o, s)
  BY DEF Light
<1>2. CutAt(o, x, n) \in OrderSet
  BY <1>1 DEF CutAt, OrderSet
<1>3. ASSUME NEW s \in Positions(d, CutAt(o, x, n)) PROVE ~Overweight(d, e, CutAt(o, x, n), s)
  <2>1. s \in Symbols /\ d.held[s] + CutAt(o, x, n)[s] > 0
    BY <1>3 DEF Positions, Final
  <2>2. CutAt(o, x, n)[s] <= o[s] /\ o[s] \in Int /\ CutAt(o, x, n)[s] \in Int /\ d.held[s] \in Int
    BY <1>1, <2>1 DEF CutAt, OrderSet, IsDay
  <2>3. d.held[s] + o[s] > 0
    BY <2>1, <2>2
  <2>4. s \in Positions(d, o)
    BY <2>1, <2>3 DEF Positions, Final
  <2> QED BY <1>1, <2>1, <2>4, StaysLight
<1> QED BY <1>2, <1>3 DEF Light

-----------------------------------------------------------------------------
(* What is cut for the sectors and the turnover.                           *)

\* Some lots fewer of one stock that is bought.
CutsABuy(o, o2) == \E x \in Symbols : \E n \in Nat : n < o[x] /\ o2 = CutAt(o, x, n)

LEMMA BuyLessCuts ==
    ASSUME NEW d, IsDay(d), NEW o \in OrderSet, NEW c, c.value \in [Symbols -> Int], NEW g,
           NEW x \in Nat, x = Excess(c, g), x > 0
    PROVE  BuyLess(d, o, c, g) = o \/ CutsABuy(o, BuyLess(d, o, c, g))
<1> DEFINE members == {s \in Bought(o) : Sector[s] = g}
           key == [s \in members |-> -100 * (200000 * d.tier[s] + c.value[s]) + s]
           symbol == First(members, key)
           cut == MinOf(Ceiling(x, 100000 * Price[symbol]), o[symbol])
<1>1. BuyLess(d, o, c, g) = IF members = {} THEN o ELSE CutAt(o, symbol, o[symbol] - cut)
  BY DEF BuyLess, CutAt
<1>2. CASE members = {}
  BY <1>1, <1>2
<1>3. CASE members # {}
  <2>1. members \subseteq Symbols /\ IsFiniteSet(members)
    BY DataAre, FS_Subset DEF Bought
  <2>2. \A s \in members : key[s] \in Int
    <3> SUFFICES ASSUME NEW s \in members PROVE key[s] \in Int
      OBVIOUS
    <3>1. d.tier[s] \in Int /\ c.value[s] \in Int /\ s \in Int
      BY <2>1, DataAre DEF IsDay
    <3> QED BY <3>1
  <2> HIDE DEF key
  <2>3. symbol \in members
    BY <1>3, <2>1, <2>2, KeyExtremes DEF Keyed
  <2> HIDE DEF symbol
  <2>4. symbol \in Symbols /\ o[symbol] \in Nat /\ o[symbol] > 0
        /\ Price[symbol] \in Nat /\ Price[symbol] > 0
    BY <2>3, DataAre DEF Bought, OrderSet
  <2>5. PICK p \in Nat \ {0} : p = 100000 * Price[symbol]
    BY <2>4
  <2>6. Ceiling(x, p) \in Int /\ 0 < Ceiling(x, p)
    BY Upward, SMT
  <2>7. cut \in Nat /\ 0 < cut /\ cut <= o[symbol]
    BY <2>4, <2>5, <2>6 DEF MinOf
  <2>8. o[symbol] - cut \in Nat /\ o[symbol] - cut < o[symbol]
    BY <2>4, <2>7
  <2> HIDE DEF cut
  <2> QED BY <1>1, <1>3, <2>4, <2>8 DEF CutsABuy
<1> QED BY <1>2, <1>3

LEMMA SectorCut ==
    ASSUME NEW d, IsDay(d), NEW o \in OrderSet
    PROVE  CutWorstSector(d, o) = o \/ CutsABuy(o, CutWorstSector(d, o))
<1> DEFINE outcome == Outcomes(d, o)
           all == (1..3) \X {Sector[s] : s \in Symbols}
           excess == [p \in all |-> Excess(outcome[p[1]], p[2])]
           places == {p \in all : excess[p] > 0}
           worst == {p \in places : \A q \in places : excess[q] <= excess[p]}
           order == [p \in worst |-> 100 * p[1] + p[2]]
           place == First(worst, order)
<1>1. CutWorstSector(d, o) = IF Policy.maxSector >= 100 \/ places = {} THEN o
                             ELSE BuyLess(d, o, outcome[place[1]], place[2])
  BY DEF CutWorstSector
<1>2. CASE Policy.maxSector >= 100 \/ places = {}
  <2> HIDE DEF places, place, outcome
  <2>1. CutWorstSector(d, o) = o
    BY <1>1, <1>2, Zenon
  <2> QED BY <2>1
<1>3. CASE ~(Policy.maxSector >= 100 \/ places = {})
  <2>1. \A i \in 1..3 : outcome[i] = Scenario(d, o, Scenarios[i])
    BY DEF Outcomes
  <2>2. \A i \in 1..3 : outcome[i].value \in [Symbols -> Int] /\ outcome[i].nav \in Int
    BY <2>1, ScenariosAre, ScenarioIs
  <2>3. ASSUME NEW i \in 1..3, NEW g \in Nat PROVE Excess(outcome[i], g) \in Int
    <3> DEFINE f == [s \in Symbols |-> IF Sector[s] = g THEN outcome[i].value[s] ELSE 0]
    <3>1. Numbers(f, Symbols)
      BY <2>2 DEF Numbers
    <3>2. Sum(f, Symbols) \in Int
      <4> HIDE DEF f
      <4> QED BY <3>1, DataAre, SumSteps
    <3>3. SectorValue(outcome[i], g) \in Int
      BY <3>2 DEF SectorValue
    <3>4. PICK a \in Int, b \in Int, m \in Nat, h \in Nat :
              /\ a = SectorValue(outcome[i], g) /\ b = outcome[i].nav
              /\ m = Policy.maxSector /\ h = Policy.headroom
      BY <2>2, <3>3, PolicyNumbers
    <3>5. PICK y \in Int : y = b * m
      OBVIOUS
    <3>6. y * h \in Int
      OBVIOUS
    <3>7. 100000 * a - y * h \in Int
      BY <3>6
    <3> QED BY <3>4, <3>5, <3>7 DEF Excess
  <2> HIDE DEF outcome
  <2>4. \A p \in all : p[1] \in 1..3 /\ p[2] \in Nat /\ excess[p] \in Int
    <3>1. \A s \in Symbols : Sector[s] \in Nat
      BY DataAre
    <3> QED BY <2>3, <3>1
  <2>5. IsFiniteSet(all)
    <3>1. IsFiniteSet({Sector[s] : s \in Symbols})
      <4>1. IsFiniteSet(Symbols)
        BY DataAre
      <4> DEFINE code == [s \in Symbols |-> Sector[s]]
      <4>2. code \in Surjection(Symbols, {Sector[s] : s \in Symbols})
        BY DEF Surjection
      <4> QED BY <4>1, <4>2, FS_Surjection
    <3>2. IsFiniteSet(1..3)
      <4>1. 1 \in Int /\ 3 \in Int
        OBVIOUS
      <4> QED BY <4>1, FS_Interval, Zenon
    <3> QED BY <3>1, <3>2, FS_Product
  <2>6. \A p \in all : excess[p] = Excess(outcome[p[1]], p[2])
    OBVIOUS
  <2> HIDE DEF all, excess
  <2>7. places \subseteq all /\ IsFiniteSet(places) /\ places # {} /\ \A p \in places : excess[p] \in Int
    BY <1>3, <2>4, <2>5, FS_Subset
  <2>8. worst # {}
    <3>1. \E p \in places : \A q \in places : excess[q] <= excess[p]
      <4> HIDE DEF places
      <4>1. Keyed(places, excess)
        BY <2>7 DEF Keyed
      <4>2. Last(places, excess) \in places
            /\ \A t \in places : excess[t] <= excess[Last(places, excess)]
        BY <2>7, <4>1, KeyExtremes
      <4> QED BY <4>2
    <3> QED BY <3>1
  <2>9. place \in worst
    <3>1. IsFiniteSet(worst) /\ Keyed(worst, order)
      BY <2>4, <2>7, FS_Subset DEF Keyed
    <3> HIDE DEF worst, order
    <3> QED BY <2>8, <3>1, KeyExtremes
  <2> HIDE DEF place, order
  <2>10. place \in all /\ excess[place] > 0
    BY <2>9
  <2>11. PICK c : c = outcome[place[1]] /\ c.value \in [Symbols -> Int]
    BY <2>2, <2>4, <2>10
  <2>12. PICK x \in Nat : x = Excess(c, place[2]) /\ x > 0
    BY <2>4, <2>6, <2>10, <2>11
  <2>13. BuyLess(d, o, c, place[2]) = o \/ CutsABuy(o, BuyLess(d, o, c, place[2]))
    BY <2>11, <2>12, BuyLessCuts
  <2> QED BY <1>1, <1>3, <2>11, <2>13
<1> QED BY <1>2, <1>3

LEMMA TradedIs ==
    ASSUME NEW o \in OrderSet
    PROVE  Traded(o) \in Int
<1> DEFINE f == [s \in Symbols |-> Gross(s, o[s], 1)]
<1>1. \A s \in Symbols : o[s] \in Int
  BY DEF OrderSet
<1>2. \A s \in Symbols : Gross(s, o[s], 1) \in Int
  BY <1>1, GrossIs
<1>3. Numbers(f, Symbols)
  BY <1>2 DEF Numbers
<1>4. Traded(o) = Sum(f, Symbols)
  BY DEF Traded
<1> HIDE DEF f
<1> QED BY <1>3, <1>4, DataAre, SumSteps

LEMMA TurnoverCut ==
    ASSUME NEW d, IsDay(d), NEW e, IsLimits(e), NEW asked, NEW o \in OrderSet
    PROVE  \/ /\ CutToTurnover(d, e, asked, o) = o
              /\ 100 * Traded(o) - Nav(d) * e.turnover <= 0 \/ Bought(o) = {}
           \/ CutsABuy(o, CutToTurnover(d, e, asked, o))
<1> DEFINE excess == 100 * Traded(o) - Nav(d) * e.turnover
           bought == Bought(o)
           key == [s \in bought |-> -(100 * d.tier[s] + Atr[s])]
           weakest == First(bought, key)
           cut == MinOf(MaxOf(Ceiling(excess, 100 * Price[weakest]), 1), o[weakest])
           left == o[weakest] - cut
           lots == IF d.held[weakest] = 0 /\ d.tier[weakest] # High /\ 2 * left < asked[weakest]
                   THEN 0 ELSE left
<1>1. CutToTurnover(d, e, asked, o) = IF excess <= 0 \/ bought = {} THEN o
                                      ELSE CutAt(o, weakest, lots)
  BY DEF CutToTurnover, CutAt
<1>2. CASE excess <= 0 \/ bought = {}
  BY <1>1, <1>2
<1>3. CASE ~(excess <= 0 \/ bought = {})
  <2>1. bought \subseteq Symbols /\ IsFiniteSet(bought)
    BY DataAre, FS_Subset DEF Bought
  <2>2. \A s \in bought : key[s] \in Int
    <3> SUFFICES ASSUME NEW s \in bought PROVE key[s] \in Int
      OBVIOUS
    <3>1. s \in Symbols
      BY <2>1
    <3>2. d.tier[s] \in Int /\ Atr[s] \in Int
      BY <3>1, DataAre, DayIs
    <3> QED BY <3>2
  <2>3. weakest \in bought
    <3> HIDE DEF key
    <3> QED BY <1>3, <2>1, <2>2, KeyExtremes DEF Keyed
  <2> HIDE DEF weakest
  <2>4. weakest \in Symbols /\ o[weakest] \in Nat /\ o[weakest] > 0
        /\ Price[weakest] \in Nat /\ Price[weakest] > 0
    BY <2>3, DataAre DEF Bought, OrderSet
  <2>5. excess \in Int
    <3>3. Traded(o) \in Int /\ Nav(d) \in Int /\ e.turnover \in Nat
      BY NavIs, TradedIs DEF IsLimits
    <3>4. Nav(d) * e.turnover \in Int
      BY <3>3
    <3> QED BY <3>3, <3>4
  <2> HIDE DEF excess
  <2>6. PICK p \in Nat \ {0} : p = 100 * Price[weakest]
    BY <2>4
  <2>7. Ceiling(excess, p) \in Int
    BY <2>5, <2>6, Upward
  <2>8. cut \in Nat /\ 0 < cut /\ cut <= o[weakest]
    BY <2>4, <2>6, <2>7 DEF MinOf, MaxOf
  <2>9. left \in Nat /\ left < o[weakest]
    BY <2>4, <2>8
  <2> HIDE DEF cut, left
  <2>10. lots \in Nat /\ lots < o[weakest]
    BY <2>4, <2>9
  <2> HIDE DEF lots
  <2> QED BY <1>1, <1>3, <2>4, <2>10 DEF CutsABuy
<1> QED BY <1>2, <1>3

\* The three loops over the orders.
LEMMA LeftMeasures ==
    ASSUME NEW d, IsDay(d)
    PROVE  [o \in OrderSet |-> Left(d, o)] \in [OrderSet -> Nat]
  BY LeftIs

LEMMA CutsABuyKeeps ==
    ASSUME NEW d, IsDay(d), NEW e, IsLimits(e), NEW floor \in Int, NEW B \in OrderSet, NEW o \in OrderSet, NEW o2,
           CutsABuy(o, o2)
    PROVE  /\ o2 \in OrderSet /\ Left(d, o2) < Left(d, o)
           /\ o \in Sound(d, floor, B) => o2 \in Sound(d, floor, B)
           /\ o \in Light(d, e) => o2 \in Light(d, e)
<1>1. PICK x \in Symbols : \E n \in Nat : n < o[x] /\ o2 = CutAt(o, x, n)
  BY DEF CutsABuy
<1>2. PICK n \in Nat : n < o[x] /\ o2 = CutAt(o, x, n)
  BY <1>1
<1>3. d.held[x] \in Nat /\ o[x] \in Int
  BY DayIs DEF OrderSet
<1>4. d.held[x] + o[x] > 0 /\ n \in Int /\ Fewer(o[x], n)
  BY <1>2, <1>3 DEF Fewer
<1>5. o2 \in OrderSet
  BY <1>2 DEF CutAt, OrderSet
<1>6. Left(d, o2) < Left(d, o)
  BY <1>2, <1>4, CutLeavesLess
<1>7. o \in Sound(d, floor, B) => o2 \in Sound(d, floor, B)
  BY <1>2, <1>4, CutIsSound
<1>8. o \in Light(d, e) => o2 \in Light(d, e)
  BY <1>2, CutIsLight
<1> QED BY <1>5, <1>6, <1>7, <1>8

LEMMA SectorsFitted ==
    ASSUME NEW d, IsDay(d), NEW e, IsLimits(e), NEW floor \in Int, NEW B \in OrderSet,
           NEW o \in Sound(d, floor, B) \cap Light(d, e)
    PROVE  FitSectorWeights(d, o) \in Sound(d, floor, B) \cap Light(d, e)
<1> DEFINE g == [p \in OrderSet |-> CutWorstSector(d, p)]
           m == [p \in OrderSet |-> Left(d, p)]
           I == Sound(d, floor, B) \cap Light(d, e)
<1>1. \A p \in OrderSet : g[p] = p \/ CutsABuy(p, g[p])
  BY SectorCut
<1>2. g = [p \in OrderSet |-> g[p]] /\ \A p \in OrderSet : m[p] = Left(d, p)
  OBVIOUS
<1>3. m \in [OrderSet -> Nat]
  BY LeftMeasures
<1>4. FitSectorWeights(d, o) = Repeat(g, o)
  BY DEF FitSectorWeights
<1>5. I \in SUBSET OrderSet
  BY DEF Sound
<1> HIDE DEF g, m
<1>6. ASSUME NEW p \in OrderSet
      PROVE  g[p] \in OrderSet /\ (g[p] = p \/ m[g[p]] < m[p]) /\ (p \in I => g[p] \in I)
  <2>1. CASE g[p] = p
    BY <2>1
  <2>2. CASE CutsABuy(p, g[p])
    <3>1. g[p] \in OrderSet /\ Left(d, g[p]) < Left(d, p)
      BY <2>2, CutsABuyKeeps
    <3>2. p \in I => g[p] \in I
      BY <2>2, CutsABuyKeeps
    <3> QED BY <1>2, <3>1, <3>2
  <2> QED BY <1>1, <2>1, <2>2
<1>7. Shrinks(g, OrderSet, m)
  <2>1. g \in [OrderSet -> OrderSet]
    BY <1>2, <1>6
  <2> QED BY <1>3, <1>6, <2>1 DEF Shrinks
<1>8. \A p \in I : g[p] \in I
  BY <1>5, <1>6
<1> HIDE DEF I
<1>9. o \in I
  BY DEF I
<1>10. Repeat(g, o) \in I
  BY <1>5, <1>7, <1>8, <1>9, Repeats
<1> QED BY <1>4, <1>10 DEF I

\* What is traded is above its limit only if nothing is bought.
LEMMA TurnoverFitted ==
    ASSUME NEW d, IsDay(d), NEW e, IsLimits(e), NEW floor \in Int, NEW B \in OrderSet,
           NEW o \in Sound(d, floor, B) \cap Light(d, e)
    PROVE  /\ FitTurnover(d, e, o) \in Sound(d, floor, B) \cap Light(d, e)
           /\ \/ 100 * Traded(FitTurnover(d, e, o)) - Nav(d) * e.turnover <= 0
              \/ Bought(FitTurnover(d, e, o)) = {}
<1> DEFINE g == [p \in OrderSet |-> CutToTurnover(d, e, o, p)]
           m == [p \in OrderSet |-> Left(d, p)]
           I == Sound(d, floor, B) \cap Light(d, e)
           Done(p) == 100 * Traded(p) - Nav(d) * e.turnover <= 0 \/ Bought(p) = {}
<1>1. \A p \in OrderSet : (g[p] = p /\ Done(p)) \/ CutsABuy(p, g[p])
  BY TurnoverCut
<1>2. g = [p \in OrderSet |-> g[p]] /\ \A p \in OrderSet : m[p] = Left(d, p)
  OBVIOUS
<1>3. m \in [OrderSet -> Nat]
  BY LeftMeasures
<1>4. FitTurnover(d, e, o) = Repeat(g, o)
  BY DEF FitTurnover
<1>5. I \in SUBSET OrderSet
  BY DEF Sound
<1> HIDE DEF g, m, Done
<1>6. ASSUME NEW p \in OrderSet
      PROVE  /\ g[p] \in OrderSet /\ (g[p] = p \/ m[g[p]] < m[p]) /\ (p \in I => g[p] \in I)
             /\ g[p] = p => Done(p)
  <2>1. CASE g[p] = p /\ Done(p)
    BY <2>1
  <2>2. CASE CutsABuy(p, g[p])
    <3>1. g[p] \in OrderSet /\ Left(d, g[p]) < Left(d, p)
      BY <2>2, CutsABuyKeeps
    <3>2. p \in I => g[p] \in I
      BY <2>2, CutsABuyKeeps
    <3>3. g[p] # p
      <4>1. Left(d, p) \in Nat
        BY LeftIs
      <4> QED BY <3>1, <4>1
    <3> QED BY <1>2, <3>1, <3>2, <3>3
  <2> QED BY <1>1, <2>1, <2>2
<1>7. Shrinks(g, OrderSet, m)
  <2>1. g \in [OrderSet -> OrderSet]
    BY <1>2, <1>6
  <2> QED BY <1>3, <1>6, <2>1 DEF Shrinks
<1>8. \A p \in I : g[p] \in I
  BY <1>5, <1>6
<1> HIDE DEF I
<1>9. o \in I
  BY DEF I
<1>10. Repeat(g, o) \in I /\ g[Repeat(g, o)] = Repeat(g, o)
  BY <1>5, <1>7, <1>8, <1>9, Repeats
<1>11. Done(Repeat(g, o))
  BY <1>5, <1>6, <1>10
<1> QED BY <1>4, <1>10, <1>11 DEF I, Done

\* What is left of a set of orders by taking lots off what is too heavy.
Closed(d, e, A) == A \subseteq OrderSet /\ \A o \in A : \A s \in Symbols : LotLess(d, e, s, o) \in A
NoMore(d, o, o2) == o2 = o \/ Left(d, o2) < Left(d, o)

LEMMA LotLessIs ==
    ASSUME NEW d, IsDay(d), NEW e, NEW s \in Symbols, NEW o \in OrderSet
    PROVE  /\ LotLess(d, e, s, o) \in OrderSet /\ NoMore(d, o, LotLess(d, e, s, o))
           /\ LotLess(d, e, s, o) = o => ~(d.held[s] + o[s] > 0 /\ Overweight(d, e, o, s))
           /\ LotLess(d, e, s, o) = o \/ LotLess(d, e, s, o) = CutAt(o, s, o[s] - 1)
<1>1. d.held[s] \in Nat /\ o[s] \in Int
  BY DayIs DEF OrderSet
<1>2. CASE d.held[s] + o[s] > 0 /\ Overweight(d, e, o, s)
  <2>1. LotLess(d, e, s, o) = CutAt(o, s, o[s] - 1)
    BY <1>2 DEF LotLess, CutAt
  <2>2. o[s] - 1 \in Int /\ o[s] - 1 < o[s]
    BY <1>1
  <2>3. Left(d, CutAt(o, s, o[s] - 1)) < Left(d, o)
    BY <1>2, <2>2, CutLeavesLess
  <2>4. CutAt(o, s, o[s] - 1) \in OrderSet
    BY <2>2 DEF CutAt, OrderSet
  <2>5. CutAt(o, s, o[s] - 1) # o
    BY <1>1 DEF CutAt, OrderSet
  <2> QED BY <2>1, <2>3, <2>4, <2>5 DEF NoMore
<1>3. CASE ~(d.held[s] + o[s] > 0 /\ Overweight(d, e, o, s))
  <2>1. LotLess(d, e, s, o) = o
    BY <1>3 DEF LotLess
  <2> QED BY <1>3, <2>1 DEF NoMore
<1> QED BY <1>2, <1>3

LEMMA SoundIsClosed ==
    ASSUME NEW d, IsDay(d), NEW e, NEW floor \in Int, NEW B \in OrderSet
    PROVE  Closed(d, e, Sound(d, floor, B)) /\ Closed(d, e, OrderSet)
<1>1. ASSUME NEW o \in Sound(d, floor, B), NEW s \in Symbols
      PROVE  LotLess(d, e, s, o) \in Sound(d, floor, B)
  <2>1. o \in OrderSet /\ o[s] \in Int
    BY DEF Sound, OrderSet
  <2>2. o[s] - 1 \in Int /\ Fewer(o[s], o[s] - 1)
    BY <2>1 DEF Fewer
  <2>3. CutAt(o, s, o[s] - 1) \in Sound(d, floor, B)
    BY <2>2, CutIsSound
  <2> QED BY <2>1, <2>3, LotLessIs
<1>2. \A o \in OrderSet : \A s \in Symbols : LotLess(d, e, s, o) \in OrderSet
  BY LotLessIs
<1>3. Sound(d, floor, B) \subseteq OrderSet
  BY DEF Sound
<1> QED BY <1>1, <1>2, <1>3 DEF Closed

LEMMA StockFitted ==
    ASSUME NEW d, IsDay(d), NEW e, NEW A, Closed(d, e, A), NEW o \in A, NEW s \in Symbols
    PROVE  /\ FitStock(d, e, o, s) \in A /\ NoMore(d, o, FitStock(d, e, o, s))
           /\ FitStock(d, e, o, s) = o => ~(d.held[s] + o[s] > 0 /\ Overweight(d, e, o, s))
<1> DEFINE g == [p \in OrderSet |-> LotLess(d, e, s, p)]
           m == [p \in OrderSet |-> Left(d, p)]
           I == {p \in A : NoMore(d, o, p)}
<1>1. g = [p \in OrderSet |-> g[p]] /\ \A p \in OrderSet : m[p] = Left(d, p)
  OBVIOUS
<1>2. \A p \in OrderSet : g[p] = LotLess(d, e, s, p)
  OBVIOUS
<1>3. m \in [OrderSet -> Nat]
  BY LeftMeasures
<1>4. FitStock(d, e, o, s) = Repeat(g, o)
  BY DEF FitStock
<1> HIDE DEF g, m
<1>5. ASSUME NEW p \in OrderSet PROVE g[p] \in OrderSet /\ (g[p] = p \/ m[g[p]] < m[p])
  BY <1>1, <1>2, LotLessIs DEF NoMore
<1>6. Shrinks(g, OrderSet, m)
  <2>1. g \in [OrderSet -> OrderSet]
    BY <1>1, <1>5
  <2> QED BY <1>3, <1>5, <2>1 DEF Shrinks
<1>7. I \in SUBSET OrderSet
  BY DEF Closed
<1>8. ASSUME NEW p \in I PROVE g[p] \in I
  <2>1. p \in OrderSet /\ p \in A
    BY <1>7
  <2>2. LotLess(d, e, s, p) \in A
    BY <2>1 DEF Closed
  <2>3. NoMore(d, p, LotLess(d, e, s, p)) /\ NoMore(d, o, p)
    BY <2>1, LotLessIs
  <2>4. Left(d, p) \in Nat /\ Left(d, o) \in Nat /\ Left(d, LotLess(d, e, s, p)) \in Nat
    BY <2>1, LotLessIs, LeftIs DEF Closed
  <2>5. NoMore(d, o, LotLess(d, e, s, p))
    BY <2>3, <2>4 DEF NoMore
  <2> QED BY <1>2, <2>1, <2>2, <2>5
<1>9. o \in I
  BY DEF NoMore
<1> HIDE DEF I
<1>10. Repeat(g, o) \in I /\ g[Repeat(g, o)] = Repeat(g, o)
  BY <1>6, <1>7, <1>8, <1>9, Repeats
<1>11. Repeat(g, o) \in A /\ NoMore(d, o, Repeat(g, o))
  BY <1>10 DEF I
<1>12. Repeat(g, o) = o => LotLess(d, e, s, o) = o
  BY <1>2, <1>7, <1>9, <1>10
<1>13. o \in OrderSet
  BY <1>7, <1>9
<1> QED BY <1>4, <1>11, <1>12, <1>13, LotLessIs

\* The choice of the last of a set by a key.
LastOf(S, key) == [T \in SUBSET S |-> Last(T, key)]

LEMMA LastIsChosen ==
    ASSUME NEW S, IsFiniteSet(S), NEW key, Keyed(S, key)
    PROVE  Chooses(S, LastOf(S, key)) /\ \A T \in SUBSET S : LastOf(S, key)[T] = Last(T, key)
<1>1. ASSUME NEW T \in SUBSET S, T # {} PROVE Last(T, key) \in T
  <2>1. IsFiniteSet(T) /\ Keyed(T, key)
    BY FS_Subset DEF Keyed
  <2> QED BY <1>1, <2>1, KeyExtremes
<1>2. \A T \in SUBSET S : LastOf(S, key)[T] = Last(T, key)
  BY DEF LastOf
<1> QED BY <1>1, <1>2 DEF Chooses

EachRule(d, e, o, F) ==
    F = [T \in SUBSET Positions(d, o) |->
            IF T = {} THEN o
            ELSE LET x == Last(T, [s \in Positions(d, o) |-> s])
                 IN  FitStock(d, e, F[T \ {x}], x)]
EachOf(d, e, o) == CHOOSE F : EachRule(d, e, o, F)

EachGoes(d, e, A, o, S, F) ==
    /\ F \in [SUBSET S -> A] /\ F[{}] = o /\ F[S] = FitEachStock(d, e, o)
    /\ \A T \in SUBSET S : T # {} => \E s \in T : F[T] = FitStock(d, e, F[T \ {s}], s)

LEMMA EachStockGoes ==
    ASSUME NEW d, IsDay(d), NEW e, NEW A, Closed(d, e, A), NEW o \in A
    PROVE  \E F : EachGoes(d, e, A, o, Positions(d, o), F)
<1> DEFINE S == Positions(d, o)
           key == [s \in S |-> s]
           c == LastOf(S, key)
           G == [p \in S \X A |-> FitStock(d, e, p[2], p[1])]
           X == EachOf(d, e, o)
<1>1. S \subseteq Symbols /\ IsFiniteSet(S)
  BY DataAre, FS_Subset DEF Positions
<1>2. Keyed(S, key)
  <2>1. \A s \in S : key[s] = s
    OBVIOUS
  <2>2. \A s \in S : s \in Nat
    BY <1>1, DataAre
  <2> QED BY <2>1, <2>2 DEF Keyed
<1>3. FitEachStock(d, e, o) = X[S]
  BY DEF FitEachStock, InOrder, MapThenFoldSet, EachOf, EachRule
<1>4. \A s \in S, p \in A : G[<<s, p>>] = FitStock(d, e, p, s)
  OBVIOUS
<1>5. \A s \in S, p \in A : FitStock(d, e, p, s) \in A
  BY <1>1, StockFitted
<1>6. G \in [S \X A -> A]
  BY <1>5
<1>7. \A F : EachRule(d, e, o, F) <=>
                F = [T \in SUBSET S |-> IF T = {} THEN o
                                        ELSE FitStock(d, e, F[T \ {Last(T, key)}], Last(T, key))]
  BY DEF EachRule
<1> HIDE DEF G, key, S
<1>8. Chooses(S, c) /\ \A T \in SUBSET S : c[T] = Last(T, key)
  BY <1>1, <1>2, LastIsChosen
<1> HIDE DEF c
<1>9. \A T \in SUBSET S : T # {} => c[T] \in S /\ c[T] \in T /\ T \ {c[T]} \in SUBSET S
  BY <1>8 DEF Chooses
<1>10. PICK F : Folded(F, A, o, S, c, G)
  BY <1>1, <1>6, <1>8, SetFoldExists
<1>11. F = [T \in SUBSET S |-> F[T]]
       /\ \A T \in SUBSET S : F[T] \in A /\ F[T] = IF T = {} THEN o ELSE G[<<c[T], F[T \ {c[T]}]>>]
  BY <1>10 DEF Folded
<1>12. \A T \in SUBSET S : F[T] = IF T = {} THEN o
                                 ELSE FitStock(d, e, F[T \ {Last(T, key)}], Last(T, key))
  <2> SUFFICES ASSUME NEW T \in SUBSET S, T # {}
               PROVE  F[T] = FitStock(d, e, F[T \ {Last(T, key)}], Last(T, key))
    BY <1>11
  <2>1. c[T] \in S /\ T \ {c[T]} \in SUBSET S /\ c[T] = Last(T, key)
    BY <1>8, <1>9
  <2>2. F[T] = G[<<c[T], F[T \ {c[T]}]>>] /\ F[T \ {c[T]}] \in A
    BY <1>11, <2>1
  <2>3. F[T] = FitStock(d, e, F[T \ {c[T]}], c[T])
    BY <1>4, <2>1, <2>2
  <2> QED BY <2>1, <2>3
<1>13. EachRule(d, e, o, F)
  BY <1>7, <1>11, <1>12
<1>14. EachRule(d, e, o, X)
  BY <1>13, Zenon DEF EachOf
<1> HIDE DEF X
<1>15. X[{}] = o /\ \A T \in SUBSET S : T # {} => X[T] = FitStock(d, e, X[T \ {c[T]}], c[T])
  BY <1>7, <1>8, <1>14
<1>16. FoldOver(X, A, o, S, c, G)
  BY <1>4, <1>9, <1>15 DEF FoldOver
<1>17. PICK H : Goes(H, S, A, o, G, X[S])
  <2>1. Chooses(S, c) /\ IsFiniteSet(S)
    BY <1>1, <1>8
  <2>2. \E H : Goes(H, S, A, o, G, X[S])
    BY <1>6, <1>16, <2>1, SetFoldGoes
  <2> QED BY <2>2
<1>18. /\ H \in [SUBSET S -> A] /\ H[{}] = o /\ H[S] = X[S]
       /\ \A T \in SUBSET S : T # {} => \E s \in T : H[T] = G[<<s, H[T \ {s}]>>]
  BY <1>17 DEF Goes
<1>19. ASSUME NEW T \in SUBSET S, T # {} PROVE \E s \in T : H[T] = FitStock(d, e, H[T \ {s}], s)
  <2>1. PICK s \in T : H[T] = G[<<s, H[T \ {s}]>>]
    BY <1>18, <1>19
  <2>2. s \in S /\ T \ {s} \in SUBSET S /\ H[T \ {s}] \in A
    BY <1>18
  <2>3. H[T] = FitStock(d, e, H[T \ {s}], s)
    BY <1>4, <2>1, <2>2
  <2> QED BY <2>3
<1>20. EachGoes(d, e, A, o, S, H)
  BY <1>3, <1>18, <1>19 DEF EachGoes
<1> QED BY <1>20 DEF S

LEMMA EachStockFitted ==
    ASSUME NEW d, IsDay(d), NEW e, NEW A, Closed(d, e, A), NEW o \in A
    PROVE  /\ FitEachStock(d, e, o) \in A /\ NoMore(d, o, FitEachStock(d, e, o))
           /\ FitEachStock(d, e, o) = o => o \in Light(d, e)
<1> DEFINE S == Positions(d, o)
<1>1. PICK F \in [SUBSET S -> A] :
              /\ F[{}] = o /\ F[S] = FitEachStock(d, e, o)
              /\ \A T \in SUBSET S : T # {} => \E s \in T : F[T] = FitStock(d, e, F[T \ {s}], s)
  <2>1. \E F : EachGoes(d, e, A, o, S, F)
    BY EachStockGoes
  <2> QED BY <2>1 DEF EachGoes
<1>2. S \subseteq Symbols /\ IsFiniteSet(S)
  BY DataAre, FS_Subset DEF Positions
<1>3. A \subseteq OrderSet
  BY DEF Closed
<1> DEFINE Fine(T) == \A s \in T : ~(d.held[s] + o[s] > 0 /\ Overweight(d, e, o, s))
           P == {T \in SUBSET S : NoMore(d, o, F[T]) /\ (F[T] = o => Fine(T))}
<1>4. {} \in P
  BY <1>1 DEF NoMore
<1>5. ASSUME NEW T \in SUBSET S, T # {} PROVE \E s \in T : T \ {s} \in P => T \in P
  <2>1. PICK s \in T : F[T] = FitStock(d, e, F[T \ {s}], s)
    BY <1>1, <1>5
  <2> SUFFICES ASSUME T \ {s} \in P PROVE T \in P
    BY <2>1
  <2>2. PICK p : p = F[T \ {s}] /\ p \in A /\ s \in Symbols
    BY <1>1, <1>2
  <2>3. NoMore(d, o, p) /\ (p = o => Fine(T \ {s}))
    BY <2>2
  <2>4. /\ FitStock(d, e, p, s) \in A /\ NoMore(d, p, FitStock(d, e, p, s))
        /\ FitStock(d, e, p, s) = p => ~(d.held[s] + p[s] > 0 /\ Overweight(d, e, p, s))
    BY <2>2, StockFitted
  <2>5. PICK q : q = FitStock(d, e, p, s) /\ q \in A /\ F[T] = q
    BY <2>1, <2>2, <2>4
  <2>6. Left(d, o) \in Nat /\ Left(d, p) \in Nat /\ Left(d, q) \in Nat
    BY <1>3, <2>2, <2>5, LeftIs
  <2>7. NoMore(d, p, q)
    BY <2>4, <2>5
  <2>8. NoMore(d, o, q) /\ (q = o => p = o)
    BY <2>3, <2>6, <2>7 DEF NoMore
  <2>9. ASSUME q = o PROVE Fine(T)
    <3>1. p = o /\ Fine(T \ {s})
      BY <2>3, <2>8, <2>9
    <3>2. ~(d.held[s] + o[s] > 0 /\ Overweight(d, e, o, s))
      BY <2>4, <2>5, <2>9, <3>1
    <3> QED BY <3>1, <3>2
  <2> HIDE DEF Fine
  <2> QED BY <2>5, <2>8, <2>9
<1>6. S \in P
  <2> HIDE DEF P, S
  <2> QED BY <1>2, <1>4, <1>5, SetInduction
<1>7. FitEachStock(d, e, o) \in A /\ NoMore(d, o, FitEachStock(d, e, o))
  BY <1>1, <1>6
<1>8. ASSUME FitEachStock(d, e, o) = o PROVE o \in Light(d, e)
  <2>1. Fine(S)
    BY <1>1, <1>6, <1>8
  <2>2. \A s \in S : d.held[s] + o[s] > 0
    BY DEF Positions, Final
  <2>3. \A s \in S : ~Overweight(d, e, o, s)
    BY <2>1, <2>2
  <2> QED BY <1>3, <2>3 DEF Light
<1> QED BY <1>7, <1>8

LEMMA StocksFitted ==
    ASSUME NEW d, IsDay(d), NEW e, NEW floor \in Int, NEW B \in OrderSet, NEW o \in Sound(d, floor, B)
    PROVE  FitStockWeights(d, e, o) \in Sound(d, floor, B) \cap Light(d, e)
<1> DEFINE g == [p \in OrderSet |-> FitEachStock(d, e, p)]
           m == [p \in OrderSet |-> Left(d, p)]
           I == Sound(d, floor, B)
<1>1. g = [p \in OrderSet |-> g[p]] /\ \A p \in OrderSet : m[p] = Left(d, p)
  OBVIOUS
<1>2. \A p \in OrderSet : g[p] = FitEachStock(d, e, p)
  OBVIOUS
<1>3. m \in [OrderSet -> Nat]
  BY LeftMeasures
<1>4. FitStockWeights(d, e, o) = Repeat(g, o)
  BY DEF FitStockWeights
<1>5. I \in SUBSET OrderSet
  BY DEF Sound
<1>6. Closed(d, e, I) /\ Closed(d, e, OrderSet)
  BY SoundIsClosed
<1> HIDE DEF g, m, I
<1>7. ASSUME NEW p \in OrderSet
      PROVE  g[p] \in OrderSet /\ (g[p] = p \/ m[g[p]] < m[p]) /\ (g[p] = p => p \in Light(d, e))
  BY <1>1, <1>2, <1>6, EachStockFitted DEF NoMore
<1>8. \A p \in I : g[p] \in I
  BY <1>2, <1>5, <1>6, EachStockFitted
<1>9. Shrinks(g, OrderSet, m)
  <2>1. g \in [OrderSet -> OrderSet]
    BY <1>1, <1>7
  <2> QED BY <1>3, <1>7, <2>1 DEF Shrinks
<1>10. o \in I
  BY DEF I
<1>11. Repeat(g, o) \in I /\ g[Repeat(g, o)] = Repeat(g, o)
  BY <1>5, <1>8, <1>9, <1>10, Repeats
<1>12. Repeat(g, o) \in Light(d, e)
  BY <1>5, <1>7, <1>11
<1> QED BY <1>4, <1>11, <1>12 DEF I

-----------------------------------------------------------------------------
(* The cash.                                                               *)

LEMMA MaxIs ==
    ASSUME NEW S, IsFiniteSet(S), S # {}, S \subseteq Int
    PROVE  /\ Max(S) \in S /\ \A t \in S : t <= Max(S)
           /\ Min(S) \in S /\ \A t \in S : Min(S) <= t
<1> DEFINE key == [s \in S |-> s]
<1>1. Keyed(S, key)
  BY DEF Keyed
<1>2. \A s \in S : key[s] = s
  OBVIOUS
<1> HIDE DEF key
<1>3. \E x \in S : \A y \in S : x >= y
  <2>1. Last(S, key) \in S /\ \A t \in S : key[t] <= key[Last(S, key)]
    BY <1>1, KeyExtremes
  <2>2. PICK l : l = Last(S, key)
    OBVIOUS
  <2> QED BY <1>2, <2>1, <2>2
<1>4. \E x \in S : \A y \in S : x <= y
  <2>1. First(S, key) \in S /\ \A t \in S : key[First(S, key)] <= key[t]
    BY <1>1, KeyExtremes
  <2>2. PICK l : l = First(S, key)
    OBVIOUS
  <2> QED BY <1>2, <2>1, <2>2
<1>5. PICK x : x = Max(S) /\ x \in S /\ \A y \in S : x >= y
  BY <1>3 DEF Max
<1>6. PICK z : z = Min(S) /\ z \in S /\ \A y \in S : z <= y
  BY <1>4 DEF Min
<1>7. \A t \in S : t <= x
  BY <1>5
<1> QED BY <1>5, <1>6, <1>7

Carts == [orders : OrderSet, available : Int, bought : Int, clipped : BOOLEAN]

\* What becomes of the orders and the money when n lots of s are taken.
Takes(w, s, n, w2, floor) ==
    /\ w2 \in Carts
    /\ w2.orders = CutAt(w.orders, s, n)
    /\ w2.available = w.available + Impact(s, n, 1) /\ w2.bought = w.bought - Impact(s, n, 1)
    /\ n > 0 => Covered(w2.available, w2.bought, floor)

LEMMA BuyLotsTakes ==
    ASSUME NEW d, NEW floor, NEW o \in OrderSet, NEW w \in Carts, NEW s \in Bought(o)
    PROVE  \E n \in 0..o[s] : Takes(w, s, n, BuyLots(d, floor, o, w, s), floor)
<1> DEFINE high == d.tier[s] = High
           cost(n) == -Impact(s, n, 1)
           can == {n \in 1..o[s] : Covered(w.available - cost(n), w.bought + cost(n), floor)}
           most == IF w.clipped /\ ~high /\ d.held[s] = 0 THEN 0 ELSE Max({0} \cup can)
           lots == IF most < o[s] /\ d.held[s] = 0 /\ ~high /\ 2 * most < o[s] THEN 0 ELSE most
           w2 == BuyLots(d, floor, o, w, s)
<1>1. w2 = [orders |-> [w.orders EXCEPT ![s] = lots],
            available |-> w.available - cost(lots), bought |-> w.bought + cost(lots),
            clipped |-> w.clipped \/ (high /\ 0 < most /\ most < o[s])]
  BY DEF BuyLots
<1>2. s \in Symbols /\ o[s] \in Nat
  BY DEF Bought, OrderSet
<1>3. w.orders \in OrderSet /\ w.available \in Int /\ w.bought \in Int /\ w.clipped \in BOOLEAN
  BY DEF Carts
<1> HIDE DEF w2
<1>4. Max({0} \cup can) \in {0} \cup can
  <2>1. can \subseteq 0..o[s]
    BY <1>2
  <2>2. {0} \cup can \subseteq 0..o[s] /\ {0} \cup can \subseteq Int /\ {0} \cup can # {}
    BY <1>2, <2>1
  <2>3. IsFiniteSet(0..o[s])
    <3>1. 0 \in Int /\ o[s] \in Int
      BY <1>2
    <3> QED BY <3>1, FS_Interval, Zenon
  <2> HIDE DEF can
  <2>4. IsFiniteSet({0} \cup can)
    BY <2>2, <2>3, FS_Subset
  <2> QED BY <2>2, <2>4, MaxIs
<1>5. lots = 0 \/ lots \in can
  <2>1. most = 0 \/ most \in can
    <3> HIDE DEF can
    <3> QED BY <1>4
  <2> HIDE DEF most, can
  <2> QED BY <2>1
<1>6. lots \in 0..o[s] /\ (lots > 0 => lots \in can)
  <2> HIDE DEF lots
  <2>1. lots \in can => lots \in 1..o[s]
    OBVIOUS
  <2> HIDE DEF can
  <2> QED BY <1>2, <1>5, <2>1
<1>7. lots > 0 => Covered(w.available - cost(lots), w.bought + cost(lots), floor)
  <2> HIDE DEF lots
  <2> QED BY <1>6
<1>8. (w.clipped \/ (high /\ 0 < most /\ most < o[s])) \in BOOLEAN
  OBVIOUS
<1> HIDE DEF lots, most, can
<1>9. PICK i \in Int : i = Impact(s, lots, 1) /\ cost(lots) = -i
  <2>1. Impact(s, lots, 1) \in Int
    BY <1>2, <1>6, ImpactIs
  <2> QED BY <2>1
<1>10. w.available - cost(lots) = w.available + i /\ w.bought + cost(lots) = w.bought - i
       /\ w.available + i \in Int /\ w.bought - i \in Int
  BY <1>3, <1>9
<1>11. [w.orders EXCEPT ![s] = lots] = CutAt(w.orders, s, lots) /\ CutAt(w.orders, s, lots) \in OrderSet
  BY <1>2, <1>3, <1>6 DEF CutAt, OrderSet
<1>12. w2.orders = CutAt(w.orders, s, lots) /\ w2.available = w.available + i
       /\ w2.bought = w.bought - i /\ w2 \in Carts
  BY <1>1, <1>8, <1>10, <1>11 DEF Carts
<1>13. lots > 0 => Covered(w2.available, w2.bought, floor)
  BY <1>7, <1>10, <1>12
<1>14. Takes(w, s, lots, w2, floor)
  BY <1>9, <1>12, <1>13 DEF Takes
<1> QED BY <1>6, <1>14 DEF w2

CashStart(d, o) ==
    [orders |-> Sales(o), available |-> d.settled + Impacts(Sales(o), 1), bought |-> 0, clipped |-> FALSE]
CashRule(d, floor, o, F) ==
    F = [T \in SUBSET Bought(o) |->
            IF T = {} THEN CashStart(d, o)
            ELSE LET x == Last(T, Rank(d))
                 IN  BuyLots(d, floor, o, F[T \ {x}], x)]
CashOf(d, floor, o) == CHOOSE F : CashRule(d, floor, o, F)
CashGoes(d, floor, o, S, F, orders) ==
    /\ F \in [SUBSET S -> Carts] /\ F[{}] = CashStart(d, o) /\ F[S].orders = orders
    /\ \A T \in SUBSET S : T # {} => \E s \in T : F[T] = BuyLots(d, floor, o, F[T \ {s}], s)

LEMMA SalesAre ==
    ASSUME NEW d, IsDay(d), NEW o \in OrderSet
    PROVE  /\ Sales(o) \in OrderSet /\ Bought(Sales(o)) = {} /\ CashStart(d, o) \in Carts
           /\ \A s \in Symbols : Sales(o)[s] = MinOf(o[s], 0)
<1>1. \A s \in Symbols : Sales(o)[s] = MinOf(o[s], 0) /\ MinOf(o[s], 0) \in Int /\ MinOf(o[s], 0) <= 0
  BY DEF Sales, OrderSet, MinOf
<1>2. Sales(o) \in OrderSet
  BY <1>1 DEF Sales, OrderSet
<1>3. Bought(Sales(o)) = {}
  <2>1. \A s \in Symbols : ~(Sales(o)[s] > 0)
    BY <1>1
  <2> QED BY <2>1 DEF Bought
<1>4. d.settled + Impacts(Sales(o), 1) \in Int
  <2>1. Impacts(Sales(o), 1) \in Int
    BY <1>2, ImpactsAre
  <2>2. d.settled \in Int
    BY DEF IsDay
  <2> QED BY <2>1, <2>2
<1>5. CashStart(d, o) \in Carts
  BY <1>2, <1>4 DEF CashStart, Carts
<1> QED BY <1>1, <1>2, <1>3, <1>5

LEMMA RankIs ==
    ASSUME NEW d, IsDay(d), NEW S \in SUBSET Symbols
    PROVE  Keyed(S, Rank(d)) /\ IsFiniteSet(S)
<1>1. ASSUME NEW s \in Symbols PROVE Rank(d)[s] \in Int
  <2>1. d.tier[s] \in Int /\ Ranking[s] \in Int
    BY DayIs, DataAre
  <2>2. Tier(d, s) \in Int
    BY <2>1 DEF Tier, None
  <2> QED BY <2>1, <2>2 DEF Rank
<1>2. IsFiniteSet(S)
  BY DataAre, FS_Subset
<1> QED BY <1>1, <1>2 DEF Keyed

LEMMA CashFold ==
    ASSUME NEW d, IsDay(d), NEW e, NEW o \in OrderSet, NEW restored
    PROVE  \E F : CashGoes(d, CashFloor(d, e, restored), o, Bought(o), F,
                           FitCash(d, e, o, restored))
<1> DEFINE S == Bought(o)
           floor == CashFloor(d, e, restored)
           key == Rank(d)
           c == LastOf(S, key)
           start == CashStart(d, o)
           G == [p \in S \X Carts |-> BuyLots(d, floor, o, p[2], p[1])]
           X == CashOf(d, floor, o)
<1>1. S \subseteq Symbols /\ IsFiniteSet(S) /\ Keyed(S, key)
  BY RankIs DEF Bought
<1>2. FitCash(d, e, o, restored) = X[S].orders
  BY DEF FitCash, InOrder, MapThenFoldSet, CashOf, CashRule, CashStart
<1>3. \A s \in S, p \in Carts : G[<<s, p>>] = BuyLots(d, floor, o, p, s)
  OBVIOUS
<1>4. \A s \in S, p \in Carts : BuyLots(d, floor, o, p, s) \in Carts
  BY BuyLotsTakes DEF Takes
<1>5. G \in [S \X Carts -> Carts]
  BY <1>4
<1>6. \A F : CashRule(d, floor, o, F) <=>
                F = [T \in SUBSET S |-> IF T = {} THEN start
                                        ELSE BuyLots(d, floor, o, F[T \ {Last(T, key)}], Last(T, key))]
  BY DEF CashRule
<1>7. start \in Carts
  BY SalesAre
<1> HIDE DEF G, key, S, start, floor
<1>8. Chooses(S, c) /\ \A T \in SUBSET S : c[T] = Last(T, key)
  BY <1>1, LastIsChosen
<1> HIDE DEF c
<1>9. \A T \in SUBSET S : T # {} => c[T] \in S /\ c[T] \in T /\ T \ {c[T]} \in SUBSET S
  BY <1>8 DEF Chooses
<1>10. PICK F : Folded(F, Carts, start, S, c, G)
  BY <1>1, <1>5, <1>7, <1>8, SetFoldExists
<1>11. /\ F = [T \in SUBSET S |-> F[T]]
       /\ \A T \in SUBSET S :
            F[T] \in Carts /\ F[T] = IF T = {} THEN start ELSE G[<<c[T], F[T \ {c[T]}]>>]
  BY <1>10 DEF Folded
<1>12. ASSUME NEW T \in SUBSET S
       PROVE  F[T] = IF T = {} THEN start
                     ELSE BuyLots(d, floor, o, F[T \ {Last(T, key)}], Last(T, key))
  <2> SUFFICES ASSUME T # {}
               PROVE  F[T] = BuyLots(d, floor, o, F[T \ {Last(T, key)}], Last(T, key))
    BY <1>11
  <2>1. c[T] \in S /\ T \ {c[T]} \in SUBSET S /\ c[T] = Last(T, key)
    BY <1>8, <1>9
  <2>2. F[T] = G[<<c[T], F[T \ {c[T]}]>>] /\ F[T \ {c[T]}] \in Carts
    BY <1>11, <2>1
  <2>3. F[T] = BuyLots(d, floor, o, F[T \ {c[T]}], c[T])
    BY <1>3, <2>1, <2>2
  <2> QED BY <2>1, <2>3
<1>13. CashRule(d, floor, o, F)
  BY <1>6, <1>11, <1>12
<1>14. CashRule(d, floor, o, X)
  BY <1>13, Zenon DEF CashOf
<1> HIDE DEF X
<1>15. X[{}] = start /\ \A T \in SUBSET S : T # {} => X[T] = BuyLots(d, floor, o, X[T \ {c[T]}], c[T])
  BY <1>6, <1>8, <1>14
<1>16. FoldOver(X, Carts, start, S, c, G)
  BY <1>3, <1>9, <1>15 DEF FoldOver
<1>17. PICK H : Goes(H, S, Carts, start, G, X[S])
  <2>1. Chooses(S, c) /\ IsFiniteSet(S)
    BY <1>1, <1>8
  <2>2. \E H : Goes(H, S, Carts, start, G, X[S])
    BY <1>5, <1>7, <1>16, <2>1, SetFoldGoes
  <2> QED BY <2>2
<1>18. /\ H \in [SUBSET S -> Carts] /\ H[{}] = start /\ H[S] = X[S]
       /\ \A T \in SUBSET S : T # {} => \E s \in T : H[T] = G[<<s, H[T \ {s}]>>]
  BY <1>17 DEF Goes
<1>19. ASSUME NEW T \in SUBSET S, T # {} PROVE \E s \in T : H[T] = BuyLots(d, floor, o, H[T \ {s}], s)
  <2>1. PICK s \in T : H[T] = G[<<s, H[T \ {s}]>>]
    BY <1>18, <1>19
  <2>2. s \in S /\ T \ {s} \in SUBSET S /\ H[T \ {s}] \in Carts
    BY <1>18
  <2>3. H[T] = BuyLots(d, floor, o, H[T \ {s}], s)
    BY <1>3, <2>1, <2>2
  <2> QED BY <2>3
<1>20. CashGoes(d, floor, o, S, H, FitCash(d, e, o, restored))
  BY <1>2, <1>18, <1>19 DEF CashGoes, start
<1> QED BY <1>20 DEF S, floor

\* What the cart holds is paid for, with what is bought among it.
Paid(d, o, T, w, floor) ==
    /\ w \in Carts
    /\ \A s \in Symbols : IF s \in T THEN w.orders[s] \in 0..o[s] ELSE w.orders[s] = MinOf(o[s], 0)
    /\ w.available = d.settled + Impacts(w.orders, 1)
    /\ w.bought = -Sum(BoughtAt(w.orders), Symbols)
    /\ Bought(w.orders) = {} \/ Covered(w.available, w.bought, floor)

LEMMA StartPaid ==
    ASSUME NEW d, IsDay(d), NEW o \in OrderSet, NEW floor
    PROVE  Paid(d, o, {}, CashStart(d, o), floor)
<1>1. /\ Sales(o) \in OrderSet /\ Bought(Sales(o)) = {} /\ CashStart(d, o) \in Carts
      /\ \A s \in Symbols : Sales(o)[s] = MinOf(o[s], 0)
  BY SalesAre
<1>2. CashStart(d, o).orders = Sales(o) /\ CashStart(d, o).bought = 0
      /\ CashStart(d, o).available = d.settled + Impacts(Sales(o), 1)
  BY DEF CashStart
<1>3. ASSUME NEW s \in Symbols PROVE BoughtAt(Sales(o))[s] = 0
  <2>1. Sales(o)[s] \in Int /\ ~(Sales(o)[s] > 0)
    BY <1>1 DEF OrderSet, Bought
  <2>2. MaxOf(Sales(o)[s], 0) = 0
    BY <2>1 DEF MaxOf
  <2>3. Impact(s, 0, 1) = 0
    BY DEF Impact, CashFlow
  <2> QED BY <2>2, <2>3 DEF BoughtAt
<1>4. Sum(BoughtAt(Sales(o)), Symbols) = 0
  BY <1>3, DataAre, SumZero
<1>5. CashStart(d, o).bought = -Sum(BoughtAt(Sales(o)), Symbols)
  <2>1. PICK x \in Int : x = Sum(BoughtAt(Sales(o)), Symbols) /\ x <= 0 /\ 0 <= x
    BY <1>4
  <2>2. -x = 0
    BY <2>1
  <2> QED BY <1>2, <2>1, <2>2
<1> QED BY <1>1, <1>2, <1>5 DEF Paid

LEMMA TakesPaid ==
    ASSUME NEW d, IsDay(d), NEW o \in OrderSet, NEW floor, NEW T \in SUBSET Bought(o), NEW s \in T,
           NEW w, Paid(d, o, T \ {s}, w, floor), NEW n \in 0..o[s], NEW w2, Takes(w, s, n, w2, floor)
    PROVE  Paid(d, o, T, w2, floor)
<1>1. s \in Symbols /\ o[s] \in Nat /\ o[s] > 0 /\ n \in Nat /\ IsFiniteSet(Symbols)
  BY DataAre DEF Bought, OrderSet
<1>2. /\ w \in Carts /\ w.available = d.settled + Impacts(w.orders, 1)
      /\ w.bought = -Sum(BoughtAt(w.orders), Symbols)
      /\ Bought(w.orders) = {} \/ Covered(w.available, w.bought, floor)
      /\ \A t \in Symbols : IF t \in T \ {s} THEN w.orders[t] \in 0..o[t]
                                             ELSE w.orders[t] = MinOf(o[t], 0)
  BY DEF Paid
<1>3. /\ w2 \in Carts /\ w2.orders = CutAt(w.orders, s, n)
      /\ w2.available = w.available + Impact(s, n, 1) /\ w2.bought = w.bought - Impact(s, n, 1)
      /\ n > 0 => Covered(w2.available, w2.bought, floor)
  BY DEF Takes
<1>4. PICK a, b : a = w.orders /\ b = w2.orders /\ a \in OrderSet /\ b \in OrderSet
  BY <1>2, <1>3 DEF Carts
<1>5. b[s] = n /\ \A t \in Symbols : t # s => b[t] = a[t]
  BY <1>1, <1>3, <1>4 DEF CutAt, OrderSet
<1>6. a[s] = 0
  <2>1. a[s] = MinOf(o[s], 0)
    BY <1>1, <1>2, <1>4
  <2> QED BY <1>1, <2>1 DEF MinOf
<1>7. \A t \in Symbols : IF t \in T THEN b[t] \in 0..o[t] ELSE b[t] = MinOf(o[t], 0)
  BY <1>2, <1>4, <1>5
<1>8. PICK i \in Int : i = Impact(s, n, 1)
  BY <1>1, ImpactIs
<1>9. Impact(s, 0, 1) = 0
  BY DEF Impact, CashFlow
<1>10. Impacts(b, 1) = Impacts(a, 1) + i /\ Impacts(a, 1) \in Int
  <2> DEFINE f == [t \in Symbols |-> Impact(t, a[t], 1)]
             g == [t \in Symbols |-> Impact(t, b[t], 1)]
  <2>1. Numbers(f, Symbols) /\ Numbers(g, Symbols)
    BY <1>4, ImpactsAre
  <2>2. f[s] = 0 /\ g[s] = i /\ \A t \in Symbols : t # s => f[t] = g[t]
    BY <1>1, <1>5, <1>6, <1>8, <1>9
  <2>3. Impacts(a, 1) = Sum(f, Symbols) /\ Impacts(b, 1) = Sum(g, Symbols)
    BY DEF Impacts
  <2> HIDE DEF f, g
  <2>4. Sum(f, Symbols) \in Int /\ Sum(g, Symbols) = Sum(f, Symbols) - f[s] + g[s]
    BY <1>1, <2>1, <2>2, SumChanged
  <2>5. PICK x \in Int : x = Sum(f, Symbols)
    BY <2>4
  <2>6. Sum(g, Symbols) = x - 0 + i
    BY <2>2, <2>4, <2>5
  <2> QED BY <2>3, <2>5, <2>6
<1>11. Sum(BoughtAt(b), Symbols) = Sum(BoughtAt(a), Symbols) + i /\ Sum(BoughtAt(a), Symbols) \in Int
  <2>1. Numbers(BoughtAt(a), Symbols) /\ Numbers(BoughtAt(b), Symbols)
    BY <1>4, BoughtSum
  <2>2. BoughtAt(a)[s] = 0 /\ BoughtAt(b)[s] = i
    <3>1. MaxOf(a[s], 0) = 0 /\ MaxOf(b[s], 0) = n
      BY <1>1, <1>5, <1>6 DEF MaxOf
    <3> QED BY <1>1, <1>8, <1>9, <3>1 DEF BoughtAt
  <2>3. \A t \in Symbols : t # s => BoughtAt(a)[t] = BoughtAt(b)[t]
    BY <1>5 DEF BoughtAt
  <2>4. /\ Sum(BoughtAt(a), Symbols) \in Int
        /\ Sum(BoughtAt(b), Symbols) = Sum(BoughtAt(a), Symbols) - BoughtAt(a)[s] + BoughtAt(b)[s]
    BY <1>1, <2>1, <2>3, SumChanged
  <2>5. PICK x \in Int : x = Sum(BoughtAt(a), Symbols)
    BY <2>4
  <2>6. Sum(BoughtAt(b), Symbols) = x - 0 + i
    BY <2>2, <2>4, <2>5
  <2> QED BY <2>5, <2>6
<1>12. w2.available = d.settled + Impacts(b, 1)
  <2>1. PICK x \in Int, y \in Int : x = d.settled /\ y = Impacts(a, 1)
    BY <1>10 DEF IsDay
  <2>2. w2.available = (x + y) + i /\ Impacts(b, 1) = y + i
    BY <1>2, <1>3, <1>4, <1>8, <1>10, <2>1
  <2> QED BY <2>1, <2>2
<1>13. w2.bought = -Sum(BoughtAt(b), Symbols)
  <2>1. PICK x \in Int : x = Sum(BoughtAt(a), Symbols)
    BY <1>11
  <2>2. w2.bought = (-x) - i /\ Sum(BoughtAt(b), Symbols) = x + i
    BY <1>2, <1>3, <1>4, <1>8, <1>11, <2>1
  <2> QED BY <2>2
<1>14. Bought(b) = {} \/ Covered(w2.available, w2.bought, floor)
  <2>1. CASE n > 0
    BY <1>3, <2>1
  <2>2. CASE ~(n > 0)
    <3>1. b[s] = a[s]
      BY <1>1, <1>5, <1>6, <2>2
    <3>2. Bought(b) = Bought(a)
      BY <1>5, <3>1 DEF Bought
    <3>3. i = 0
      <4>1. n = 0
        BY <1>1, <2>2
      <4> QED BY <1>8, <1>9, <4>1
    <3>4. w.available \in Int /\ w.bought \in Int
      BY <1>2 DEF Carts
    <3>5. w2.available = w.available /\ w2.bought = w.bought
      BY <1>3, <1>8, <3>3, <3>4
    <3> QED BY <1>2, <1>4, <3>2, <3>5
  <2> QED BY <2>1, <2>2
<1> QED BY <1>3, <1>4, <1>7, <1>12, <1>13, <1>14 DEF Paid

LEMMA CashFitted ==
    ASSUME NEW d, IsDay(d), NEW e, IsLimits(e), NEW o \in OrderSet, NEW restored \in BOOLEAN
    PROVE  FitCash(d, e, o, restored) \in Sound(d, CashFloor(d, e, restored), o)
<1> DEFINE floor == CashFloor(d, e, restored)
           S == Bought(o)
           paid == FitCash(d, e, o, restored)
<1>1. PICK F : CashGoes(d, floor, o, S, F, paid)
  BY CashFold
<1>2. floor \in Int
  BY NavIs
<1>3. S \subseteq Symbols /\ IsFiniteSet(S)
  BY DataAre, FS_Subset DEF Bought
<1> HIDE DEF floor, paid
<1>4. /\ F \in [SUBSET S -> Carts] /\ F[{}] = CashStart(d, o) /\ F[S].orders = paid
      /\ \A T \in SUBSET S : T # {} => \E s \in T : F[T] = BuyLots(d, floor, o, F[T \ {s}], s)
  BY <1>1 DEF CashGoes
<1> DEFINE P == {T \in SUBSET S : Paid(d, o, T, F[T], floor)}
<1>5. {} \in P
  BY <1>4, StartPaid
<1>6. ASSUME NEW T \in SUBSET S, T # {} PROVE \E s \in T : T \ {s} \in P => T \in P
  <2>1. PICK s \in T : F[T] = BuyLots(d, floor, o, F[T \ {s}], s)
    BY <1>4, <1>6
  <2> SUFFICES ASSUME T \ {s} \in P PROVE T \in P
    BY <2>1
  <2>2. PICK w : w = F[T \ {s}] /\ w \in Carts /\ Paid(d, o, T \ {s}, w, floor)
    BY <1>4
  <2>3. s \in Bought(o)
    OBVIOUS
  <2>4. PICK n \in 0..o[s] : Takes(w, s, n, BuyLots(d, floor, o, w, s), floor)
    BY <2>2, <2>3, BuyLotsTakes
  <2>5. Takes(w, s, n, F[T], floor)
    BY <2>1, <2>2, <2>4
  <2>6. Paid(d, o, T, F[T], floor)
    BY <2>2, <2>5, TakesPaid
  <2> QED BY <2>6
<1>7. S \in P
  <2> HIDE DEF P, S
  <2> QED BY <1>3, <1>5, <1>6, SetInduction
<1>8. PICK w : w = F[S] /\ w.orders = paid /\ Paid(d, o, S, w, floor)
  BY <1>4, <1>7
<1>9. paid \in OrderSet /\ w.available \in Int /\ w.bought \in Int
  BY <1>8 DEF Paid, Carts
<1>10. ASSUME NEW s \in Symbols PROVE paid[s] <= o[s]
  <2>1. o[s] \in Int
    BY DEF OrderSet
  <2>2. IF s \in S THEN paid[s] \in 0..o[s] ELSE paid[s] = MinOf(o[s], 0)
    BY <1>8 DEF Paid
  <2> QED BY <2>1, <2>2 DEF MinOf
<1>11. ASSUME Bought(paid) # {} PROVE Payable(d, floor, paid)
  <2>1. Covered(w.available, w.bought, floor)
    BY <1>8, <1>11 DEF Paid
  <2>2. PICK r \in Nat, x \in Int, y \in Int :
            r = Policy.reserve /\ x = Sum(BoughtAt(paid), Symbols) /\ y = w.available
    BY <1>9, PolicyNumbers, BoughtSum
  <2>3. w.bought = -x /\ y = d.settled + Impacts(paid, 1)
    BY <1>8, <2>2 DEF Paid
  <2>4. 100 * y - r * (-x) >= floor
    BY <2>1, <2>2, <2>3 DEF Covered
  <2>5. 100 * y + r * x >= floor
    <3>1. PICK z \in Int : z = r * x /\ r * (-x) = -z
      OBVIOUS
    <3> QED BY <1>2, <2>4, <3>1
  <2>6. Sum([s \in Symbols |-> Impact(s, paid[s], 1)], Bought(paid)) = x
    BY <1>9, <2>2, BoughtSum
  <2> QED BY <2>2, <2>3, <2>5, <2>6 DEF Payable
<1>12. Within(paid, o)
  BY <1>10 DEF Within
<1> QED BY <1>9, <1>11, <1>12 DEF Sound, floor, paid

(***************************************************************************)
(* What is sold before anything is bought: no stock is to have more lots   *)
(* than are held.                                                          *)
(***************************************************************************)
LowTargets(d) == {t \in [Symbols -> Nat] : \A s \in Symbols : t[s] <= d.held[s]}
Sellings(d) == [target : LowTargets(d), remaining : Int, hard : Int, count : Int]

\* Exits and trims leave no more than there is.
LEMMA ReducedIsLow ==
    ASSUME NEW d, IsDay(d), NEW kept
    PROVE  Reduced(d, kept) \in LowTargets(d)
<1>1. ASSUME NEW h \in Nat PROVE (h * Policy.trim) \div 100 \in 0..h
  <2>1. PICK p \in 0..100 : p = Policy.trim
    BY PolicyAssumption, PolicyNumbers
  <2>2. PICK x \in Int : x = h * p
    OBVIOUS
  <2>3. 0 <= x /\ x <= h * 100
    BY <2>1, <2>2, SMTT(30)
  <2>4. x \div 100 \in 0..h
    BY <2>3
  <2> QED BY <2>1, <2>2, <2>4
<1>2. ASSUME NEW s \in Symbols PROVE Reduced(d, kept)[s] \in Nat /\ Reduced(d, kept)[s] <= d.held[s]
  <2>1. PICK h \in Nat : h = d.held[s]
    BY DayIs
  <2>2. PICK x \in 0..h : x = (d.held[s] * Policy.trim) \div 100
    BY <1>1, <2>1
  <2>3. Reduced(d, kept)[s] \in {h, 0, h - x}
    BY <2>1, <2>2 DEF Reduced
  <2> QED BY <2>1, <2>2, <2>3
<1>3. Reduced(d, kept) = [s \in Symbols |-> Reduced(d, kept)[s]]
  BY DEF Reduced
<1>4. Reduced(d, kept) \in [Symbols -> Nat]
  BY <1>2, <1>3
<1> QED BY <1>2, <1>4 DEF LowTargets

\* A sale for cash takes no more lots than there are.
LEMMA SaleIsLow ==
    ASSUME NEW d, IsDay(d), NEW w \in Sellings(d), NEW s \in Symbols
    PROVE  SellForCash(w, s) \in Sellings(d)
<1> DEFINE share == MinOf(Ceiling(w.remaining, 100 * Price[s]), w.hard \div (100 * Price[s]))
           most == MinOf(share, w.target[s])
           lots == IF most >= w.target[s] /\ w.count <= Policy.minPositions
                   THEN w.target[s] - 1 ELSE most
           low == [w.target EXCEPT ![s] = @ - lots]
           w2 == [target |-> low,
                  remaining |-> w.remaining - 100 * Impact(s, -lots, 1),
                  hard |-> w.hard - 100 * lots * Price[s],
                  count |-> IF lots = w.target[s] THEN w.count - 1 ELSE w.count]
<1>1. /\ w.target \in LowTargets(d) /\ w.remaining \in Int /\ w.hard \in Int /\ w.count \in Int
  BY DEF Sellings
<1>2. SellForCash(w, s) = IF w.remaining <= 0 \/ lots <= 0 THEN w ELSE w2
  BY DEF SellForCash
<1>3. PICK p \in Nat : p = Price[s] /\ p > 0 /\ 100 * p \in Nat \ {0}
  BY DataAre
<1>4. PICK h \in Nat : h = w.target[s] /\ w.target \in [Symbols -> Nat]
  BY <1>1 DEF LowTargets
<1>5. share \in Int
  <2>1. Ceiling(w.remaining, 100 * p) \in Int /\ w.hard \div (100 * p) \in Int
    BY <1>1, <1>3, Upward, Rounds
  <2> QED BY <1>3, <2>1 DEF MinOf
<1> HIDE DEF share
<1>6. most \in Int /\ most <= h
  BY <1>4, <1>5 DEF MinOf
<1> HIDE DEF most
<1>7. lots \in Int /\ lots <= h
  BY <1>4, <1>6
<1> HIDE DEF lots
<1> SUFFICES ASSUME ~(lots <= 0) PROVE w2 \in Sellings(d)
  BY <1>2
<1>8. PICK n \in Nat : n = lots /\ n <= h
  BY <1>7
<1>9. low \in LowTargets(d)
  <2>1. low \in [Symbols -> Nat] /\ low[s] = h - n /\ \A t \in Symbols : t # s => low[t] = w.target[t]
    BY <1>4, <1>8
  <2>2. \A t \in Symbols : w.target[t] <= d.held[t]
    BY <1>1 DEF LowTargets
  <2>3. low[s] <= d.held[s]
    <3>1. h <= d.held[s] /\ d.held[s] \in Nat
      BY <1>4, <2>2, DayIs
    <3> QED BY <1>8, <2>1, <3>1
  <2> HIDE DEF low
  <2> QED BY <2>1, <2>2, <2>3 DEF LowTargets
<1>10. w.remaining - 100 * Impact(s, -lots, 1) \in Int
  <2>1. PICK i \in Int : i = Impact(s, -lots, 1)
    BY <1>8, ImpactOfSale
  <2> QED BY <1>1, <2>1
<1>11. w.hard - 100 * lots * Price[s] \in Int
  BY <1>1, <1>3, <1>8
<1>12. (IF lots = w.target[s] THEN w.count - 1 ELSE w.count) \in Int
  BY <1>1
<1> HIDE DEF low
<1> QED BY <1>9, <1>10, <1>11, <1>12 DEF Sellings

SoldRule(start, S, key, F) ==
    F = [T \in SUBSET S |->
            IF T = {} THEN start
            ELSE LET x == Last(T, key) IN SellForCash(F[T \ {x}], x)]
SoldOf(start, S, key) == CHOOSE F : SoldRule(start, S, key, F)

LEMMA SalesAreLow ==
    ASSUME NEW d, IsDay(d), NEW S \in SUBSET Symbols, NEW key, Keyed(S, key), NEW start \in Sellings(d)
    PROVE  InOrder(SellForCash, start, S, key) \in Sellings(d)
<1> DEFINE A == Sellings(d)
           c == LastOf(S, key)
           G == [p \in S \X A |-> SellForCash(p[2], p[1])]
           X == SoldOf(start, S, key)
<1>1. IsFiniteSet(S)
  BY DataAre, FS_Subset
<1>2. InOrder(SellForCash, start, S, key) = X[S]
  BY DEF InOrder, MapThenFoldSet, SoldOf, SoldRule
<1>3. \A s \in S, p \in A : G[<<s, p>>] = SellForCash(p, s)
  OBVIOUS
<1>4. \A s \in S, p \in A : SellForCash(p, s) \in A
  BY SaleIsLow
<1>5. G \in [S \X A -> A]
  BY <1>4
<1>6. \A F : SoldRule(start, S, key, F) <=>
                F = [T \in SUBSET S |-> IF T = {} THEN start
                                        ELSE SellForCash(F[T \ {Last(T, key)}], Last(T, key))]
  BY DEF SoldRule
<1> HIDE DEF G, A
<1>7. start \in A
  BY DEF A
<1>8. Chooses(S, c) /\ \A T \in SUBSET S : c[T] = Last(T, key)
  BY <1>1, LastIsChosen
<1> HIDE DEF c
<1>9. \A T \in SUBSET S : T # {} => c[T] \in S /\ c[T] \in T /\ T \ {c[T]} \in SUBSET S
  BY <1>8 DEF Chooses
<1>10. PICK F : Folded(F, A, start, S, c, G)
  BY <1>1, <1>5, <1>7, <1>8, SetFoldExists
<1>11. /\ F = [T \in SUBSET S |-> F[T]]
       /\ \A T \in SUBSET S :
            F[T] \in A /\ F[T] = IF T = {} THEN start ELSE G[<<c[T], F[T \ {c[T]}]>>]
  BY <1>10 DEF Folded
<1>12. ASSUME NEW T \in SUBSET S
       PROVE  F[T] = IF T = {} THEN start ELSE SellForCash(F[T \ {Last(T, key)}], Last(T, key))
  <2> SUFFICES ASSUME T # {}
               PROVE  F[T] = SellForCash(F[T \ {Last(T, key)}], Last(T, key))
    BY <1>11
  <2>1. c[T] \in S /\ T \ {c[T]} \in SUBSET S /\ c[T] = Last(T, key)
    BY <1>8, <1>9
  <2>2. F[T] = G[<<c[T], F[T \ {c[T]}]>>] /\ F[T \ {c[T]}] \in A
    BY <1>11, <2>1
  <2>3. F[T] = SellForCash(F[T \ {c[T]}], c[T])
    BY <1>3, <2>1, <2>2
  <2> QED BY <2>1, <2>3
<1>13. SoldRule(start, S, key, F)
  BY <1>6, <1>11, <1>12
<1>14. SoldRule(start, S, key, X)
  BY <1>13, Zenon DEF SoldOf
<1> HIDE DEF X
<1>15. X[{}] = start /\ \A T \in SUBSET S : T # {} => X[T] = SellForCash(X[T \ {c[T]}], c[T])
  BY <1>6, <1>8, <1>14
<1>16. FoldOver(X, A, start, S, c, G)
  BY <1>3, <1>9, <1>15 DEF FoldOver
<1>17. PICK H : Goes(H, S, A, start, G, X[S])
  <2>1. \E H : Goes(H, S, A, start, G, X[S])
    BY <1>1, <1>5, <1>7, <1>8, <1>16, SetFoldGoes
  <2> QED BY <2>1
<1>18. X[S] \in A
  BY <1>17 DEF Goes
<1> QED BY <1>2, <1>18 DEF A

\* What the sales bring.
LEMMA ProceedsIs ==
    ASSUME NEW d, IsDay(d), NEW target \in LowTargets(d)
    PROVE  Proceeds(d, target) \in Int
<1> DEFINE f == [s \in Symbols |-> Impact(s, MinOf(target[s] - d.held[s], 0), 1)]
<1>1. ASSUME NEW s \in Symbols PROVE f[s] \in Int
  <2>1. target[s] \in Int /\ d.held[s] \in Int
    BY DayIs DEF LowTargets
  <2>2. MinOf(target[s] - d.held[s], 0) \in Int
    BY <2>1 DEF MinOf
  <2> QED BY <2>2, ImpactIs
<1>2. Proceeds(d, target) = Sum(f, Symbols)
  BY DEF Proceeds
<1>3. Numbers(f, Symbols)
  BY <1>1 DEF Numbers
<1> HIDE DEF f
<1> QED BY <1>2, <1>3, DataAre, SumSteps

\* What is sold to restore the cash buffer leaves no more than there is.
LEMMA DeriskIsLow ==
    ASSUME NEW d, IsDay(d), NEW e, IsLimits(e), NEW target \in LowTargets(d), NEW kept
    PROVE  Derisk(d, e, target, kept) \in LowTargets(d)
<1> DEFINE shortfall == Nav(d) * e.buffer - 100 * (d.cash + Proceeds(d, target))
           hard == Nav(d) * Policy.derisk
           count == Cardinality({s \in Symbols : target[s] > 0})
           pool == {s \in Symbols :
                      /\ target[s] > 0 /\ s \notin d.blocked \cup kept
                      /\ d.intent[s] \notin {"exit", "forced_exit", "trim"}}
           key == [s \in pool |-> -Atr[s]]
           start == [target |-> target, remaining |-> MinOf(shortfall, hard), hard |-> hard,
                     count |-> count]
<1>1. \/ Derisk(d, e, target, kept) = target
      \/ Derisk(d, e, target, kept) = InOrder(SellForCash, start, pool, key).target
  BY DEF Derisk
<1>2. \A s \in Symbols : target[s] \in Nat
  BY DEF LowTargets
<1>3. Nav(d) \in Int /\ Policy.derisk \in Int /\ e.buffer \in Int /\ d.cash \in Int
  BY NavIs, PolicyNumbers DEF IsLimits, IsDay
<1>4. Proceeds(d, target) \in Int
  BY ProceedsIs
<1>5. shortfall \in Int /\ hard \in Int
  BY <1>3, <1>4
<1>6. count \in Int
  <2>1. {s \in Symbols : target[s] > 0} \subseteq Symbols
    OBVIOUS
  <2>2. IsFiniteSet({s \in Symbols : target[s] > 0})
    BY <2>1, DataAre, FS_Subset
  <2> QED BY <2>2, FS_CardinalityType
<1> HIDE DEF shortfall, hard, count
<1>7. start \in Sellings(d)
  BY <1>5, <1>6 DEF Sellings, MinOf
<1>8. pool \in SUBSET Symbols
  OBVIOUS
<1>9. Keyed(pool, key)
  BY <1>8, DataAre DEF Keyed
<1> HIDE DEF start, pool, key
<1>10. InOrder(SellForCash, start, pool, key) \in Sellings(d)
  BY <1>7, <1>8, <1>9, SalesAreLow
<1> QED BY <1>1, <1>10 DEF Sellings

(***************************************************************************)
(* Who is swapped out: stocks held on, no more than may be swapped and     *)
(* than the highs that have no slot.                                       *)
(***************************************************************************)
Swaps(S, need) == {w \in [out : SUBSET S, room : Int] : Cardinality(w.out) <= need}

LEMMA SwapFits ==
    ASSUME NEW need \in Nat, NEW S \in SUBSET Symbols, NEW target, \A s \in S : target[s] \in Nat,
           NEW wanted, NEW free, \A i \in 1..need : wanted[free + i] \in Symbols,
           NEW w \in Swaps(S, need), NEW s \in S
    PROVE  SwapForHigh(need, target, wanted, free, w, s) \in Swaps(S, need)
<1> DEFINE i == Cardinality(w.out) + 1
           gain == w.room + 100 * (Impact(s, -target[s], 1) + Impact(wanted[free + i], 1, 1))
           more == [out |-> w.out \cup {s}, room |-> gain]
<1>1. w.out \in SUBSET S /\ w.room \in Int /\ Cardinality(w.out) <= need
  BY DEF Swaps
<1>2. SwapForHigh(need, target, wanted, free, w, s) = IF i > need \/ gain < 0 THEN w ELSE more
  BY DEF SwapForHigh
<1>3. IsFiniteSet(w.out) /\ Cardinality(w.out) \in Nat
  BY <1>1, DataAre, FS_Subset, FS_CardinalityType
<1> SUFFICES ASSUME ~(i > need) PROVE more \in Swaps(S, need)
  BY <1>2
<1>4. i \in 1..need
  BY <1>3
<1>5. gain \in Int
  <2>1. PICK a \in Int : a = Impact(s, -target[s], 1)
    BY ImpactIs
  <2>2. wanted[free + i] \in Symbols
    BY <1>4
  <2>3. PICK b \in Int : b = Impact(wanted[free + i], 1, 1)
    BY <2>2, ImpactIs
  <2>4. gain = w.room + 100 * (a + b)
    BY <2>1, <2>3
  <2> HIDE DEF gain
  <2> QED BY <1>1, <2>4
<1>6. Cardinality(w.out \cup {s}) <= need
  <2>1. Cardinality(w.out \cup {s}) = Cardinality(w.out) \/ Cardinality(w.out \cup {s}) = i
    BY <1>3, FS_AddElement
  <2> QED BY <1>1, <1>4, <2>1
<1> HIDE DEF gain
<1>7. more.out = w.out \cup {s} /\ more \in [out : SUBSET S, room : Int]
  BY <1>1, <1>5
<1> HIDE DEF more
<1> QED BY <1>6, <1>7 DEF Swaps

SwapRule(need, target, wanted, free, start, S, key, F) ==
    F = [T \in SUBSET S |->
            IF T = {} THEN start
            ELSE LET x == Last(T, key)
                 IN  SwapForHigh(need, target, wanted, free, F[T \ {x}], x)]
SwapOf(need, target, wanted, free, start, S, key) ==
    CHOOSE F : SwapRule(need, target, wanted, free, start, S, key, F)

LEMMA SwapsFit ==
    ASSUME NEW need \in Nat, NEW S \in SUBSET Symbols, NEW target, \A s \in S : target[s] \in Nat,
           NEW wanted, NEW free, \A i \in 1..need : wanted[free + i] \in Symbols,
           NEW key, Keyed(S, key), NEW start \in Swaps(S, need)
    PROVE  SwapOf(need, target, wanted, free, start, S, key)[S] \in Swaps(S, need)
<1> DEFINE A == Swaps(S, need)
           c == LastOf(S, key)
           Step(w, s) == SwapForHigh(need, target, wanted, free, w, s)
           G == [p \in S \X A |-> Step(p[2], p[1])]
           X == SwapOf(need, target, wanted, free, start, S, key)
<1>1. IsFiniteSet(S)
  BY DataAre, FS_Subset
<1>3. \A s \in S, p \in A : G[<<s, p>>] = Step(p, s)
  OBVIOUS
<1>4. \A s \in S, p \in A : Step(p, s) \in A
  <2> SUFFICES ASSUME NEW s \in S, NEW p \in A PROVE Step(p, s) \in A
    OBVIOUS
  <2> QED BY SwapFits
<1>5. G \in [S \X A -> A]
  BY <1>4
<1>6. \A F : SwapRule(need, target, wanted, free, start, S, key, F) <=>
                F = [T \in SUBSET S |-> IF T = {} THEN start
                                        ELSE Step(F[T \ {Last(T, key)}], Last(T, key))]
  BY DEF SwapRule
<1> HIDE DEF G, A
<1>7. start \in A
  BY DEF A
<1>8. Chooses(S, c) /\ \A T \in SUBSET S : c[T] = Last(T, key)
  BY <1>1, LastIsChosen
<1> HIDE DEF c, Step
<1>9. \A T \in SUBSET S : T # {} => c[T] \in S /\ c[T] \in T /\ T \ {c[T]} \in SUBSET S
  BY <1>8 DEF Chooses
<1>10. PICK F : Folded(F, A, start, S, c, G)
  BY <1>1, <1>5, <1>7, <1>8, SetFoldExists
<1>11. /\ F = [T \in SUBSET S |-> F[T]]
       /\ \A T \in SUBSET S :
            F[T] \in A /\ F[T] = IF T = {} THEN start ELSE G[<<c[T], F[T \ {c[T]}]>>]
  BY <1>10 DEF Folded
<1>12. ASSUME NEW T \in SUBSET S
       PROVE  F[T] = IF T = {} THEN start ELSE Step(F[T \ {Last(T, key)}], Last(T, key))
  <2> SUFFICES ASSUME T # {}
               PROVE  F[T] = Step(F[T \ {Last(T, key)}], Last(T, key))
    BY <1>11
  <2>1. c[T] \in S /\ T \ {c[T]} \in SUBSET S /\ c[T] = Last(T, key)
    BY <1>8, <1>9
  <2>2. F[T] = G[<<c[T], F[T \ {c[T]}]>>] /\ F[T \ {c[T]}] \in A
    BY <1>11, <2>1
  <2>3. F[T] = Step(F[T \ {c[T]}], c[T])
    BY <1>3, <2>1, <2>2
  <2> QED BY <2>1, <2>3
<1>13. SwapRule(need, target, wanted, free, start, S, key, F)
  BY <1>6, <1>11, <1>12
<1>14. SwapRule(need, target, wanted, free, start, S, key, X)
  BY <1>13, Zenon DEF SwapOf
<1> HIDE DEF X
<1>15. X[{}] = start /\ \A T \in SUBSET S : T # {} => X[T] = Step(X[T \ {c[T]}], c[T])
  BY <1>6, <1>8, <1>14
<1>16. FoldOver(X, A, start, S, c, G)
  BY <1>3, <1>9, <1>15 DEF FoldOver
<1>17. PICK H : Goes(H, S, A, start, G, X[S])
  <2>1. \E H : Goes(H, S, A, start, G, X[S])
    BY <1>1, <1>5, <1>7, <1>8, <1>16, SetFoldGoes
  <2> QED BY <2>1
<1>18. X[S] \in A
  BY <1>17 DEF Goes
<1> QED BY <1>18 DEF A, X

\* The highs that have no slot.
Waiting(d, target, candidates) ==
    {s \in candidates : s \notin {t \in Symbols : target[t] > 0} /\ d.tier[s] = High}

LEMMA VictimsAre ==
    ASSUME NEW d, IsDay(d), NEW e, IsLimits(e), NEW target \in LowTargets(d), NEW kept,
           NEW candidates \in SUBSET Symbols, \A s \in candidates : d.intent[s] \in {"buy", "add"}
    PROVE  \/ Victims(d, e, target, kept, candidates) = {}
           \/ /\ \A s \in Victims(d, e, target, kept, candidates) :
                    s \in Symbols /\ target[s] > 0 /\ d.intent[s] = "hold"
              /\ Cardinality(Victims(d, e, target, kept, candidates)) <= Policy.maxSwaps
              /\ Cardinality(Victims(d, e, target, kept, candidates))
                    <= Cardinality(Waiting(d, target, candidates))
<1> DEFINE active == {s \in Symbols : target[s] > 0}
           highs == {s \in candidates : s \notin active /\ d.tier[s] = High}
           wanted == Sorted(highs, Rank(d))
           swaps == MinOf(Released(d, active), Policy.maxSwaps)
           free == MaxOf(0, Breadth(d) - Cardinality(Held(d))) + swaps
           most == {Cardinality(highs) - free, Policy.forcedSwaps, MaxOf(0, Policy.maxSwaps - swaps),
                    Cardinality(active) - Policy.minPositions}
           need == Min(most)
           pool == {s \in Held(d) \cap d.broken \cap d.adopted :
                      d.intent[s] = "hold" /\ target[s] > 0 /\ s \notin d.blocked \cup kept}
           room == 100 * (d.settled + Proceeds(d, target)) - CashFloor(d, e, FALSE)
           key == [s \in pool |-> s]
           start == [out |-> {}, room |-> room]
           out == SwapOf(need, target, wanted, free, start, pool, key)[pool].out
<1>1. Victims(d, e, target, kept, candidates) = IF need <= 0 THEN {} ELSE out
  BY DEF Victims, InOrder, MapThenFoldSet, SwapOf, SwapRule
<1>2. highs = Waiting(d, target, candidates)
  BY DEF Waiting
<1>3. \A s \in pool : s \in Symbols /\ target[s] > 0 /\ d.intent[s] = "hold" /\ target[s] \in Nat
  BY DEF Held, LowTargets
<1>4. /\ highs \in SUBSET Symbols
      /\ \A s \in highs : Rank(d)[s] = Ranking[s]
  <2>1. \A s \in highs : s \in Symbols /\ d.intent[s] \in {"buy", "add"} /\ d.tier[s] = 0
    BY DEF High
  <2>2. \A s \in highs : Tier(d, s) = 0
    BY <2>1 DEF Tier
  <2>3. ASSUME NEW s \in highs PROVE Rank(d)[s] = Ranking[s]
    <3>1. s \in Symbols /\ Tier(d, s) = 0 /\ Ranking[s] \in Nat
      BY <2>1, <2>2, DataAre
    <3> QED BY <3>1 DEF Rank
  <2> QED BY <2>1, <2>3
<1>5. Cardinality(active) \in Int /\ Cardinality(highs) \in Nat /\ Cardinality(Held(d)) \in Int
  <2>1. active \in SUBSET Symbols /\ Held(d) \in SUBSET Symbols
    BY DEF Held
  <2> HIDE DEF active, highs
  <2>2. IsFiniteSet(active) /\ IsFiniteSet(highs) /\ IsFiniteSet(Held(d))
    BY <1>4, <2>1, DataAre, FS_Subset
  <2> QED BY <2>2, FS_CardinalityType
<1>6. Breadth(d) \in Int
  BY PolicyNumbers DEF Breadth, MinOf, MaxOf, IsDay
<1>7. room \in Int
  <2>1. PICK a \in Int : a = Proceeds(d, target)
    BY ProceedsIs
  <2>2. PICK b \in Int : b = CashFloor(d, e, FALSE)
    BY NavIs
  <2>3. PICK c \in Int : c = d.settled
    BY DEF IsDay
  <2>4. room = 100 * (c + a) - b
    BY <2>1, <2>2, <2>3, Zenon
  <2> HIDE DEF room
  <2> QED BY <2>4
<1> HIDE DEF pool, highs, room, active
<1>8. swaps \in Nat /\ free \in Nat
  <2>1. swaps \in Nat
    BY <1>5, PolicyNumbers DEF MinOf, MaxOf, Released
  <2> HIDE DEF swaps
  <2> QED BY <1>5, <1>6, <2>1 DEF MaxOf
<1> HIDE DEF swaps
<1>9. free \in Nat
  BY <1>8
<1> HIDE DEF free
<1>10. /\ need \in Int /\ need <= Cardinality(highs) - free
       /\ need <= MaxOf(0, Policy.maxSwaps - swaps)
  <2>1. /\ Cardinality(highs) - free \in Int /\ Policy.forcedSwaps \in Int
        /\ MaxOf(0, Policy.maxSwaps - swaps) \in Int
        /\ Cardinality(active) - Policy.minPositions \in Int
    BY <1>5, <1>8, <1>9, PolicyNumbers DEF MaxOf
  <2>2. \A a, b, c, f \in Int : \E x \in {a, b, c, f} : \A y \in {a, b, c, f} : x <= y
    OBVIOUS
  <2>3. \E x \in most : \A y \in most : x <= y
    BY <2>1, <2>2
  <2>4. Min(most) \in most /\ \A y \in most : Min(most) <= y
    <3> HIDE DEF most
    <3> QED BY <2>3 DEF Min
  <2> QED BY <2>1, <2>4
<1> SUFFICES ASSUME ~(need <= 0)
             PROVE  /\ \A s \in out : s \in Symbols /\ target[s] > 0 /\ d.intent[s] = "hold"
                    /\ Cardinality(out) <= Policy.maxSwaps /\ Cardinality(out) <= Cardinality(highs)
  <2> HIDE DEF need, out
  <2> QED BY <1>1, <1>2
<1> HIDE DEF need
<1>11. need \in Nat /\ need <= Policy.maxSwaps /\ need <= Cardinality(highs)
  BY <1>5, <1>8, <1>9, <1>10, PolicyNumbers DEF MaxOf
<1>12. ASSUME NEW i \in 1..need PROVE wanted[free + i] \in Symbols
  <2>1. free + i \in 1..Cardinality(highs)
    BY <1>5, <1>9, <1>10, <1>11
  <2>2. \A s, t \in highs : Rank(d)[s] = Rank(d)[t] => s = t
    BY <1>4, AllocationAssumption
  <2>3. Keyed(highs, Rank(d)) /\ IsFiniteSet(highs)
    BY <1>4, RankIs
  <2>4. wanted[free + i] \in highs
    BY <2>1, <2>2, <2>3, SortedIs
  <2> QED BY <1>4, <2>4
<1> HIDE DEF wanted
<1>13. pool \in SUBSET Symbols /\ \A s \in pool : target[s] \in Nat
  BY <1>3
<1>14. Keyed(pool, key)
  BY <1>13, DataAre DEF Keyed
<1>15. start \in Swaps(pool, need)
  <2>1. Cardinality({}) = 0
    BY FS_EmptySet
  <2> QED BY <1>7, <1>11, <2>1 DEF Swaps
<1> HIDE DEF start, key
<1>16. SwapOf(need, target, wanted, free, start, pool, key)[pool] \in Swaps(pool, need)
  BY <1>11, <1>12, <1>13, <1>14, <1>15, SwapsFit
<1>17. out \in SUBSET pool /\ Cardinality(out) <= need
  BY <1>16 DEF Swaps
<1>18. Cardinality(out) \in Nat
  <2> HIDE DEF out
  <2>1. IsFiniteSet(out)
    BY <1>13, <1>17, DataAre, FS_Subset
  <2> QED BY <2>1, FS_CardinalityType
<1> HIDE DEF out
<1> QED BY <1>3, <1>5, <1>11, <1>17, <1>18, PolicyNumbers

(***************************************************************************)
(* Who gets a slot: candidates alone.                                      *)
(***************************************************************************)
Slots(S) == [in : SUBSET S, growth : Int, swap : Int, new : Int]

LEMMA SlotIsTaken ==
    ASSUME NEW d, NEW active, NEW slots, NEW S, NEW w \in Slots(S), NEW s \in S
    PROVE  TakeSlot(d, active, slots, w, s) \in Slots(S)
<1>1. w.in \in SUBSET S /\ w.growth \in Int /\ w.swap \in Int /\ w.new \in Int
  BY DEF Slots
<1> DEFINE in == [w EXCEPT !.in = @ \cup {s}]
           grown == [in |-> w.in \cup {s}, growth |-> w.growth - 1, swap |-> w.swap, new |-> w.new - 1]
           swapped == [in |-> w.in \cup {s}, growth |-> w.growth, swap |-> w.swap - 1, new |-> w.new - 1]
<1>2. in \in Slots(S)
  BY <1>1 DEF Slots
<1>3. grown \in Slots(S)
  BY <1>1 DEF Slots
<1>4. swapped \in Slots(S)
  BY <1>1 DEF Slots
<1>5. TakeSlot(d, active, slots, w, s) \in {w, in, grown, swapped}
  BY DEF TakeSlot
<1> HIDE DEF in, grown, swapped
<1> QED BY <1>2, <1>3, <1>4, <1>5

SlotRule(d, active, slots, start, S, key, F) ==
    F = [T \in SUBSET S |->
            IF T = {} THEN start
            ELSE LET x == Last(T, key) IN TakeSlot(d, active, slots, F[T \ {x}], x)]
SlotOf(d, active, slots, start, S, key) ==
    CHOOSE F : SlotRule(d, active, slots, start, S, key, F)

\* The slots are given one after the other, in some order.
SlotsGo(d, active, slots, start, S, F, last) ==
    /\ F \in [SUBSET S -> Slots(S)] /\ F[{}] = start /\ F[S] = last
    /\ \A T \in SUBSET S : T # {} => \E s \in T : F[T] = TakeSlot(d, active, slots, F[T \ {s}], s)
HasSlots(d, active, slots, start, S, last) ==
    \E F : SlotsGo(d, active, slots, start, S, F, last)

LEMMA SlotsAreTaken ==
    ASSUME NEW d, NEW active, NEW slots, NEW S \in SUBSET Symbols, NEW key, Keyed(S, key),
           NEW start \in Slots(S)
    PROVE  /\ SlotOf(d, active, slots, start, S, key)[S] \in Slots(S)
           /\ HasSlots(d, active, slots, start, S, SlotOf(d, active, slots, start, S, key)[S])
<1> DEFINE A == Slots(S)
           c == LastOf(S, key)
           Step(w, s) == TakeSlot(d, active, slots, w, s)
           G == [p \in S \X A |-> Step(p[2], p[1])]
           X == SlotOf(d, active, slots, start, S, key)
<1>1. IsFiniteSet(S)
  BY DataAre, FS_Subset
<1>3. \A s \in S, p \in A : G[<<s, p>>] = Step(p, s)
  OBVIOUS
<1>4. \A s \in S, p \in A : Step(p, s) \in A
  BY SlotIsTaken
<1>5. G \in [S \X A -> A]
  BY <1>4
<1>6. \A F : SlotRule(d, active, slots, start, S, key, F) <=>
                F = [T \in SUBSET S |-> IF T = {} THEN start
                                        ELSE Step(F[T \ {Last(T, key)}], Last(T, key))]
  BY DEF SlotRule
<1> HIDE DEF G, A
<1>7. start \in A
  BY DEF A
<1>8. Chooses(S, c) /\ \A T \in SUBSET S : c[T] = Last(T, key)
  BY <1>1, LastIsChosen
<1> HIDE DEF c, Step
<1>9. \A T \in SUBSET S : T # {} => c[T] \in S /\ c[T] \in T /\ T \ {c[T]} \in SUBSET S
  BY <1>8 DEF Chooses
<1>10. PICK F : Folded(F, A, start, S, c, G)
  BY <1>1, <1>5, <1>7, <1>8, SetFoldExists
<1>11. /\ F = [T \in SUBSET S |-> F[T]]
       /\ \A T \in SUBSET S :
            F[T] \in A /\ F[T] = IF T = {} THEN start ELSE G[<<c[T], F[T \ {c[T]}]>>]
  BY <1>10 DEF Folded
<1>12. ASSUME NEW T \in SUBSET S
       PROVE  F[T] = IF T = {} THEN start ELSE Step(F[T \ {Last(T, key)}], Last(T, key))
  <2> SUFFICES ASSUME T # {}
               PROVE  F[T] = Step(F[T \ {Last(T, key)}], Last(T, key))
    BY <1>11
  <2>1. c[T] \in S /\ T \ {c[T]} \in SUBSET S /\ c[T] = Last(T, key)
    BY <1>8, <1>9
  <2>2. F[T] = G[<<c[T], F[T \ {c[T]}]>>] /\ F[T \ {c[T]}] \in A
    BY <1>11, <2>1
  <2>3. F[T] = Step(F[T \ {c[T]}], c[T])
    BY <1>3, <2>1, <2>2
  <2> QED BY <2>1, <2>3
<1>13. SlotRule(d, active, slots, start, S, key, F)
  BY <1>6, <1>11, <1>12
<1>14. SlotRule(d, active, slots, start, S, key, X)
  BY <1>13, Zenon DEF SlotOf
<1> HIDE DEF X
<1>15. X[{}] = start /\ \A T \in SUBSET S : T # {} => X[T] = Step(X[T \ {c[T]}], c[T])
  BY <1>6, <1>8, <1>14
<1>16. FoldOver(X, A, start, S, c, G)
  BY <1>3, <1>9, <1>15 DEF FoldOver
<1>17. PICK H : Goes(H, S, A, start, G, X[S])
  <2>1. \E H : Goes(H, S, A, start, G, X[S])
    BY <1>1, <1>5, <1>7, <1>8, <1>16, SetFoldGoes
  <2> QED BY <2>1
<1>18. X[S] \in A
  BY <1>17 DEF Goes
<1>19. SlotsGo(d, active, slots, start, S, H, X[S])
  <2>1. H \in [SUBSET S -> A] /\ H[{}] = start /\ H[S] = X[S]
    BY <1>17 DEF Goes
  <2>2. ASSUME NEW T \in SUBSET S, T # {} PROVE \E s \in T : H[T] = Step(H[T \ {s}], s)
    <3>1. PICK s \in T : H[T] = G[<<s, H[T \ {s}]>>]
      BY <1>17, <2>2 DEF Goes
    <3>2. H[T] = Step(H[T \ {s}], s)
      BY <1>3, <2>1, <3>1
    <3> QED BY <3>2
  <2> QED BY <2>1, <2>2 DEF SlotsGo, A, Step
<1>20. HasSlots(d, active, slots, start, S, X[S])
  BY <1>19 DEF HasSlots
<1> QED BY <1>18, <1>20 DEF A, X

\* So far: who has a slot is of T, growth and swaps went to the new ones, and at
\* least v of them have one unless a high of T still waits.
Served(active, highs, v, start, T, w) ==
    /\ w.in \subseteq T
    /\ w.growth >= 0 /\ w.swap >= 0 /\ w.new >= 0
    /\ w.growth + w.swap + Cardinality(w.in \ active) = start.growth + start.swap
    /\ w.new + Cardinality(w.in \ active) = start.new
    /\ v <= Cardinality(w.in \ active) \/ highs \cap T \subseteq w.in

\* One slot more, or none.
LEMMA ServesOne ==
    ASSUME NEW d, NEW active \in SUBSET Symbols, NEW slots \in Int, NEW S \in SUBSET Symbols,
           NEW start \in Slots(S), NEW v \in Nat, NEW highs \in SUBSET (S \ active),
           \A s \in highs : d.tier[s] = High,
           v <= start.growth + start.swap, v <= start.new,
           v <= slots - Cardinality(active \cap S),
           NEW T \in SUBSET S, NEW s \in T, NEW w \in Slots(S),
           Served(active, highs, v, start, T \ {s}, w)
    PROVE  Served(active, highs, v, start, T, TakeSlot(d, active, slots, w, s))
<1> DEFINE k == Cardinality(w.in \ active)
           w2 == TakeSlot(d, active, slots, w, s)
<1>1. /\ w.in \in SUBSET S /\ w.growth \in Int /\ w.swap \in Int /\ w.new \in Int
      /\ start.growth \in Int /\ start.swap \in Int /\ start.new \in Int
  BY DEF Slots
<1>2. IsFiniteSet(w.in) /\ IsFiniteSet(active) /\ IsFiniteSet(active \cap S)
  BY <1>1, DataAre, FS_Subset
<1>3. k \in Nat /\ Cardinality(w.in) = k + Cardinality(w.in \cap active)
      /\ Cardinality(w.in \cap active) <= Cardinality(active \cap S)
      /\ Cardinality(w.in \cap active) \in Nat /\ Cardinality(active \cap S) \in Nat
      /\ IsFiniteSet(w.in \ active)
  <2>1. Cardinality(w.in \ active) = Cardinality(w.in) - Cardinality(w.in \cap active)
        /\ IsFiniteSet(w.in \ active)
    BY <1>2, FS_Difference
  <2>2. w.in \cap active \in SUBSET (active \cap S)
    BY <1>1
  <2>3. IsFiniteSet(w.in \cap active) /\ Cardinality(w.in \cap active) <= Cardinality(active \cap S)
    BY <1>2, <2>2, FS_Subset
  <2>4. Cardinality(w.in \ active) \in Nat /\ Cardinality(w.in) \in Nat
    BY <1>2, <2>1, FS_CardinalityType
  <2>5. Cardinality(w.in \cap active) \in Nat /\ Cardinality(active \cap S) \in Nat
    BY <1>2, <2>3, FS_CardinalityType
  <2> QED BY <2>1, <2>3, <2>4, <2>5
<1>4. /\ w.in \subseteq T \ {s}
      /\ w.growth >= 0 /\ w.swap >= 0 /\ w.new >= 0
      /\ w.growth + w.swap + k = start.growth + start.swap /\ w.new + k = start.new
      /\ v <= k \/ highs \cap (T \ {s}) \subseteq w.in
  BY DEF Served
<1>5. ASSUME v <= k PROVE Served(active, highs, v, start, T, w)
  <2>1. w.in \subseteq T
    BY <1>4
  <2> QED BY <1>4, <1>5, <2>1 DEF Served
<1>6. ASSUME s \notin highs PROVE Served(active, highs, v, start, T, w)
  <2>1. w.in \subseteq T /\ (v <= k \/ highs \cap T \subseteq w.in)
    BY <1>4, <1>6
  <2> QED BY <1>4, <2>1 DEF Served
<1>7. Cardinality((w.in \cup {s}) \ active) = IF s \in active THEN k ELSE k + 1
  <2>1. CASE s \in active
    <3>1. (w.in \cup {s}) \ active = w.in \ active
      BY <2>1
    <3> QED BY <2>1, <3>1
  <2>2. CASE s \notin active
    <3>1. (w.in \cup {s}) \ active = (w.in \ active) \cup {s} /\ s \notin w.in \ active
      BY <1>4, <2>2
    <3>2. Cardinality((w.in \ active) \cup {s}) = k + 1
      BY <1>3, <3>1, FS_AddElement
    <3> QED BY <2>2, <3>1, <3>2
  <2> QED BY <2>1, <2>2
<1>8. w.in \cup {s} \subseteq T /\ (v <= k \/ highs \cap T \subseteq w.in \cup {s})
  BY <1>4
<1>9. CASE Cardinality(w.in) >= slots
  <2>1. w2 = w
    BY <1>9 DEF TakeSlot
  <2>2. v <= k
    BY <1>3, <1>9
  <2> QED BY <1>5, <2>1, <2>2
<1>10. CASE ~(Cardinality(w.in) >= slots) /\ s \in active
  <2>1. w2 = [w EXCEPT !.in = w.in \cup {s}]
    BY <1>10 DEF TakeSlot
  <2>2. w2.in = w.in \cup {s} /\ w2.growth = w.growth /\ w2.swap = w.swap /\ w2.new = w.new
    BY <2>1 DEF Slots
  <2> HIDE DEF w2
  <2>3. Cardinality(w2.in \ active) = k
    BY <1>7, <1>10, <2>2
  <2>4. Served(active, highs, v, start, T, w2)
    BY <1>4, <1>8, <2>2, <2>3 DEF Served
  <2> QED BY <2>4 DEF w2
<1>11. CASE ~(Cardinality(w.in) >= slots) /\ s \notin active /\ w.new <= 0
  <2>1. w2 = w
    BY <1>11 DEF TakeSlot
  <2>2. v <= k
    BY <1>1, <1>3, <1>4, <1>11
  <2> QED BY <1>5, <2>1, <2>2
<1>12. ASSUME s \notin active, NEW g \in Int, NEW u \in Int, g >= 0, u >= 0, w.new > 0,
              g + u = w.growth + w.swap - 1,
              w2 = [in |-> w.in \cup {s}, growth |-> g, swap |-> u, new |-> w.new - 1]
       PROVE  Served(active, highs, v, start, T, w2)
  <2>1. w2.in = w.in \cup {s} /\ w2.growth = g /\ w2.swap = u /\ w2.new = w.new - 1
    BY <1>12
  <2> HIDE DEF w2
  <2>2. Cardinality(w2.in \ active) = k + 1
    BY <1>7, <1>12, <2>1
  <2>3. /\ w2.growth + w2.swap + (k + 1) = start.growth + start.swap /\ w2.new + (k + 1) = start.new
        /\ w2.growth >= 0 /\ w2.swap >= 0 /\ w2.new >= 0
    BY <1>1, <1>3, <1>4, <1>12, <2>1
  <2>4. v <= k + 1 \/ highs \cap T \subseteq w2.in
    BY <1>3, <1>8, <2>1
  <2>5. w2.in \subseteq T
    BY <1>8, <2>1
  <2> QED BY <2>2, <2>3, <2>4, <2>5 DEF Served
<1>13. CASE ~(Cardinality(w.in) >= slots) /\ s \notin active /\ ~(w.new <= 0)
  <2>0. w.new > 0
    BY <1>1, <1>13
  <2>1. CASE w.growth > 0
    <3>1. w2 = [in |-> w.in \cup {s}, growth |-> w.growth - 1, swap |-> w.swap, new |-> w.new - 1]
      BY <1>13, <2>1 DEF TakeSlot
    <3>2. w.growth - 1 \in Int /\ w.growth - 1 >= 0 /\ w.growth - 1 + w.swap = w.growth + w.swap - 1
      BY <1>1, <2>1
    <3> HIDE DEF w2
    <3>3. Served(active, highs, v, start, T, w2)
      BY <1>1, <1>4, <1>12, <1>13, <2>0, <3>1, <3>2
    <3> QED BY <3>3 DEF w2
  <2>2. CASE ~(w.growth > 0) /\ w.swap > 0 /\ d.tier[s] <= Policy.minNewTier
    <3>1. w2 = [in |-> w.in \cup {s}, growth |-> w.growth, swap |-> w.swap - 1, new |-> w.new - 1]
      BY <1>13, <2>2 DEF TakeSlot
    <3>2. w.swap - 1 \in Int /\ w.swap - 1 >= 0 /\ w.growth + (w.swap - 1) = w.growth + w.swap - 1
      BY <1>1, <2>2
    <3> HIDE DEF w2
    <3>3. Served(active, highs, v, start, T, w2)
      BY <1>1, <1>4, <1>12, <1>13, <2>0, <3>1, <3>2
    <3> QED BY <3>3 DEF w2
  <2>3. CASE ~(w.growth > 0) /\ ~(w.swap > 0 /\ d.tier[s] <= Policy.minNewTier)
    <3>1. w2 = w
      BY <1>13, <2>3 DEF TakeSlot
    <3>2. CASE s \in highs
      <4>1. d.tier[s] = 0 /\ Policy.minNewTier \in Nat
        BY <3>2, PolicyNumbers DEF High
      <4>2. w.growth = 0 /\ w.swap = 0
        BY <1>1, <1>4, <2>3, <4>1
      <4>3. v <= k
        BY <1>1, <1>3, <1>4, <4>2
      <4> QED BY <1>5, <3>1, <4>3
    <3> QED BY <1>6, <3>1, <3>2
  <2> QED BY <2>1, <2>2, <2>3
<1> QED BY <1>9, <1>10, <1>11, <1>13

\* v new ones get a slot if there are as many highs among them, and slots.
LEMMA HighsGetSlots ==
    ASSUME NEW d, NEW active \in SUBSET Symbols, NEW slots \in Int, NEW S \in SUBSET Symbols,
           NEW start \in Slots(S), NEW v \in Nat, NEW highs \in SUBSET (S \ active),
           \A s \in highs : d.tier[s] = High,
           start.in = {}, start.growth >= 0, start.swap >= 0, start.new >= 0,
           v <= Cardinality(highs), v <= start.growth + start.swap, v <= start.new,
           v <= slots - Cardinality(active \cap S),
           NEW last, HasSlots(d, active, slots, start, S, last)
    PROVE  /\ v <= Cardinality(last.in \ active)
           /\ Cardinality(last.in \ active) <= start.new
<1>1. PICK F : SlotsGo(d, active, slots, start, S, F, last)
  BY DEF HasSlots
<1>2. /\ F \in [SUBSET S -> Slots(S)] /\ F[{}] = start /\ F[S] = last
      /\ \A T \in SUBSET S : T # {} => \E s \in T : F[T] = TakeSlot(d, active, slots, F[T \ {s}], s)
  BY <1>1 DEF SlotsGo
<1> DEFINE P == {T \in SUBSET S : Served(active, highs, v, start, T, F[T])}
<1>3. {} \in P
  <2>1. start.growth \in Int /\ start.swap \in Int /\ start.new \in Int
    BY DEF Slots
  <2>2. Cardinality({} \ active) = 0
    <3>1. {} \ active = {}
      OBVIOUS
    <3> QED BY <3>1, FS_EmptySet
  <2>3. Served(active, highs, v, start, {}, start)
    BY <2>1, <2>2 DEF Served
  <2> QED BY <1>2, <2>3
<1>4. ASSUME NEW T \in SUBSET S, T # {} PROVE \E s \in T : T \ {s} \in P => T \in P
  <2>1. PICK s \in T : F[T] = TakeSlot(d, active, slots, F[T \ {s}], s)
    BY <1>2, <1>4
  <2>2. F[T \ {s}] \in Slots(S)
    BY <1>2
  <2>3. ASSUME T \ {s} \in P PROVE Served(active, highs, v, start, T, F[T])
    <3>1. Served(active, highs, v, start, T \ {s}, F[T \ {s}])
      BY <2>3
    <3>2. Served(active, highs, v, start, T, TakeSlot(d, active, slots, F[T \ {s}], s))
      BY <2>2, <3>1, ServesOne
    <3> QED BY <2>1, <3>2
  <2> QED BY <2>3
<1>5. IsFiniteSet(S)
  BY DataAre, FS_Subset
<1>6. S \in P
  <2> HIDE DEF P
  <2> QED BY <1>3, <1>4, <1>5, SetInduction
<1>7. v <= Cardinality(last.in \ active) \/ highs \subseteq last.in
  BY <1>2, <1>6 DEF Served
<1>8. ASSUME highs \subseteq last.in PROVE v <= Cardinality(last.in \ active)
  <2>1. highs \in SUBSET (last.in \ active) /\ last.in \in SUBSET S
    BY <1>2, <1>8 DEF Slots
  <2>2. IsFiniteSet(last.in \ active)
    BY <1>5, <2>1, FS_Subset
  <2>3. /\ Cardinality(highs) <= Cardinality(last.in \ active)
        /\ IsFiniteSet(highs)
    BY <2>1, <2>2, FS_Subset
  <2>4. Cardinality(highs) \in Nat /\ Cardinality(last.in \ active) \in Nat
    BY <2>2, <2>3, FS_CardinalityType
  <2> QED BY <2>3, <2>4
<1>9. Cardinality(last.in \ active) <= start.new
  <2>1. last.new + Cardinality(last.in \ active) = start.new /\ last.new >= 0
    BY <1>2, <1>6 DEF Served
  <2>2. last \in Slots(S)
    BY <1>2
  <2>3. last.new \in Int /\ last.in \in SUBSET S /\ start.new \in Int
    BY <2>2 DEF Slots
  <2>4. IsFiniteSet(last.in \ active)
    BY <1>5, <2>3, FS_Subset
  <2>5. Cardinality(last.in \ active) \in Int
    BY <2>4, FS_CardinalityType
  <2> QED BY <2>1, <2>3, <2>5
<1> QED BY <1>7, <1>8, <1>9

Active(target) == {s \in Symbols : target[s] > 0}
SlotsFor(d, active, candidates) ==
    MaxOf(Breadth(d), MinOf(Cardinality(Held(d)), Policy.maxPositions))
        - Cardinality(active \ candidates)
SlotsAt(d, active) ==
    [in |-> {}, growth |-> MaxOf(0, Breadth(d) - Cardinality(Held(d))),
     swap |-> MinOf(Released(d, active), Policy.maxSwaps),
     new |-> MaxOf(0, Policy.maxPositions - Cardinality(active))]

LEMMA CountsAre ==
    ASSUME NEW d, IsDay(d), NEW target
    PROVE  /\ Active(target) \in SUBSET Symbols /\ Cardinality(Active(target)) \in Nat
           /\ Cardinality(Held(d)) \in Nat /\ Breadth(d) \in Nat
           /\ IsFiniteSet(Active(target)) /\ IsFiniteSet(Held(d))
<1>1. Active(target) \in SUBSET Symbols /\ Held(d) \in SUBSET Symbols
  BY DEF Active, Held
<1>2. IsFiniteSet(Active(target)) /\ IsFiniteSet(Held(d))
  BY <1>1, DataAre, FS_Subset
<1>3. Breadth(d) \in Nat
  BY PolicyNumbers DEF Breadth, MinOf, MaxOf, IsDay
<1> QED BY <1>1, <1>2, <1>3, FS_CardinalityType

LEMMA EligibleAre ==
    ASSUME NEW d, IsDay(d), NEW target, NEW candidates \in SUBSET Symbols
    PROVE  /\ Eligible(d, target, candidates) \subseteq candidates
           /\ SlotsAt(d, Active(target)) \in Slots(candidates)
           /\ \E last : /\ HasSlots(d, Active(target), SlotsFor(d, Active(target), candidates),
                                    SlotsAt(d, Active(target)), candidates, last)
                        /\ Eligible(d, target, candidates) = last.in
<1> DEFINE active == Active(target)
           slots == SlotsFor(d, active, candidates)
           start == SlotsAt(d, active)
           last == SlotOf(d, active, slots, start, candidates, Rank(d))[candidates]
<1>1. Eligible(d, target, candidates) = last.in
  BY DEF Eligible, InOrder, MapThenFoldSet, SlotOf, SlotRule, Active, SlotsFor, SlotsAt
<1>2. Cardinality(active) \in Int /\ Cardinality(Held(d)) \in Int /\ Breadth(d) \in Int
  BY CountsAre
<1> HIDE DEF active, slots
<1>3. MaxOf(0, Breadth(d) - Cardinality(Held(d))) \in Int
  BY <1>2 DEF MaxOf
<1>4. MinOf(Released(d, active), Policy.maxSwaps) \in Int
  BY <1>2, PolicyNumbers DEF MinOf, MaxOf, Released
<1>5. MaxOf(0, Policy.maxPositions - Cardinality(active)) \in Int
  BY <1>2, PolicyNumbers DEF MaxOf
<1>6. start \in Slots(candidates)
  BY <1>3, <1>4, <1>5 DEF Slots, SlotsAt
<1>7. Keyed(candidates, Rank(d))
  BY RankIs
<1> HIDE DEF start
<1>8. last \in Slots(candidates) /\ HasSlots(d, active, slots, start, candidates, last)
  BY <1>6, <1>7, SlotsAreTaken
<1> HIDE DEF last
<1>9. last.in \subseteq candidates
  BY <1>8 DEF Slots
<1> QED BY <1>1, <1>6, <1>8, <1>9 DEF active, slots, start

\* If no more stocks are held than may be, each that is swapped out leaves its
\* slot to a new one.
LEMMA VictimsHaveSlots ==
    ASSUME NEW d, IsDay(d), NEW e, IsLimits(e), NEW target \in LowTargets(d), NEW kept,
           NEW candidates \in SUBSET Symbols,
           \A s \in candidates : d.intent[s] \in {"buy", "add"} /\ target[s] = d.held[s],
           Cardinality(Held(d)) <= Policy.maxPositions,
           NEW V, V = Victims(d, e, target, kept, candidates),
           NEW without, without = [s \in Symbols |-> IF s \in V THEN 0 ELSE target[s]]
    PROVE  Cardinality(V) <= Cardinality({s \in Eligible(d, without, candidates) : d.held[s] = 0})
<1> DEFINE active == Active(without)
           before == Active(target)
           highs == Waiting(d, target, candidates)
           slots == SlotsFor(d, active, candidates)
           start == SlotsAt(d, active)
           new == {s \in Eligible(d, without, candidates) : d.held[s] = 0}
<1>1. /\ active \in SUBSET Symbols /\ IsFiniteSet(active) /\ Cardinality(active) \in Nat
      /\ before \in SUBSET Symbols /\ IsFiniteSet(before) /\ Cardinality(before) \in Nat
      /\ Cardinality(Held(d)) \in Nat /\ IsFiniteSet(Held(d)) /\ Breadth(d) \in Nat
  BY CountsAre
<1>2. Eligible(d, without, candidates) \subseteq candidates /\ start \in Slots(candidates)
  BY EligibleAre
<1>3. PICK last : /\ HasSlots(d, active, slots, start, candidates, last)
                  /\ Eligible(d, without, candidates) = last.in
  BY EligibleAre
<1>4. IsFiniteSet(new) /\ Cardinality(new) \in Nat
  <2>1. new \in SUBSET Symbols
    BY <1>2
  <2> HIDE DEF new
  <2>2. IsFiniteSet(new)
    BY <2>1, DataAre, FS_Subset
  <2> QED BY <2>2, FS_CardinalityType
<1> SUFFICES ASSUME V # {} PROVE Cardinality(V) <= Cardinality(new)
  <2>1. V = {} => Cardinality(V) <= Cardinality(new)
    <3> HIDE DEF new
    <3> QED BY <1>4, FS_EmptySet
  <2> QED BY <2>1
<1>5. /\ \A s \in V : s \in Symbols /\ target[s] > 0 /\ d.intent[s] = "hold"
      /\ Cardinality(V) <= Policy.maxSwaps /\ Cardinality(V) <= Cardinality(highs)
  BY VictimsAre
<1>6. V \in SUBSET before /\ active = before \ V /\ before \in SUBSET Held(d)
  <2>1. V \in SUBSET before
    BY <1>5 DEF Active
  <2>2. active = before \ V
    BY DEF Active
  <2>3. \A s \in Symbols : target[s] > 0 => d.held[s] > 0
    <3>1. \A s \in Symbols : target[s] \in Nat /\ d.held[s] \in Nat /\ target[s] <= d.held[s]
      BY DayIs DEF LowTargets
    <3> QED BY <3>1
  <2>4. before \in SUBSET Held(d)
    BY <2>3 DEF Active, Held
  <2> QED BY <2>1, <2>2, <2>4
<1>7. PICK v \in Nat : v = Cardinality(V)
  <2>1. IsFiniteSet(V)
    BY <1>1, <1>6, FS_Subset
  <2> QED BY <2>1, FS_CardinalityType
<1>8. \A s \in candidates : s \notin V
  BY <1>5
<1>9. highs \in SUBSET (candidates \ active) /\ \A s \in highs : d.tier[s] = High
  BY <1>6 DEF Waiting, Active
<1>10. ASSUME NEW s \in candidates, s \notin active PROVE d.held[s] = 0
  <2>1. without[s] = target[s] /\ target[s] = d.held[s] /\ d.held[s] \in Nat
    BY <1>8, DayIs
  <2>2. ~(without[s] > 0)
    BY <1>10 DEF Active
  <2> QED BY <2>1, <2>2
<1>11. last.in \ active \in SUBSET new
  BY <1>2, <1>3, <1>10
<1>12. /\ Cardinality(active) = Cardinality(before) - v
       /\ Cardinality(before) <= Cardinality(Held(d))
  <2>1. before \cap V = V
    BY <1>6
  <2>2. Cardinality(before \ V) = Cardinality(before) - Cardinality(before \cap V)
    BY <1>1, FS_Difference
  <2>3. Cardinality(before) <= Cardinality(Held(d))
    BY <1>1, <1>6, FS_Subset
  <2> HIDE DEF active, before
  <2> QED BY <1>6, <1>7, <2>1, <2>2, <2>3
<1>13. /\ Cardinality(active \ candidates) = Cardinality(active) - Cardinality(active \cap candidates)
       /\ Cardinality(active \cap candidates) \in Nat
  <2>1. IsFiniteSet(active \cap candidates)
    BY <1>1, FS_Subset
  <2> HIDE DEF active
  <2> QED BY <1>1, <2>1, FS_Difference, FS_CardinalityType
<1> DEFINE a == Cardinality(active)
           h == Cardinality(Held(d))
           b == Cardinality(active \cap candidates)
           m == Policy.maxPositions
<1>14. a \in Nat /\ h \in Nat /\ b \in Nat /\ m \in Nat /\ a + v <= h /\ h <= m
  BY <1>1, <1>12, <1>13, PolicyNumbers
<1>15. slots \in Int /\ v <= slots - b
  <2>1. slots = MaxOf(Breadth(d), MinOf(h, m)) - (a - b)
    BY <1>13 DEF SlotsFor
  <2>2. MinOf(h, m) = h
    BY <1>14 DEF MinOf
  <2>3. MaxOf(Breadth(d), MinOf(h, m)) \in Int /\ MaxOf(Breadth(d), MinOf(h, m)) >= h
    BY <1>1, <1>14, <2>2 DEF MaxOf
  <2> HIDE DEF slots, a, b, h, m
  <2> QED BY <1>14, <2>1, <2>3
<1>16. /\ start.in = {} /\ start.growth = MaxOf(0, Breadth(d) - h)
       /\ start.swap = MinOf(MaxOf(0, h - a), Policy.maxSwaps) /\ start.new = MaxOf(0, m - a)
  BY DEF SlotsAt, Released
<1> HIDE DEF slots, start, a, b, h, m
<1>17. /\ start.growth >= 0 /\ start.growth \in Int
       /\ start.swap >= v /\ start.swap \in Int
       /\ start.new >= v
  <2>1. Policy.maxSwaps \in Nat /\ v <= Policy.maxSwaps
    BY <1>5, <1>7, PolicyNumbers
  <2>2. MaxOf(0, h - a) = h - a /\ MaxOf(0, m - a) = m - a
    BY <1>14 DEF MaxOf
  <2>3. start.swap >= v /\ start.swap \in Int
    BY <1>14, <1>16, <2>1, <2>2 DEF MinOf
  <2>4. start.growth >= 0 /\ start.growth \in Int
    BY <1>1, <1>14, <1>16 DEF MaxOf, h
  <2>5. start.new >= v
    BY <1>14, <1>16, <2>2
  <2> QED BY <2>3, <2>4, <2>5
<1>18. /\ v <= start.growth + start.swap /\ start.swap >= 0 /\ v <= start.new /\ start.new >= 0
  <2>1. start.new \in Int
    BY <1>2 DEF Slots
  <2> QED BY <1>17, <2>1
<1>19. v <= Cardinality(highs)
  BY <1>5, <1>7
<1> HIDE DEF active, highs
<1>20. v <= Cardinality(last.in \ active)
  BY <1>1, <1>2, <1>3, <1>9, <1>15, <1>16, <1>17, <1>18, <1>19, HighsGetSlots DEF b
<1>21. Cardinality(last.in \ active) <= Cardinality(new) /\ IsFiniteSet(last.in \ active)
  <2> HIDE DEF new
  <2> QED BY <1>4, <1>11, FS_Subset
<1>22. Cardinality(last.in \ active) \in Nat
  BY <1>21, FS_CardinalityType
<1> HIDE DEF new
<1> QED BY <1>4, <1>7, <1>20, <1>21, <1>22

\* If no more stocks are held than may be, the slots make no more of them.
LEMMA SlotsFit ==
    ASSUME NEW d, IsDay(d), NEW target \in LowTargets(d), NEW candidates \in SUBSET Symbols,
           Cardinality(Held(d)) <= Policy.maxPositions
    PROVE  /\ IsFiniteSet(Active(target) \cup Eligible(d, target, candidates))
           /\ Cardinality(Active(target) \cup Eligible(d, target, candidates)) <= Policy.maxPositions
<1> DEFINE active == Active(target)
           eligible == Eligible(d, target, candidates)
           slots == SlotsFor(d, active, candidates)
           start == SlotsAt(d, active)
           a == Cardinality(active)
           h == Cardinality(Held(d))
           b == Cardinality(active \cap candidates)
           m == Policy.maxPositions
<1>1. /\ active \in SUBSET Symbols /\ IsFiniteSet(active) /\ a \in Nat
      /\ h \in Nat /\ IsFiniteSet(Held(d)) /\ Breadth(d) \in Nat /\ m \in Nat /\ h <= m
  BY CountsAre, PolicyNumbers
<1>2. eligible \subseteq candidates /\ start \in Slots(candidates)
  BY EligibleAre
<1>3. PICK last : HasSlots(d, active, slots, start, candidates, last) /\ eligible = last.in
  BY EligibleAre
<1>4. a <= h
  <2>1. \A s \in Symbols : target[s] \in Nat /\ d.held[s] \in Nat /\ target[s] <= d.held[s]
    BY DayIs DEF LowTargets
  <2>2. active \in SUBSET Held(d)
    BY <2>1 DEF Active, Held
  <2> HIDE DEF active
  <2> QED BY <1>1, <2>2, FS_Subset
<1>5. Cardinality(active \ candidates) = a - b /\ b \in Nat
  <2>1. IsFiniteSet(active \cap candidates)
    BY <1>1, FS_Subset
  <2> HIDE DEF active
  <2> QED BY <1>1, <2>1, FS_Difference, FS_CardinalityType
<1>6. slots \in Int /\ 0 <= slots - b
  <2>1. slots = MaxOf(Breadth(d), MinOf(h, m)) - (a - b)
    BY <1>5 DEF SlotsFor
  <2>2. MinOf(h, m) = h
    BY <1>1 DEF MinOf
  <2>3. MaxOf(Breadth(d), MinOf(h, m)) \in Int /\ MaxOf(Breadth(d), MinOf(h, m)) >= h
    BY <1>1, <2>2 DEF MaxOf
  <2> HIDE DEF slots, a, b, h, m
  <2> QED BY <1>1, <1>4, <1>5, <2>1, <2>3
<1>7. /\ start.in = {} /\ start.growth = MaxOf(0, Breadth(d) - h)
      /\ start.swap = MinOf(MaxOf(0, h - a), Policy.maxSwaps) /\ start.new = MaxOf(0, m - a)
  BY DEF SlotsAt, Released
<1> HIDE DEF slots, start, a, b, h, m
<1>8. /\ start.growth >= 0 /\ start.growth \in Int /\ start.swap >= 0 /\ start.swap \in Int
      /\ start.new = m - a
  <2>1. Policy.maxSwaps \in Nat
    BY PolicyNumbers
  <2> QED BY <1>1, <1>4, <1>7, <2>1 DEF MaxOf, MinOf
<1>9. 0 <= start.growth + start.swap /\ start.new >= 0
  BY <1>1, <1>4, <1>8
<1>10. {} \in SUBSET (candidates \ active) /\ 0 <= Cardinality({}) /\ 0 \in Nat
  BY FS_EmptySet
<1> HIDE DEF active
<1>11. Cardinality(last.in \ active) <= start.new
  BY <1>1, <1>2, <1>3, <1>6, <1>7, <1>8, <1>9, <1>10, HighsGetSlots DEF b
<1> HIDE DEF eligible
<1>12. IsFiniteSet(eligible \ active) /\ Cardinality(eligible \ active) \in Nat
  <2>1. IsFiniteSet(eligible)
    BY <1>2, DataAre, FS_Subset
  <2> QED BY <2>1, FS_Subset, FS_CardinalityType
<1>13. /\ IsFiniteSet(active \cup (eligible \ active))
       /\ Cardinality(active \cup (eligible \ active))
            = a + Cardinality(eligible \ active) - Cardinality(active \cap (eligible \ active))
  BY <1>1, <1>12, FS_Union DEF a
<1>14. active \cup (eligible \ active) = active \cup eligible /\ active \cap (eligible \ active) = {}
  OBVIOUS
<1>15. Cardinality(active \cup eligible) <= m
  <2>1. PICK k \in Nat : k = Cardinality(eligible \ active)
    BY <1>12
  <2>2. Cardinality(active \cup eligible) = a + k - 0
    BY <1>13, <1>14, <2>1, FS_EmptySet
  <2>3. k <= m - a
    BY <1>3, <1>8, <1>11, <2>1
  <2> QED BY <1>1, <2>2, <2>3
<1> QED BY <1>13, <1>14, <1>15 DEF active, eligible, m

(***************************************************************************)
(* How the slots share the budget: every share is a number.                *)
(***************************************************************************)
Givings == [in : SUBSET Symbols, left : Int, share : OrderSet]

LEMMA GiveSharesIs ==
    ASSUME NEW d, IsDay(d), NEW cap \in OrderSet, NEW w \in Givings
    PROVE  /\ GiveShares(d, cap, w) \in Givings
           /\ \/ GiveShares(d, cap, w) = w
              \/ Cardinality(GiveShares(d, cap, w).in) < Cardinality(w.in)
<1> DEFINE conviction == Conviction(d)
           total == Sum(Conviction(d), w.in)
           share == [s \in w.in |-> (w.left * Conviction(d)[s]) \div total]
           capped == {s \in w.in : share[s] > cap[s]}
           Given(in, given) == [s \in Symbols |-> IF s \in in THEN given[s] ELSE w.share[s]]
           all == [in |-> {}, left |-> w.left, share |-> Given(w.in, share)]
           some == [in |-> w.in \ capped, left |-> w.left - Sum(cap, capped), share |-> Given(capped, cap)]
<1>1. GiveShares(d, cap, w) = IF w.in = {} \/ w.left <= 0 THEN w
                              ELSE IF capped = {} THEN all ELSE some
  BY DEF GiveShares
<1>2. w.in \in SUBSET Symbols /\ w.left \in Int /\ w.share \in OrderSet /\ IsFiniteSet(w.in)
  <2>1. w.in \in SUBSET Symbols /\ w.left \in Int /\ w.share \in OrderSet
    BY DEF Givings
  <2> QED BY <2>1, DataAre, FS_Subset
<1> SUFFICES ASSUME w.in # {}
             PROVE  /\ all \in Givings /\ some \in Givings
                    /\ Cardinality(all.in) < Cardinality(w.in)
                    /\ capped # {} => Cardinality(some.in) < Cardinality(w.in)
  BY <1>1
<1>3. ASSUME NEW s \in Symbols PROVE conviction[s] \in Nat /\ conviction[s] > 0
  <2>1. PICK t \in 0..2 : t = d.tier[s]
    BY DayIs
  <2>2. t = 0 \/ t = 1 \/ t = 2
    BY <2>1
  <2>3. Raw[t + 1] \in {15, 6, 3}
    <3>1. Raw[1] = 15 /\ Raw[2] = 6 /\ Raw[3] = 3
      BY DEF Raw
    <3> QED BY <2>2, <3>1
  <2>4. conviction[s] = Raw[t + 1]
    BY <2>1 DEF Conviction
  <2> QED BY <2>3, <2>4
<1> HIDE DEF conviction
<1>4. total \in Int /\ total > 0
  <2> DEFINE z == [s \in Symbols |-> 0]
  <2>1. Numbers(conviction, w.in) /\ Numbers(z, w.in)
    BY <1>2, <1>3 DEF Numbers
  <2>2. \A s \in w.in : z[s] <= conviction[s] /\ z[s] < conviction[s] /\ z[s] = 0
    BY <1>2, <1>3
  <2> HIDE DEF z
  <2>3. Sum(z, w.in) < Sum(conviction, w.in) /\ Sum(conviction, w.in) \in Int
    BY <1>2, <2>1, <2>2, SumLess
  <2>4. Sum(z, w.in) = 0
    BY <1>2, <2>2, SumZero
  <2> QED BY <2>3, <2>4 DEF conviction
<1> HIDE DEF total
<1>5. \A s \in w.in : share[s] \in Int
  <2> SUFFICES ASSUME NEW s \in w.in PROVE (w.left * Conviction(d)[s]) \div total \in Int
    OBVIOUS
  <2>1. PICK x \in Int : x = w.left * Conviction(d)[s]
    BY <1>2, <1>3 DEF conviction
  <2> QED BY <1>4, <2>1, Rounds
<1> HIDE DEF share
<1>6. \A s \in Symbols : cap[s] \in Int /\ w.share[s] \in Int
  BY <1>2 DEF OrderSet
<1>7. Given(w.in, share) \in OrderSet /\ Given(capped, cap) \in OrderSet
  BY <1>5, <1>6 DEF OrderSet
<1>8. capped \subseteq w.in /\ IsFiniteSet(capped) /\ IsFiniteSet(w.in \ capped)
  <2>1. capped \subseteq w.in /\ w.in \ capped \subseteq w.in
    OBVIOUS
  <2> HIDE DEF capped
  <2> QED BY <1>2, <2>1, FS_Subset
<1> HIDE DEF capped, Given
<1>9. Sum(cap, capped) \in Int
  <2>1. Numbers(cap, capped)
    BY <1>2, <1>6, <1>8 DEF Numbers
  <2> QED BY <1>8, <2>1, SumSteps
<1>10. all \in Givings
  BY <1>2, <1>7 DEF Givings
<1>11. some \in Givings
  <2>1. w.left - Sum(cap, capped) \in Int
    BY <1>2, <1>9
  <2> QED BY <1>2, <1>7, <1>8, <2>1 DEF Givings
<1>12. Cardinality(all.in) < Cardinality(w.in)
  <2>1. Cardinality(w.in) \in Nat /\ Cardinality(w.in) # 0
    BY <1>2, FS_CardinalityType, FS_EmptySet
  <2>2. Cardinality({}) = 0
    BY FS_EmptySet
  <2> QED BY <2>1, <2>2
<1>13. ASSUME capped # {} PROVE Cardinality(some.in) < Cardinality(w.in)
  <2>1. w.in \ capped \subseteq w.in /\ w.in \ capped # w.in
    BY <1>8, <1>13
  <2>2. Cardinality(w.in \ capped) \in Nat /\ Cardinality(w.in) \in Nat
    BY <1>2, <1>8, FS_CardinalityType
  <2>3. Cardinality(w.in \ capped) <= Cardinality(w.in)
        /\ (Cardinality(w.in \ capped) = Cardinality(w.in) => w.in \ capped = w.in)
    BY <1>2, <2>1, FS_Subset
  <2> QED BY <2>1, <2>2, <2>3
<1> QED BY <1>10, <1>11, <1>12, <1>13

LEMMA SplitIs ==
    ASSUME NEW d, IsDay(d), NEW S \in SUBSET Symbols, NEW left \in Int, NEW cap \in OrderSet
    PROVE  Split(d, S, left, cap) \in OrderSet
<1> DEFINE g == [w \in Givings |-> GiveShares(d, cap, w)]
           m == [w \in Givings |-> Cardinality(w.in)]
           start == [in |-> S, left |-> left, share |-> NoLots]
<1>1. Split(d, S, left, cap) = Repeat(g, start).share
  BY DEF Split, Givings
<1>2. ASSUME NEW w \in Givings PROVE Cardinality(w.in) \in Nat
  <2>1. IsFiniteSet(w.in)
    BY DataAre, FS_Subset DEF Givings
  <2> QED BY <2>1, FS_CardinalityType
<1>3. m \in [Givings -> Nat] /\ \A w \in Givings : m[w] = Cardinality(w.in)
  BY <1>2
<1>4. g = [w \in Givings |-> g[w]] /\ \A w \in Givings : g[w] = GiveShares(d, cap, w)
  OBVIOUS
<1>5. start \in Givings
  BY DEF Givings, OrderSet, NoLots
<1> HIDE DEF g, m, start
<1>6. \A w \in Givings : g[w] \in Givings /\ (g[w] = w \/ m[g[w]] < m[w])
  BY <1>3, <1>4, GiveSharesIs
<1>7. Shrinks(g, Givings, m)
  BY <1>3, <1>4, <1>6 DEF Shrinks
<1>8. Repeat(g, start) \in Givings
  <2>1. Givings \in SUBSET Givings /\ \A w \in Givings : g[w] \in Givings
    BY <1>6
  <2> QED BY <1>5, <1>7, <2>1, Repeats
<1> QED BY <1>1, <1>8 DEF Givings

LEMMA LeastIs ==
    ASSUME NEW S \in SUBSET Symbols, S # {}, NEW f, \A s \in S : f[s] \in Int
    PROVE  Min({f[s] : s \in S}) \in Int
<1> DEFINE values == {f[s] : s \in S}
           g == [s \in S |-> f[s]]
<1>1. IsFiniteSet(S)
  BY DataAre, FS_Subset
<1>2. g \in Surjection(S, values)
  BY DEF Surjection
<1>3. IsFiniteSet(values)
  <2> HIDE DEF g, values
  <2> QED BY <1>1, <1>2, FS_Surjection
<1>4. values # {} /\ values \subseteq Int
  OBVIOUS
<1> HIDE DEF values
<1>5. Min(values) \in values
  BY <1>3, <1>4, MaxIs
<1> QED BY <1>4, <1>5 DEF values

LEMMA BelowMediumsIs ==
    ASSUME NEW d, IsDay(d), NEW S \in SUBSET Symbols, \A s \in S : d.tier[s] # High,
           NEW left \in Int, NEW cap \in OrderSet, NEW first \in OrderSet
    PROVE  BelowMediums(d, S, left, cap, first) \in OrderSet
<1> DEFINE mediums == {s \in S : d.tier[s] = 1}
           least == Min({first[m] : m \in mediums})
           lowered == [s \in Symbols |-> IF s \in S \ mediums THEN MinOf(cap[s], least) ELSE cap[s]]
<1>1. BelowMediums(d, S, left, cap, first)
        = IF TierOrder(d, S, first) THEN first ELSE Split(d, S, left, lowered)
  BY DEF BelowMediums
<1> SUFFICES ASSUME ~TierOrder(d, S, first) PROVE Split(d, S, left, lowered) \in OrderSet
  BY <1>1
<1>2. PICK s \in S, t \in S : d.tier[s] < d.tier[t]
  BY DEF TierOrder
<1>3. s \in mediums
  <2>1. d.tier[s] \in 0..2 /\ d.tier[t] \in 0..2 /\ d.tier[s] # 0
    BY DayIs DEF High
  <2> QED BY <1>2, <2>1
<1>4. \A u \in Symbols : first[u] \in Int /\ cap[u] \in Int
  BY DEF OrderSet
<1>5. least \in Int
  <2>1. mediums \in SUBSET Symbols /\ mediums # {} /\ \A m \in mediums : first[m] \in Int
    BY <1>3, <1>4
  <2> HIDE DEF mediums
  <2> QED BY <2>1, LeastIs
<1> HIDE DEF mediums, least
<1>6. lowered \in OrderSet
  BY <1>4, <1>5 DEF OrderSet, MinOf
<1> HIDE DEF lowered
<1> QED BY <1>6, SplitIs

LEMMA HighsFirstIs ==
    ASSUME NEW d, IsDay(d), NEW S \in SUBSET Symbols, NEW left \in Int, NEW cap \in OrderSet,
           NEW needed, \A s \in S : d.tier[s] = High => needed[s] \in Int
    PROVE  HighsFirst(d, S, left, cap, needed) \in OrderSet
<1> DEFINE highs == {s \in S : d.tier[s] = High}
           rest == left - Sum(needed, highs)
           ahead(s) == Sum(needed, {t \in highs : Ranking[t] < Ranking[s]})
           lid == [s \in Symbols |->
                     IF highs = {} THEN cap[s] ELSE MinOf(cap[s], Min({needed[h] : h \in highs}))]
           split == Split(d, S \ highs, rest, lid)
           shared == BelowMediums(d, S \ highs, rest, lid, split)
           short == [s \in Symbols |->
                       IF s \in highs THEN MinOf(needed[s], MaxOf(left - ahead(s), 0)) ELSE 0]
           full == [s \in Symbols |-> IF s \in highs THEN needed[s] ELSE shared[s]]
<1>1. HighsFirst(d, S, left, cap, needed) = IF rest <= 0 THEN short ELSE full
  BY DEF HighsFirst
<1>2. /\ highs \in SUBSET Symbols /\ \A s \in highs : needed[s] \in Int
      /\ S \ highs \in SUBSET Symbols /\ \A s \in S \ highs : d.tier[s] # High
  OBVIOUS
<1> HIDE DEF highs
<1>3. \A s \in Symbols : cap[s] \in Int
  BY DEF OrderSet
<1>4. ASSUME NEW T \in SUBSET highs PROVE Sum(needed, T) \in Int
  <2>1. IsFiniteSet(T) /\ Numbers(needed, T)
    BY <1>2, DataAre, FS_Subset DEF Numbers
  <2> QED BY <2>1, SumSteps
<1>5. rest \in Int
  BY <1>4
<1>6. \A s \in Symbols : ahead(s) \in Int
  BY <1>4
<1> HIDE DEF rest, ahead
<1>7. short \in OrderSet
  BY <1>2, <1>6 DEF OrderSet, MinOf, MaxOf
<1>8. lid \in OrderSet
  <2>1. highs # {} => Min({needed[h] : h \in highs}) \in Int
    BY <1>2, LeastIs
  <2> QED BY <1>3, <2>1 DEF OrderSet, MinOf
<1> HIDE DEF lid
<1>9. split \in OrderSet
  BY <1>2, <1>5, <1>8, SplitIs
<1> HIDE DEF split
<1>10. shared \in OrderSet
  BY <1>2, <1>5, <1>8, <1>9, BelowMediumsIs
<1> HIDE DEF shared
<1>11. full \in OrderSet
  BY <1>2, <1>10 DEF OrderSet
<1> QED BY <1>1, <1>7, <1>11

LEMMA SharesAre ==
    ASSUME NEW d, IsDay(d), NEW S \in SUBSET Symbols, NEW budget \in Int, NEW cap \in OrderSet,
           NEW floor \in OrderSet
    PROVE  Shares(d, S, budget, cap, floor) \in OrderSet
<1> DEFINE left == MaxOf(budget, 0)
           highs == {s \in S : d.tier[s] = High}
           base == Split(d, S, left, cap)
           needed == [s \in highs |-> MaxOf(base[s], floor[s])]
<1>1. \/ Shares(d, S, budget, cap, floor) = base
      \/ Shares(d, S, budget, cap, floor) = HighsFirst(d, S, left, cap, needed)
  BY DEF Shares
<1>2. left \in Int
  BY DEF MaxOf
<1> HIDE DEF left
<1>3. base \in OrderSet
  BY <1>2, SplitIs
<1> HIDE DEF base
<1>4. \A s \in S : d.tier[s] = High => needed[s] \in Int
  BY <1>3 DEF OrderSet, MaxOf
<1> HIDE DEF needed
<1>5. HighsFirst(d, S, left, cap, needed) \in OrderSet
  BY <1>2, <1>4, HighsFirstIs
<1> QED BY <1>1, <1>3, <1>5

\* A stock that gets no slot is to have what it had before.
LEMMA TargetsAre ==
    ASSUME NEW d, IsDay(d), NEW e, IsLimits(e), NEW target \in LowTargets(d),
           NEW eligible \in SUBSET Symbols
    PROVE  /\ Targets(d, e, target, eligible) \in OrderSet
           /\ \A s \in Symbols \ eligible : Targets(d, e, target, eligible)[s] = target[s]
<1> DEFINE outside == {s \in Symbols : target[s] > 0} \ eligible
           value == [s \in outside |-> target[s] * Price[s]]
           budget == Nav(d) * (100 - e.buffer) - 100 * Sum(value, outside)
           cap == [s \in Symbols |-> (Nav(d) * Limit(e, s) * Policy.headroomBuy) \div 1000]
           floor == [s \in Symbols |->
                        MinOf((Nav(d) * Limit(e, s) * Policy.alpha) \div 100, cap[s])]
           share == Shares(d, eligible, budget, cap, floor)
           lots(s) == MaxOf(d.held[s], share[s] \div (100 * Price[s]))
           result == Targets(d, e, target, eligible)
<1>1. result = [s \in Symbols |-> IF s \in eligible /\ lots(s) > 0 THEN lots(s) ELSE target[s]]
  BY DEF Targets
<1>2. PICK nav \in Int : nav = Nav(d)
  BY NavIs
<1>3. \A s \in Symbols : target[s] \in Nat /\ target[s] <= d.held[s] /\ d.held[s] \in Nat
  BY DayIs DEF LowTargets
<1>4. Sum(value, outside) \in Int
  <2>1. outside \subseteq Symbols
    OBVIOUS
  <2>2. \A s \in outside : value[s] \in Int
    BY <1>3, DataAre
  <2> HIDE DEF outside, value
  <2>3. IsFiniteSet(outside) /\ Numbers(value, outside)
    BY <2>1, <2>2, DataAre, FS_Subset DEF Numbers
  <2> QED BY <2>3, SumSteps
<1>5. budget \in Int
  <2>1. PICK b \in Nat, x \in Int : b = e.buffer /\ x = Sum(value, outside)
    BY <1>4 DEF IsLimits
  <2>2. nav * (100 - b) \in Int
    OBVIOUS
  <2> QED BY <1>2, <2>1, <2>2
<1> HIDE DEF budget
<1>6. cap \in OrderSet
  <2>1. ASSUME NEW s \in Symbols PROVE (Nav(d) * Limit(e, s) * Policy.headroomBuy) \div 1000 \in Int
    <3>1. PICK x \in Int : x = Nav(d) * Limit(e, s) * Policy.headroomBuy
      <4>1. Limit(e, s) \in Nat /\ Policy.headroomBuy \in Nat
        BY LimitIs, PolicyNumbers
      <4> QED BY <1>2, <4>1
    <3> QED BY <3>1
  <2> QED BY <2>1 DEF OrderSet
<1> HIDE DEF cap
<1>7. floor \in OrderSet
  <2>1. ASSUME NEW s \in Symbols PROVE (Nav(d) * Limit(e, s) * Policy.alpha) \div 100 \in Int
    <3>1. PICK x \in Int : x = Nav(d) * Limit(e, s) * Policy.alpha
      <4>1. Limit(e, s) \in Nat /\ Policy.alpha \in Nat
        BY LimitIs, PolicyNumbers
      <4> QED BY <1>2, <4>1
    <3> QED BY <3>1
  <2> QED BY <1>6, <2>1 DEF OrderSet, MinOf
<1> HIDE DEF floor
<1>8. share \in OrderSet
  BY <1>5, <1>6, <1>7, SharesAre
<1> HIDE DEF share
<1>9. ASSUME NEW s \in Symbols PROVE lots(s) \in Int
  <2>1. share[s] \in Int /\ 100 * Price[s] \in Nat \ {0}
    BY <1>8, DataAre DEF OrderSet
  <2>2. share[s] \div (100 * Price[s]) \in Int
    BY <2>1, Rounds
  <2> QED BY <1>3, <2>2 DEF MaxOf
<1> HIDE DEF lots, result
<1>10. \A s \in Symbols : s \notin eligible => result[s] = target[s]
  BY <1>1
<1>11. result \in OrderSet
  BY <1>1, <1>3, <1>9 DEF OrderSet
<1> QED BY <1>10, <1>11 DEF result

(***************************************************************************)
(* The whole computation.                                                  *)
(***************************************************************************)
\* If no more stocks are held than may be, each that is swapped out has left its
\* slot to a new one.
Housed(d, body) ==
    Cardinality(Held(d)) <= Policy.maxPositions =>
        Cardinality(body.victims) <= Cardinality({s \in body.eligible : d.held[s] = 0})

\* Nor are there more afterwards.
Roomy(d, body) ==
    Cardinality(Held(d)) <= Policy.maxPositions =>
        Cardinality(Positions(d, body.orders)) <= Policy.maxPositions

\* What every computation keeps, with x the stocks that are not to be bought.
Fitted(d, e, x, body) ==
    /\ Bought(body.orders) \subseteq Symbols \ x
    /\ Bought(body.orders) # {} => Payable(d, CashFloor(d, e, body.derisked # {}), body.orders)
    /\ body.orders \in Light(d, e)
    /\ \/ 100 * Traded(body.orders) - Nav(d) * e.turnover <= 0
       \/ Bought(body.orders) = {}
    /\ Housed(d, body)
    /\ Roomy(d, body)

FitOf(d, e, target, restored) ==
    LET paid == FitCash(d, e, [s \in Symbols |-> target[s] - d.held[s]], restored)
    IN  FitTurnover(d, e, FitSectorWeights(d, FitStockWeights(d, e, paid)))

\* What is fitted stays below the lots that each stock should have.
LEMMA FitIs ==
    ASSUME NEW d, IsDay(d), NEW e, IsLimits(e), NEW target \in OrderSet, NEW restored \in BOOLEAN
    PROVE  /\ FitOf(d, e, target, restored) \in Light(d, e)
           /\ \A s \in Symbols : d.held[s] + FitOf(d, e, target, restored)[s] <= target[s]
           /\ Bought(FitOf(d, e, target, restored)) # {} =>
                 Payable(d, CashFloor(d, e, restored), FitOf(d, e, target, restored))
           /\ \/ 100 * Traded(FitOf(d, e, target, restored)) - Nav(d) * e.turnover <= 0
              \/ Bought(FitOf(d, e, target, restored)) = {}
<1> DEFINE wanted == [s \in Symbols |-> target[s] - d.held[s]]
           paid == FitCash(d, e, wanted, restored)
           light == FitStockWeights(d, e, paid)
           spread == FitSectorWeights(d, light)
           orders == FitTurnover(d, e, spread)
           floor == CashFloor(d, e, restored)
<1>0. FitOf(d, e, target, restored) = orders
  BY DEF FitOf
<1>1. \A s \in Symbols : target[s] \in Int /\ d.held[s] \in Int /\ wanted[s] = target[s] - d.held[s]
  BY DayIs DEF OrderSet
<1>2. wanted \in OrderSet
  BY <1>1 DEF OrderSet
<1> HIDE DEF wanted
<1>3. floor \in Int
  BY NavIs
<1>4. paid \in Sound(d, floor, wanted)
  BY <1>2, CashFitted
<1> HIDE DEF paid, floor
<1>5. light \in Sound(d, floor, wanted) \cap Light(d, e)
  BY <1>2, <1>3, <1>4, StocksFitted
<1> HIDE DEF light
<1>6. spread \in Sound(d, floor, wanted) \cap Light(d, e)
  BY <1>2, <1>3, <1>5, SectorsFitted
<1> HIDE DEF spread
<1>7. /\ orders \in Sound(d, floor, wanted) \cap Light(d, e)
      /\ 100 * Traded(orders) - Nav(d) * e.turnover <= 0 \/ Bought(orders) = {}
  BY <1>2, <1>3, <1>6, TurnoverFitted
<1> HIDE DEF orders
<1>8. /\ orders \in OrderSet /\ Within(orders, wanted)
      /\ Bought(orders) # {} => Payable(d, floor, orders)
  BY <1>7 DEF Sound
<1>9. ASSUME NEW s \in Symbols PROVE d.held[s] + orders[s] <= target[s]
  <2>1. orders[s] \in Int /\ orders[s] <= wanted[s]
    BY <1>8 DEF OrderSet, Within
  <2> QED BY <1>1, <2>1
<1> QED BY <1>0, <1>7, <1>8, <1>9 DEF floor

LEMMA ComputeIs ==
    ASSUME NEW d, IsDay(d), NEW e, IsLimits(e), NEW x, NEW kept, NEW dropped
    PROVE  /\ Fitted(d, e, x, Compute(d, e, x, kept, dropped))
           /\ Compute(d, e, x, kept, dropped).kept = kept
           /\ Compute(d, e, x, kept, dropped).dropped = dropped
<1> DEFINE reduced == Reduced(d, kept)
           lighter == Derisk(d, e, reduced, kept)
           derisked == {s \in Symbols : lighter[s] < reduced[s]}
           candidates == Candidates(d, lighter, derisked, x, dropped)
           victims == Victims(d, e, lighter, kept, candidates)
           without == [s \in Symbols |-> IF s \in victims THEN 0 ELSE lighter[s]]
           eligible == Eligible(d, without, candidates)
           target == Targets(d, e, without, eligible)
           orders == FitOf(d, e, target, derisked # {})
           w1 == Reduce(d, Blank(kept, dropped))
           w2 == Restore(d, e, w1)
           w3 == Ask(d, x, w2)
           w4 == SwapOut(d, e, w3)
           w5 == Choose(d, w4)
           w6 == Fund(d, e, w5)
           w7 == Fit(d, e, w6)
<1>1. Compute(d, e, x, kept, dropped) = w7
  BY DEF Compute
<1>2. reduced \in LowTargets(d)
  BY ReducedIsLow
<1>3. lighter \in LowTargets(d)
  BY <1>2, DeriskIsLow
<1>4. candidates \in SUBSET Symbols /\ candidates \subseteq Symbols \ x
  BY DEF Candidates
<1>5. without \in LowTargets(d)
  <2>1. lighter \in [Symbols -> Nat] /\ \A s \in Symbols : lighter[s] <= d.held[s]
    BY <1>3 DEF LowTargets
  <2> HIDE DEF lighter, victims
  <2>2. without \in [Symbols -> Nat]
    BY <2>1
  <2>3. \A s \in Symbols : without[s] <= d.held[s]
    BY <2>1, DayIs
  <2> HIDE DEF without
  <2> QED BY <2>2, <2>3 DEF LowTargets
<1>6. eligible \subseteq candidates
  BY <1>4, EligibleAre
<1>7. target \in OrderSet /\ \A s \in Symbols \ eligible : target[s] = without[s]
  <2> HIDE DEF without, eligible, candidates
  <2> QED BY <1>4, <1>5, <1>6, TargetsAre
<1>8. /\ orders \in Light(d, e)
      /\ \A s \in Symbols : d.held[s] + orders[s] <= target[s]
      /\ Bought(orders) # {} => Payable(d, CashFloor(d, e, derisked # {}), orders)
      /\ 100 * Traded(orders) - Nav(d) * e.turnover <= 0 \/ Bought(orders) = {}
  <2> HIDE DEF target, derisked
  <2> QED BY <1>7, FitIs
<1>a. /\ Bought(orders) \subseteq Symbols \ x
      /\ Positions(d, orders) \subseteq Active(without) \cup eligible
  <2> HIDE DEF orders, target, eligible, without, candidates
  <2>1. ASSUME NEW s \in Symbols
        PROVE  /\ orders[s] \in Int /\ target[s] \in Int /\ d.held[s] \in Nat
               /\ d.held[s] + orders[s] <= target[s]
               /\ s \notin eligible => target[s] = without[s] /\ without[s] <= d.held[s]
    BY <1>5, <1>7, <1>8, DayIs DEF Light, OrderSet, LowTargets
  <2>2. ASSUME NEW s \in Bought(orders) PROVE s \in eligible
    <3>1. s \in Symbols /\ orders[s] > 0
      BY DEF Bought
    <3> QED BY <2>1, <3>1
  <2>3. ASSUME NEW s \in Positions(d, orders), s \notin eligible PROVE s \in Active(without)
    <3>1. s \in Symbols /\ d.held[s] + orders[s] > 0
      BY DEF Positions, Final
    <3>2. without[s] > 0
      BY <2>1, <2>3, <3>1
    <3> QED BY <3>1, <3>2 DEF Active
  <2> QED BY <1>4, <1>6, <2>2, <2>3
<1>b. \A s \in candidates : d.intent[s] \in {"buy", "add"} /\ lighter[s] = d.held[s]
  <2> SUFFICES ASSUME NEW s \in candidates
               PROVE  d.intent[s] \in {"buy", "add"} /\ lighter[s] = d.held[s]
    OBVIOUS
  <2>1. s \in Symbols /\ d.intent[s] \in {"buy", "add"} /\ s \notin derisked
    BY DEF Candidates
  <2>2. reduced[s] = d.held[s]
    BY <2>1 DEF Reduced
  <2>3. ~(lighter[s] < reduced[s])
    <3> HIDE DEF lighter, reduced
    <3> QED BY <2>1
  <2>4. lighter[s] \in Nat /\ lighter[s] <= d.held[s] /\ d.held[s] \in Nat
    <3> HIDE DEF lighter
    <3> QED BY <1>3, <2>1, DayIs DEF LowTargets
  <2> HIDE DEF lighter, reduced
  <2> QED BY <2>1, <2>2, <2>3, <2>4
<1>c. Cardinality(Held(d)) <= Policy.maxPositions =>
        Cardinality(victims) <= Cardinality({s \in eligible : d.held[s] = 0})
  <2> HIDE DEF lighter, candidates
  <2> QED BY <1>3, <1>4, <1>b, VictimsHaveSlots
<1>h. Cardinality(Held(d)) <= Policy.maxPositions =>
        Cardinality(Positions(d, orders)) <= Policy.maxPositions
  <2>1. Cardinality(Held(d)) <= Policy.maxPositions =>
          /\ Cardinality(Active(without) \cup eligible) <= Policy.maxPositions
          /\ IsFiniteSet(Active(without) \cup eligible)
    <3> HIDE DEF without, candidates
    <3> QED BY <1>4, <1>5, SlotsFit
  <2> HIDE DEF orders, without, eligible
  <2>2. IsFiniteSet(Active(without) \cup eligible) =>
          /\ Cardinality(Positions(d, orders)) <= Cardinality(Active(without) \cup eligible)
          /\ IsFiniteSet(Positions(d, orders))
    BY <1>a, FS_Subset
  <2> QED BY <2>1, <2>2, FS_CardinalityType, PolicyNumbers
<1> HIDE DEF reduced
<1>9. w1 = [Blank(kept, dropped) EXCEPT !.target = reduced]
  BY DEF Reduce, Blank, reduced
<1>10. w1.kept = kept /\ w1.dropped = dropped /\ w1.target = reduced
       /\ w1 = [w1 EXCEPT !.target = w1.target]
  BY <1>9 DEF Blank
<1> HIDE DEF w1
<1> HIDE DEF lighter
<1>11. w2 = [w1 EXCEPT !.target = lighter, !.derisked = derisked]
  BY <1>10 DEF Restore, lighter
<1> HIDE DEF derisked
<1>12. w2.kept = kept /\ w2.dropped = dropped /\ w2.target = lighter /\ w2.derisked = derisked
  BY <1>9, <1>10, <1>11 DEF Blank
<1> HIDE DEF w2
<1>13. w3 = [w2 EXCEPT !.candidates = candidates]
  BY <1>12 DEF Ask
<1> HIDE DEF candidates
<1>14. w3.kept = kept /\ w3.dropped = dropped /\ w3.target = lighter /\ w3.derisked = derisked
       /\ w3.candidates = candidates
  BY <1>9, <1>11, <1>12, <1>13 DEF Blank
<1> HIDE DEF w3
<1>15. w4 = [w3 EXCEPT !.victims = victims, !.target = without]
  BY <1>14 DEF SwapOut
<1> HIDE DEF victims, without
<1>16. w4.kept = kept /\ w4.dropped = dropped /\ w4.target = without /\ w4.derisked = derisked
       /\ w4.candidates = candidates
  BY <1>9, <1>11, <1>13, <1>14, <1>15 DEF Blank
<1>d. w4.victims = victims
  BY <1>9, <1>11, <1>13, <1>15 DEF Blank
<1> HIDE DEF w4
<1>17. w5 = [w4 EXCEPT !.eligible = eligible]
  BY <1>16 DEF Choose
<1> HIDE DEF eligible
<1>18. w5.kept = kept /\ w5.dropped = dropped /\ w5.target = without /\ w5.derisked = derisked
       /\ w5.eligible = eligible
  BY <1>9, <1>11, <1>13, <1>15, <1>16, <1>17 DEF Blank
<1>e. w5.victims = victims
  BY <1>9, <1>11, <1>13, <1>15, <1>17, <1>d DEF Blank
<1> HIDE DEF w5
<1>19. w6 = [w5 EXCEPT !.target = target]
  BY <1>18 DEF Fund
<1> HIDE DEF target
<1>20. w6.kept = kept /\ w6.dropped = dropped /\ w6.target = target /\ w6.derisked = derisked
  BY <1>9, <1>11, <1>13, <1>15, <1>17, <1>18, <1>19 DEF Blank
<1>f. w6.victims = victims /\ w6.eligible = eligible
  BY <1>9, <1>11, <1>13, <1>15, <1>17, <1>18, <1>19, <1>e DEF Blank
<1> HIDE DEF w6
<1>21. w7 = [w6 EXCEPT !.orders = orders]
  BY <1>20 DEF Fit, FitOf
<1> HIDE DEF orders
<1>22. w7.kept = kept /\ w7.dropped = dropped /\ w7.orders = orders /\ w7.derisked = derisked
  BY <1>9, <1>11, <1>13, <1>15, <1>17, <1>19, <1>20, <1>21 DEF Blank
<1>g. w7.victims = victims /\ w7.eligible = eligible
  BY <1>9, <1>11, <1>13, <1>15, <1>17, <1>19, <1>21, <1>f DEF Blank
<1> HIDE DEF w7
<1>23. Housed(d, w7) /\ Roomy(d, w7)
  BY <1>c, <1>g, <1>h, <1>22 DEF Housed, Roomy
<1> QED BY <1>1, <1>8, <1>a, <1>22, <1>23 DEF Fitted

LEMMA ToKeepIs ==
    ASSUME NEW d, IsDay(d), NEW e, NEW body
    PROVE  /\ ToKeep(d, e, body) \subseteq Symbols \ body.kept
           /\ ToKeep(d, e, body) = {} /\ 100 * Traded(body.orders) > Nav(d) * e.turnover
                => Keepable(d, body) = {}
<1> DEFINE keepable == Keepable(d, body)
<1>1. keepable \subseteq Symbols \ body.kept
  BY DEF Keepable, Held
<1>2. ToKeep(d, e, body) = {s \in keepable : Cardinality({t \in keepable : Atr[t] < Atr[s]}) < Missing(d, e, body)}
  BY DEF ToKeep
<1> HIDE DEF keepable
<1>3. ASSUME 100 * Traded(body.orders) > Nav(d) * e.turnover, keepable # {}
      PROVE  ToKeep(d, e, body) # {}
  <2>1. Missing(d, e, body) > 0
    <3> DEFINE few == Policy.minPositions - Cardinality(Positions(d, body.orders))
    <3>1. Missing(d, e, body) = IF few > 0 THEN few ELSE 1
      BY <1>3 DEF Missing
    <3> HIDE DEF few
    <3> QED BY <3>1
  <2>a. keepable \subseteq Symbols
    BY <1>1
  <2>b. IsFiniteSet(keepable)
    BY <2>a, DataAre, FS_Subset
  <2>c. Keyed(keepable, Atr)
    BY <2>a, DataAre DEF Keyed
  <2>2. IsFiniteSet(keepable) /\ Keyed(keepable, Atr)
    BY <2>b, <2>c
  <2>3. PICK s \in keepable : \A t \in keepable : Atr[s] <= Atr[t]
    BY <1>3, <2>2, KeyExtremes
  <2>4. \A t \in keepable : Atr[t] \in Int
    BY <1>1, DataAre
  <2>5. {t \in keepable : Atr[t] < Atr[s]} = {}
    BY <2>3, <2>4
  <2>6. Cardinality({t \in keepable : Atr[t] < Atr[s]}) = 0
    BY <2>5, FS_EmptySet
  <2> QED BY <1>2, <2>1, <2>6
<1> QED BY <1>1, <1>2, <1>3 DEF keepable

KeepingRule(d, e, x, dropped, F) ==
    F = [kept \in SUBSET Symbols |->
            LET body == Compute(d, e, x, kept, dropped)
                more == ToKeep(d, e, body)
            IN  IF more = {} THEN body ELSE F[kept \cup more]]
KeepingOf(d, e, x, dropped) == CHOOSE F : KeepingRule(d, e, x, dropped, F)

\* What is left when no exit may be kept back any more.
LEMMA WithKeptIs ==
    ASSUME NEW d, IsDay(d), NEW e, IsLimits(e), NEW x, NEW dropped
    PROVE  /\ Fitted(d, e, x, WithKept(d, e, x, dropped))
           /\ ToKeep(d, e, WithKept(d, e, x, dropped)) = {}
           /\ WithKept(d, e, x, dropped).dropped = dropped
<1> DEFINE D == SUBSET Symbols
           Body(k) == Compute(d, e, x, k, dropped)
           More(k) == ToKeep(d, e, Body(k))
           Done == {k \in D : More(k) = {}}
           g == [k \in D |-> k \cup More(k)]
           h == [k \in D |-> Body(k)]
           m == [k \in D |-> Cardinality(Symbols \ k)]
           X == KeepingOf(d, e, x, dropped)
<1>1. WithKept(d, e, x, dropped) = X[{}]
  BY DEF WithKept, KeepMore, KeepingOf, KeepingRule
<1>2. ASSUME NEW k \in D
      PROVE  /\ Fitted(d, e, x, Body(k)) /\ Body(k).dropped = dropped /\ More(k) \subseteq Symbols \ k
  <2>1. Body(k).kept = k /\ Fitted(d, e, x, Body(k)) /\ Body(k).dropped = dropped
    BY ComputeIs
  <2>2. More(k) \subseteq Symbols \ Body(k).kept
    BY ToKeepIs
  <2> QED BY <2>1, <2>2
<1>3. \A F : KeepingRule(d, e, x, dropped, F) <=>
                F = [k \in D |-> IF More(k) = {} THEN Body(k) ELSE F[k \cup More(k)]]
  BY DEF KeepingRule
<1> HIDE DEF Body, More, X
<1>4. /\ \A k \in D : g[k] = k \cup More(k) /\ g[k] \in D /\ h[k] = Body(k)
      /\ \A k \in D : k \in Done <=> More(k) = {}
  BY <1>2
<1>5. ASSUME NEW k \in D PROVE m[k] \in Nat /\ (k \notin Done => m[g[k]] < m[k])
  <2>1. m[k] = Cardinality(Symbols \ k) /\ m[g[k]] = Cardinality(Symbols \ g[k])
    BY <1>4
  <2>2. IsFiniteSet(Symbols \ k) /\ IsFiniteSet(Symbols \ g[k]) /\ Symbols \ g[k] \subseteq Symbols \ k
    BY <1>4, DataAre, FS_Subset
  <2>3. Cardinality(Symbols \ k) \in Nat /\ Cardinality(Symbols \ g[k]) \in Nat
    BY <2>2, FS_CardinalityType
  <2>4. k \notin Done => Symbols \ g[k] # Symbols \ k
    BY <1>2, <1>4
  <2>5. Cardinality(Symbols \ g[k]) <= Cardinality(Symbols \ k)
        /\ (Cardinality(Symbols \ g[k]) = Cardinality(Symbols \ k) => Symbols \ g[k] = Symbols \ k)
    BY <2>2, FS_Subset
  <2> QED BY <2>1, <2>3, <2>4, <2>5
<1>a. g \in [D -> D] /\ m \in [D -> Nat]
  BY <1>4, <1>5
<1> HIDE DEF g, h, m, Done
<1>6. Falls(D, Done, g, m)
  BY <1>5, <1>a DEF Falls
<1>7. PICK f : LoopOf(f, D, Done, g, h)
  BY <1>6, LoopExists
<1>8. f = [k \in D |-> IF k \in Done THEN h[k] ELSE f[g[k]]]
  BY <1>7 DEF LoopOf
<1>9. f = [k \in D |-> IF More(k) = {} THEN Body(k) ELSE f[k \cup More(k)]]
  BY <1>4, <1>8
<1>10. KeepingRule(d, e, x, dropped, X)
  <2>1. KeepingRule(d, e, x, dropped, f)
    BY <1>3, <1>9
  <2> QED BY <2>1, Zenon DEF X, KeepingOf
<1>11. X = [k \in D |-> IF More(k) = {} THEN Body(k) ELSE X[k \cup More(k)]]
  BY <1>3, <1>10
<1>12. LoopOf(X, D, Done, g, h)
  <2>1. X = [k \in D |-> IF k \in Done THEN h[k] ELSE X[g[k]]]
    BY <1>4, <1>11
  <2> QED BY <2>1 DEF LoopOf
<1>13. PICK k \in D : k \in Done /\ X[{}] = h[k]
  <2>1. {} \in D /\ D \in SUBSET D /\ \A j \in D : j \notin Done => g[j] \in D
    BY <1>4
  <2> HIDE DEF D
  <2>2. \E k \in D : k \in Done /\ X[{}] = h[k]
    BY <1>6, <1>12, <2>1, LoopKeeps
  <2> QED BY <2>2
<1>14. WithKept(d, e, x, dropped) = Body(k) /\ More(k) = {}
  BY <1>1, <1>4, <1>13
<1> QED BY <1>2, <1>14 DEF More

\* A candidate that is dropped was not dropped before.
LEMMA ToDropIs ==
    ASSUME NEW d, IsDay(d), NEW body, body.orders \in OrderSet
    PROVE  ToDrop(d, body, Scenario(d, body.orders, Scenarios[1])) \subseteq Symbols \ body.dropped
<1> DEFINE base == Scenario(d, body.orders, Scenarios[1])
           weights == Benchmarks
           failing == {i \in DOMAIN weights :
                         TooClose(base, weights[i]) /\ Overlaps(d, body, weights[i]) # {}}
           keys == [i \in failing |-> 10 * Distance(base, weights[i]) + i]
           closest == First(failing, keys)
           shared == Overlaps(d, body, weights[closest])
           overlap == [s \in shared |-> -10 * MinOf(100 * base.value[s], base.nav * weights[closest][s]) + s]
           pick == First(shared, overlap)
<1>1. ToDrop(d, body, base) = IF failing = {} THEN {} ELSE {pick}
  BY DEF ToDrop
<1> SUFFICES ASSUME failing # {} PROVE pick \in Symbols \ body.dropped
  BY <1>1
<1>2. /\ base.value \in [Symbols -> Int] /\ base.nav \in Int
  <2>1. IsScenario(Scenarios[1])
    BY ScenariosAre
  <2> QED BY <2>1, ScenarioIs
<1> HIDE DEF base
<1>3. PICK n \in Nat : weights \in [1..n -> [Symbols -> Nat]]
  <2>1. weights \in Seq([Symbols -> Nat])
    BY AllocationAssumption
  <2> HIDE DEF weights
  <2>2. weights \in [1..Len(weights) -> [Symbols -> Nat]] /\ Len(weights) \in Nat
    BY <2>1
  <2> QED BY <2>2, Zenon
<1> HIDE DEF weights
<1>4. failing \subseteq 1..n /\ \A i \in failing : Overlaps(d, body, weights[i]) # {}
  BY <1>3
<1>5. ASSUME NEW i \in 1..n PROVE Distance(base, weights[i]) \in Int
  <2> DEFINE gap == [s \in Symbols |-> 100 * base.value[s] - base.nav * weights[i][s]]
             wide == [s \in Symbols |-> MaxOf(gap[s], -gap[s])]
  <2>1. Distance(base, weights[i]) = Sum(wide, Symbols)
    BY DEF Distance
  <2>2. ASSUME NEW s \in Symbols PROVE gap[s] \in Int
    <3>1. weights[i][s] \in Nat /\ base.value[s] \in Int
      BY <1>2, <1>3
    <3>2. base.nav * weights[i][s] \in Int
      BY <1>2, <3>1
    <3> QED BY <3>1, <3>2
  <2> HIDE DEF gap
  <2>3. \A s \in Symbols : wide[s] \in Int
    BY <2>2 DEF MaxOf
  <2> HIDE DEF wide
  <2>4. Numbers(wide, Symbols)
    BY <2>3 DEF Numbers
  <2> QED BY <2>1, <2>4, DataAre, SumSteps
<1> HIDE DEF failing
<1>6. closest \in failing
  <2>1. IsFiniteSet(1..n)
    <3>1. 1 \in Int /\ n \in Int
      OBVIOUS
    <3> QED BY <3>1, FS_Interval, Zenon
  <2>2. IsFiniteSet(failing)
    BY <1>4, <2>1, FS_Subset
  <2>3. Keyed(failing, keys)
    <3> SUFFICES ASSUME NEW i \in failing PROVE keys[i] \in Int
      BY DEF Keyed
    <3>1. i \in 1..n /\ Distance(base, weights[i]) \in Int
      BY <1>4, <1>5
    <3> QED BY <3>1
  <2> HIDE DEF keys
  <2> QED BY <2>2, <2>3, KeyExtremes
<1> HIDE DEF closest
<1>7. shared # {} /\ shared \subseteq Symbols \ body.dropped
  BY <1>4, <1>6 DEF Overlaps, Positions
<1> HIDE DEF shared
<1>8. pick \in shared
  <2>1. IsFiniteSet(shared)
    <3>1. shared \subseteq Symbols
      BY <1>7
    <3> QED BY <3>1, DataAre, FS_Subset
  <2>2. Keyed(shared, overlap)
    <3> SUFFICES ASSUME NEW s \in shared PROVE overlap[s] \in Int
      BY DEF Keyed
    <3>1. s \in Symbols /\ s \in Nat
      BY <1>7, DataAre
    <3>2. weights[closest][s] \in Nat /\ base.value[s] \in Int
      BY <1>2, <1>3, <1>4, <1>6, <3>1
    <3>3. base.nav * weights[closest][s] \in Int /\ 100 * base.value[s] \in Int
      BY <1>2, <3>2
    <3>4. PICK z \in Int : z = MinOf(100 * base.value[s], base.nav * weights[closest][s])
      BY <3>3 DEF MinOf
    <3> QED BY <3>1, <3>4
  <2> HIDE DEF overlap
  <2> QED BY <1>7, <2>1, <2>2, KeyExtremes
<1> QED BY <1>7, <1>8

DroppingRule(d, e, x, F) ==
    F = [dropped \in SUBSET Symbols |->
            LET body == WithKept(d, e, x, dropped)
                pick == ToDrop(d, body, Scenario(d, body.orders, Scenarios[1]))
            IN  IF Cardinality(dropped) >= Policy.maxDrops \/ pick = {} THEN body
                ELSE F[dropped \cup pick]]
DroppingOf(d, e, x) == CHOOSE F : DroppingRule(d, e, x, F)

\* What is proposed is what is left when nothing may be dropped any more.
LEMMA ProposeIs ==
    ASSUME NEW d, IsDay(d), NEW e, IsLimits(e), NEW x
    PROVE  Fitted(d, e, x, Propose(d, e, x)) /\ ToKeep(d, e, Propose(d, e, x)) = {}
<1> DEFINE D == SUBSET Symbols
           Body(k) == WithKept(d, e, x, k)
           Pick(k) == ToDrop(d, Body(k), Scenario(d, Body(k).orders, Scenarios[1]))
           Stop(k) == Cardinality(k) >= Policy.maxDrops \/ Pick(k) = {}
           Done == {k \in D : Stop(k)}
           g == [k \in D |-> k \cup Pick(k)]
           h == [k \in D |-> Body(k)]
           m == [k \in D |-> Cardinality(Symbols \ k)]
           X == DroppingOf(d, e, x)
<1>1. Propose(d, e, x) = X[{}]
  BY DEF Propose, DropMore, DroppingOf, DroppingRule
<1>2. ASSUME NEW k \in D
      PROVE  /\ Fitted(d, e, x, Body(k)) /\ ToKeep(d, e, Body(k)) = {} /\ Pick(k) \subseteq Symbols \ k
  <2>1. Fitted(d, e, x, Body(k)) /\ ToKeep(d, e, Body(k)) = {} /\ Body(k).dropped = k
    BY WithKeptIs
  <2>2. Body(k).orders \in OrderSet
    BY <2>1 DEF Fitted, Light
  <2>3. Pick(k) \subseteq Symbols \ Body(k).dropped
    BY <2>2, ToDropIs
  <2> QED BY <2>1, <2>3
<1>3. \A F : DroppingRule(d, e, x, F) <=>
                F = [k \in D |-> IF Stop(k) THEN Body(k) ELSE F[k \cup Pick(k)]]
  BY DEF DroppingRule
<1> HIDE DEF Body, Pick, X
<1>4. /\ \A k \in D : g[k] = k \cup Pick(k) /\ g[k] \in D /\ h[k] = Body(k)
      /\ \A k \in D : k \in Done <=> Stop(k)
      /\ \A k \in D : k \notin Done => Pick(k) # {}
  BY <1>2
<1> HIDE DEF Stop
<1>5. ASSUME NEW k \in D PROVE m[k] \in Nat /\ (k \notin Done => m[g[k]] < m[k])
  <2>1. m[k] = Cardinality(Symbols \ k) /\ m[g[k]] = Cardinality(Symbols \ g[k])
    BY <1>4
  <2>2. IsFiniteSet(Symbols \ k) /\ IsFiniteSet(Symbols \ g[k]) /\ Symbols \ g[k] \subseteq Symbols \ k
    BY <1>4, DataAre, FS_Subset
  <2>3. Cardinality(Symbols \ k) \in Nat /\ Cardinality(Symbols \ g[k]) \in Nat
    BY <2>2, FS_CardinalityType
  <2>4. k \notin Done => Symbols \ g[k] # Symbols \ k
    BY <1>2, <1>4
  <2>5. Cardinality(Symbols \ g[k]) <= Cardinality(Symbols \ k)
        /\ (Cardinality(Symbols \ g[k]) = Cardinality(Symbols \ k) => Symbols \ g[k] = Symbols \ k)
    BY <2>2, FS_Subset
  <2> QED BY <2>1, <2>3, <2>4, <2>5
<1>6. g \in [D -> D] /\ m \in [D -> Nat]
  BY <1>4, <1>5
<1> HIDE DEF g, h, m, Done
<1>7. Falls(D, Done, g, m)
  BY <1>5, <1>6 DEF Falls
<1>8. PICK f : LoopOf(f, D, Done, g, h)
  BY <1>7, LoopExists
<1>9. f = [k \in D |-> IF Stop(k) THEN Body(k) ELSE f[k \cup Pick(k)]]
  BY <1>4, <1>8 DEF LoopOf
<1>10. DroppingRule(d, e, x, X)
  <2>1. DroppingRule(d, e, x, f)
    BY <1>3, <1>9
  <2> QED BY <2>1, Zenon DEF X, DroppingOf
<1>11. X = [k \in D |-> IF Stop(k) THEN Body(k) ELSE X[k \cup Pick(k)]]
  BY <1>3, <1>10
<1>12. LoopOf(X, D, Done, g, h)
  <2>1. X = [k \in D |-> IF k \in Done THEN h[k] ELSE X[g[k]]]
    BY <1>4, <1>11
  <2> QED BY <2>1 DEF LoopOf
<1>13. PICK k \in D : k \in Done /\ X[{}] = h[k]
  <2>1. {} \in D /\ D \in SUBSET D /\ \A j \in D : j \notin Done => g[j] \in D
    BY <1>4
  <2> HIDE DEF D
  <2>2. \E k \in D : k \in Done /\ X[{}] = h[k]
    BY <1>7, <1>12, <2>1, LoopKeeps
  <2> QED BY <2>2
<1>14. Propose(d, e, x) = Body(k)
  BY <1>1, <1>4, <1>13
<1> QED BY <1>2, <1>14

(***************************************************************************)
(* The reviews.                                                            *)
(***************************************************************************)
Limits == [buffer : Nat, stock : Nat, turnover : Nat]

\* The inductive invariant: whatever is proposed was fitted to the limits that
\* are in force while it is reviewed, with no exit left to keep back.
ReviewInv ==
    /\ day \in Days /\ limits \in Limits
    /\ Proposed => /\ Fitted(day, limits, excluded, proposal)
                   /\ ToKeep(day, limits, proposal) = {}

LEMMA DaysAre == \A d \in Days : IsDay(d)
  BY ReviewAssumption DEF IsDay

LEMMA LimitsAre == \A e \in Limits : IsLimits(e)
  BY DEF Limits, IsLimits

\* What a review may do tightens, if it does not loosen what it did before.
TighterThan(e, f) == f.buffer <= e.buffer /\ e.stock <= f.stock /\ e.turnover <= f.turnover

LEMMA ActionIs ==
    ASSUME NEW w, w.limits \in Limits, NEW a \in ValidActions
    PROVE  /\ Effect(w, a).limits \in Limits /\ w.excluded \subseteq Effect(w, a).excluded
           /\ w.limits = limits => TighterThan(Effect(w, a).limits, limits)
<1>1. Tighter.buffer \subseteq Nat /\ Tighter.stock \subseteq Nat /\ Tighter.turnover \subseteq Nat
  BY ReviewAssumption
<1>2. /\ Effect(w, a).limits = [k \in DOMAIN w.limits |-> IF a.type = k THEN a.arg ELSE w.limits[k]]
      /\ w.excluded \subseteq Effect(w, a).excluded
  BY DEF Effect
<1>3. PICK l \in Limits : l = w.limits
  OBVIOUS
<1>4. /\ l.buffer \in Nat /\ l.stock \in Nat /\ l.turnover \in Nat
      /\ DOMAIN l = {"buffer", "stock", "turnover"}
  BY DEF Limits
<1>5. \/ a.type = "remove"
      \/ a.type = "buffer" /\ a.arg \in Nat /\ limits.buffer <= a.arg
      \/ a.type = "stock" /\ a.arg \in Nat /\ a.arg <= limits.stock
      \/ a.type = "turnover" /\ a.arg \in Nat /\ a.arg <= limits.turnover
  BY <1>1 DEF ValidActions
<1> DEFINE buffer == IF a.type = "buffer" THEN a.arg ELSE l.buffer
           stock == IF a.type = "stock" THEN a.arg ELSE l.stock
           turnover == IF a.type = "turnover" THEN a.arg ELSE l.turnover
<1>6. Effect(w, a).limits = [buffer |-> buffer, stock |-> stock, turnover |-> turnover]
  BY <1>2, <1>3, <1>4
<1>7. buffer \in Nat /\ stock \in Nat /\ turnover \in Nat
  BY <1>4, <1>5
<1>8. w.limits = limits => buffer >= limits.buffer /\ stock <= limits.stock /\ turnover <= limits.turnover
  BY <1>3, <1>4, <1>5
<1> HIDE DEF buffer, stock, turnover
<1>9. Effect(w, a).limits \in Limits
  BY <1>6, <1>7 DEF Limits
<1>10. w.limits = limits => TighterThan(Effect(w, a).limits, limits)
  <2> SUFFICES ASSUME w.limits = limits PROVE TighterThan(Effect(w, a).limits, limits)
    OBVIOUS
  <2>1. limits.buffer \in Nat /\ limits.buffer <= buffer /\ stock <= limits.stock
        /\ turnover <= limits.turnover
    BY <1>3, <1>4, <1>7, <1>8
  <2> QED BY <1>6, <2>1 DEF TighterThan
<1> QED BY <1>2, <1>9, <1>10

\* A revision ends the chain or proposes again within tighter limits.
LEMMA ReviseIs ==
    ASSUME limits \in Limits, Revise
    PROVE  /\ day' = day /\ limits' \in Limits
           /\ excluded \subseteq excluded' /\ TighterThan(limits', limits)
           /\ (proposal' = proposal /\ limits' = limits /\ excluded' = excluded) \/ proposal' = Nothing
<1>1. PICK a \in ValidActions, b \in ValidActions :
        LET first == Effect([limits |-> limits, excluded |-> excluded], a)
            both == Effect(first, b)
        IN  IF Loosens(first.limits, both.limits) THEN End("failed")
            ELSE /\ limits' = both.limits /\ excluded' = both.excluded
                 /\ proposal' = Nothing
                 /\ revision' = revision + 1
                 /\ UNCHANGED <<day, decision>>
  BY DEF Revise
<1> DEFINE now == [limits |-> limits, excluded |-> excluded]
           first == Effect(now, a)
           both == Effect(first, b)
<1>2. /\ now.limits = limits /\ now.excluded = excluded
  OBVIOUS
<1>3. /\ limits.buffer \in Nat /\ limits.stock \in Nat /\ limits.turnover \in Nat
  BY DEF Limits
<1>4. CASE End("failed")
  <2>1. UNCHANGED <<day, limits, excluded, proposal>>
    BY <1>4 DEF End
  <2>2. TighterThan(limits, limits)
    BY <1>3 DEF TighterThan
  <2> QED BY <2>1, <2>2
<1>5. CASE ~Loosens(first.limits, both.limits) /\ limits' = both.limits /\ excluded' = both.excluded
           /\ proposal' = Nothing /\ UNCHANGED <<day, decision>>
  <2> HIDE DEF now
  <2>1. /\ first.limits \in Limits /\ excluded \subseteq first.excluded
        /\ TighterThan(first.limits, limits)
    BY <1>2, ActionIs
  <2> HIDE DEF first
  <2>2. both.limits \in Limits /\ first.excluded \subseteq both.excluded
    BY <2>1, ActionIs
  <2> HIDE DEF both
  <2>3. /\ first.limits.buffer \in Nat /\ first.limits.stock \in Nat /\ first.limits.turnover \in Nat
        /\ both.limits.buffer \in Nat /\ both.limits.stock \in Nat /\ both.limits.turnover \in Nat
    BY <2>1, <2>2 DEF Limits
  <2>4. TighterThan(both.limits, limits)
    BY <1>3, <1>5, <2>1, <2>3 DEF TighterThan, Loosens
  <2> QED BY <1>5, <2>1, <2>2, <2>4
<1> QED BY <1>1, <1>4, <1>5

(***************************************************************************)
(* The theorems.                                                           *)
(***************************************************************************)
LEMMA ReviewStarts ==
    ASSUME Init
    PROVE  ReviewInv
<1>1. limits = [buffer |-> day.buffer, stock |-> Policy.maxStock, turnover |-> Policy.maxTurnover]
      /\ day \in Days /\ proposal = Nothing
  BY DEF Init
<1>2. day.buffer \in Nat /\ Policy.maxStock \in Nat /\ Policy.maxTurnover \in Nat
  BY <1>1, DaysAre, PolicyNumbers DEF IsDay
<1>3. limits \in Limits
  BY <1>1, <1>2 DEF Limits
<1> QED BY <1>1, <1>3 DEF ReviewInv, Proposed

LEMMA ReviewGoesOn ==
    ASSUME ReviewInv, [Next]_vars
    PROVE  ReviewInv'
<1>1. day \in Days /\ limits \in Limits /\ IsDay(day) /\ IsLimits(limits)
  BY DaysAre, LimitsAre DEF ReviewInv
<1>2. ASSUME UNCHANGED <<day, limits, excluded, proposal>> PROVE ReviewInv'
  BY <1>2 DEF ReviewInv, Proposed
<1>3. CASE RunEngine
  <2>1. proposal' = Propose(day, limits, excluded) /\ UNCHANGED <<day, limits, excluded>>
    BY <1>3 DEF RunEngine
  <2>2. Fitted(day, limits, excluded, proposal') /\ ToKeep(day, limits, proposal') = {}
    BY <1>1, <2>1, ProposeIs
  <2> QED BY <1>1, <2>1, <2>2 DEF ReviewInv
<1>4. CASE Refuse \/ Approve \/ Reject \/ Unanswered
  <2>1. UNCHANGED <<day, limits, excluded, proposal>>
    BY <1>4 DEF Refuse, Approve, Reject, Unanswered, End
  <2> QED BY <1>2, <2>1
<1>5. CASE Revise
  <2>1. /\ day' = day /\ limits' \in Limits
        /\ (proposal' = proposal /\ limits' = limits /\ excluded' = excluded) \/ proposal' = Nothing
    BY <1>1, <1>5, ReviseIs
  <2>2. CASE proposal' = Nothing
    BY <1>1, <2>1, <2>2 DEF ReviewInv, Proposed
  <2>3. CASE proposal' = proposal /\ limits' = limits /\ excluded' = excluded
    BY <1>2, <2>1, <2>3
  <2> QED BY <2>1, <2>2, <2>3
<1>6. CASE UNCHANGED vars
  BY <1>2, <1>6 DEF vars
<1> QED BY <1>3, <1>4, <1>5, <1>6 DEF Next

\* Whatever is proposed was fitted to the limits in force while it is reviewed,
\* and no exit that would help is left to keep back (run of allocation.py,
\* _decide of daily_pipeline.py).
THEOREM ReviewInvariant == Spec => []ReviewInv
<1>1. Init => ReviewInv
  BY ReviewStarts
<1>2. ReviewInv /\ [Next]_vars => ReviewInv'
  BY ReviewGoesOn
<1> QED BY <1>1, <1>2, PTL DEF Spec

\* However many reviews there were, what was proposed pays for a gap at the
\* open and leaves the floor (buy_gap_reserve of allocation.py): fitting the
\* orders to the stocks, the sectors and the turnover afterwards never loses
\* what fitting them to the cash had gained.
THEOREM GapStaysPayable == Spec => []GapIsPayable
<1>1. ASSUME ReviewInv PROVE GapIsPayable
  <2> SUFFICES ASSUME Proposed, Bought(Orders) # {}
               PROVE  100 * (day.settled + Impacts(Orders, 1))
                          + Policy.reserve * Sum([s \in Symbols |-> Impact(s, Orders[s], 1)], Bought(Orders))
                        >= CashFloor(day, limits, proposal.derisked # {})
    BY DEF GapIsPayable
  <2>1. Payable(day, CashFloor(day, limits, proposal.derisked # {}), Orders)
    BY <1>1 DEF ReviewInv, Fitted, Orders
  <2> QED BY <2>1 DEF Payable
<1> QED BY <1>1, ReviewInvariant, PTL

\* Every proposal keeps what the reviews left of the limits: no stock is above
\* its limit in any scenario, and the turnover is exceeded only when nothing is
\* bought and no exit may be kept back (_fit_stock_weights, _fit_turnover).
THEOREM ReviewsAreKept == Spec => []WithinReviews
<1>1. ASSUME ReviewInv PROVE WithinReviews
  <2> SUFFICES ASSUME Proposed
               PROVE  /\ \A s \in Positions(day, Orders) : ~Overweight(day, limits, Orders, s)
                      /\ 100 * Traded(Orders) > Nav(day) * limits.turnover =>
                             Bought(Orders) = {} /\ Keepable(day, proposal) = {}
    BY DEF WithinReviews
  <2>1. IsDay(day) /\ IsLimits(limits)
    BY <1>1, DaysAre, LimitsAre DEF ReviewInv
  <2>2. /\ Orders \in Light(day, limits) /\ ToKeep(day, limits, proposal) = {}
        /\ 100 * Traded(Orders) - Nav(day) * limits.turnover <= 0 \/ Bought(Orders) = {}
    BY <1>1 DEF ReviewInv, Fitted, Orders
  <2>3. Orders \in OrderSet /\ \A s \in Positions(day, Orders) : ~Overweight(day, limits, Orders, s)
    BY <2>2 DEF Light
  <2>4. ASSUME 100 * Traded(Orders) > Nav(day) * limits.turnover
        PROVE  Bought(Orders) = {} /\ Keepable(day, proposal) = {}
    <3>1. Keepable(day, proposal) = {}
      BY <2>1, <2>2, <2>4, ToKeepIs DEF Orders
    <3>2. PICK x \in Int, y \in Int : x = Traded(Orders) /\ y = Nav(day) * limits.turnover
      <4>1. Traded(Orders) \in Int
        BY <2>3, TradedIs
      <4>2. Nav(day) \in Int
        BY <2>1, NavIs
      <4>3. PICK z \in Int, t \in Int : z = Nav(day) /\ t = limits.turnover
        BY <2>1, <4>2 DEF IsLimits
      <4>4. z * t \in Int
        OBVIOUS
      <4> QED BY <4>1, <4>3, <4>4
    <3>3. ~(100 * x - y <= 0)
      BY <2>4, <3>2
    <3> QED BY <2>2, <3>1, <3>2, <3>3
  <2> QED BY <2>3, <2>4
<1> QED BY <1>1, ReviewInvariant, PTL

\* No day starts with more stocks than there may be.  No proposal ends with more
\* (PositionsStayFew), so only a lower limit in a new policy, or a sale that was
\* not filled, can make it false.
HoldingsFit == \A d \in Days : Cardinality(Held(d)) <= Policy.maxPositions

\* On such days no stock is swapped out for nothing: what _forced_swap_victims
\* foresees of the slots, before anything is taken out, is what
\* _conviction_targets then gives, whatever the ranks, the breadth and the
\* exits of the day are, and however often exits are kept back or candidates
\* dropped and everything is computed again.
THEOREM SwapsHaveSlots ==
    ASSUME HoldingsFit
    PROVE  Spec => []SwapHasSlot
<1>1. ASSUME ReviewInv PROVE SwapHasSlot
  <2> SUFFICES ASSUME Proposed
               PROVE  Cardinality(proposal.victims)
                          <= Cardinality({s \in proposal.eligible : day.held[s] = 0})
    BY DEF SwapHasSlot
  <2>1. Housed(day, proposal)
    BY <1>1 DEF ReviewInv, Fitted
  <2>2. Cardinality(Held(day)) <= Policy.maxPositions
    BY <1>1 DEF ReviewInv, HoldingsFit
  <2> QED BY <2>1, <2>2 DEF Housed
<1> QED BY <1>1, ReviewInvariant, PTL

\* Nor does a proposal end with more stocks than there may be: what is held on,
\* what cannot be traded, the exits that are kept back and the new stocks never
\* add up to more (_conviction_targets of allocation.py).  So the next day starts
\* with no more either, if what was ordered is filled.
THEOREM PositionsStayFew ==
    ASSUME HoldingsFit
    PROVE  Spec => [](Proposed => Cardinality(Positions(day, Orders)) <= Policy.maxPositions)
<1>1. ASSUME ReviewInv
      PROVE  Proposed => Cardinality(Positions(day, Orders)) <= Policy.maxPositions
  <2> SUFFICES ASSUME Proposed PROVE Cardinality(Positions(day, Orders)) <= Policy.maxPositions
    OBVIOUS
  <2>1. Roomy(day, proposal)
    BY <1>1 DEF ReviewInv, Fitted
  <2>2. Cardinality(Held(day)) <= Policy.maxPositions
    BY <1>1 DEF ReviewInv, HoldingsFit
  <2> QED BY <2>1, <2>2 DEF Roomy, Orders
<1> QED BY <1>1, ReviewInvariant, PTL

\* Revisions only tighten: what one took out is never bought again and what it
\* lowered stays low, whatever the two actions of each review are and whatever
\* the engine proposes next (revision_effects, tighten of risk.py).
THEOREM ReviewsTighten == Spec => OnlyTighter
<1>1. ASSUME ReviewInv, ReviewInv', [Next]_vars
      PROVE  [/\ excluded \subseteq excluded'
              /\ limits.buffer <= limits'.buffer /\ limits'.stock <= limits.stock
              /\ limits'.turnover <= limits.turnover
              /\ proposal' # Nothing => Bought(proposal'.orders) \cap excluded' = {}]_vars
  <2>1. excluded \subseteq excluded' /\ TighterThan(limits', limits)
    <3>1. limits \in Limits
      BY <1>1 DEF ReviewInv
    <3>2. limits.buffer \in Nat /\ limits.stock \in Nat /\ limits.turnover \in Nat
      BY <3>1 DEF Limits
    <3>3. TighterThan(limits, limits)
      BY <3>2 DEF TighterThan
    <3>4. CASE Revise
      BY <3>1, <3>4, ReviseIs
    <3>5. CASE UNCHANGED <<limits, excluded>>
      BY <3>3, <3>5
    <3>6. Revise \/ UNCHANGED <<limits, excluded>>
      BY <1>1 DEF Next, RunEngine, Refuse, Approve, Reject, Unanswered, End, vars
    <3> QED BY <3>4, <3>5, <3>6
  <2>2. ASSUME proposal' # Nothing PROVE Bought(proposal'.orders) \cap excluded' = {}
    <3>1. Fitted(day, limits, excluded, proposal)'
      BY <1>1, <2>2 DEF ReviewInv, Proposed
    <3>2. Bought(proposal'.orders) \subseteq Symbols \ excluded'
      BY <3>1 DEF Fitted
    <3> QED BY <3>2
  <2> QED BY <2>1, <2>2 DEF TighterThan
<1> QED BY <1>1, ReviewInvariant, PTL DEF Spec, OnlyTighter
=============================================================================
