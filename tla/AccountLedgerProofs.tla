------------------------- MODULE AccountLedgerProofs -------------------------
(***************************************************************************)
(* Proofs about AccountLedger: for any symbols, prices, quotes, orders,    *)
(* reports, fees and number of days, every saved state can be loaded       *)
(* again, the ledger books whatever the simulator fills, both have the     *)
(* same money left, a batch that may be voided is filled whole or not at   *)
(* all, and a session costs its fees and nothing else.                     *)
(*                                                                         *)
(* The operations are folds, the loops of the code.  What a loop keeps is  *)
(* shown by counting up its rounds (CountingUp, from the well-foundedness  *)
(* of the naturals): FoldExists names the sequence of values a fold goes   *)
(* through, FoldLoops says that what each round keeps, the fold keeps.     *)
(* Each loop then has a lemma that makes it a loop (...Fold) and one that  *)
(* says what it does (ReleasedIs, OffsetIs, FillsBooked, SideExecuted,     *)
(* ActionsBooked).                                                         *)
(***************************************************************************)
EXTENDS AccountLedger, NaturalsInduction, WellFoundedInduction, TLAPS

-----------------------------------------------------------------------------
(* Counting up, and folds.                                                 *)

\* What holds of zero, and of a number when it holds of the one before, holds
\* of all of them.
LEMMA CountingUp ==
    ASSUME NEW n \in Nat, NEW T, 0 \in T, \A k \in 1..n : k - 1 \in T => k \in T
    PROVE  \A k \in 0..n : k \in T
<1> DEFINE Missing == {k \in 0..n : k \notin T}
<1> SUFFICES ASSUME Missing # {} PROVE FALSE
  OBVIOUS
<1>1. Missing \subseteq Nat
  OBVIOUS
<1> HIDE DEF Missing
<1>2. PICK x \in Missing : \A y \in Missing : <<y, x>> \notin OpToRel(<, Nat)
  BY <1>1, NatLessThanWellFounded, WFMin, Zenon
<1>3. \A y \in Missing : ~(y < x)
  BY <1>1, <1>2 DEF OpToRel
<1>4. x - 1 \notin Missing
  BY <1>1, <1>3
<1> QED BY <1>4 DEF Missing

\* The largest of some numbers.
LEMMA MaxOfSome ==
    ASSUME NEW n \in Nat, NEW S \in SUBSET (0..n), S # {}
    PROVE  Max(S) \in S /\ \A y \in S : Max(S) >= y
<1> DEFINE T == {k \in Nat : S \cap (0..k) = {} \/
                     \E x \in S \cap (0..k) : \A y \in S \cap (0..k) : x >= y}
<1>1. 0 \in T
  OBVIOUS
<1>2. ASSUME NEW k \in 1..n, k - 1 \in T PROVE k \in T
  <2>1. S \cap (0..k) = IF k \in S THEN (S \cap (0..(k - 1))) \cup {k} ELSE S \cap (0..(k - 1))
    OBVIOUS
  <2>2. CASE k \in S
    BY <2>1, <2>2
  <2>3. CASE k \notin S
    BY <2>1, <2>3, <1>2
  <2> QED BY <2>2, <2>3
<1>3. n \in T
  <2> HIDE DEF T
  <2> QED BY <1>1, <1>2, CountingUp
<1>4. S \cap (0..n) = S
  OBVIOUS
<1>5. \E x \in S : \A y \in S : x >= y
  BY <1>3, <1>4
<1> QED BY <1>5 DEF Max

LEMMA MaxOfRange ==
    ASSUME NEW k \in Nat \ {0}
    PROVE  Max(1..k) = k
<1>1. Max(1..k) \in 1..k /\ \A y \in 1..k : Max(1..k) >= y
  BY MaxOfSome, 1..k \in SUBSET (0..k), k \in 1..k
<1> QED BY <1>1, k \in 1..k

\* A fold of the library is a function of the subsets of the index range; there
\* is one.  G gives the step: of an index and a value so far, the next value.
FoldOf(f, base, n, G) ==
    f = [s \in SUBSET (1..n) |->
            IF s = {} THEN base ELSE G[<<Max(s), f[s \ {Max(s)}]>>]]

LEMMA FoldExists ==
    ASSUME NEW A, NEW base \in A, NEW n \in Nat, NEW G \in [(1..n) \X A -> A]
    PROVE  \E f \in [SUBSET (1..n) -> A] : FoldOf(f, base, n, G)
<1> DEFINE Good(m, f) == \A s \in SUBSET (1..m) :
                f[s] = IF s = {} THEN base ELSE G[<<Max(s), f[s \ {Max(s)}]>>]
           T == {m \in 0..n : \E f \in [SUBSET (1..m) -> A] : Good(m, f)}
<1>1. 0 \in T
  <2>1. [s \in SUBSET (1..0) |-> base] \in [SUBSET (1..0) -> A]
    OBVIOUS
  <2>2. \A s \in SUBSET (1..0) : s = {}
    OBVIOUS
  <2>3. Good(0, [s \in SUBSET (1..0) |-> base])
    BY <2>2
  <2>4. \E f \in [SUBSET (1..0) -> A] : Good(0, f)
    BY <2>1, <2>3, Zenon
  <2>5. 0 \in 0..n
    OBVIOUS
  <2> HIDE DEF Good
  <2> QED BY <2>4, <2>5
<1>2. ASSUME NEW m \in 1..n, m - 1 \in T PROVE m \in T
  <2>1. PICK f \in [SUBSET (1..(m - 1)) -> A] : Good(m - 1, f)
    BY <1>2
  <2> DEFINE g == [s \in SUBSET (1..m) |->
                      IF m \in s THEN G[<<m, f[s \ {m}]>>] ELSE f[s]]
  <2>2. ASSUME NEW s \in SUBSET (1..m)
        PROVE  /\ m \in s => s \ {m} \in SUBSET (1..(m - 1))
               /\ m \notin s => s \in SUBSET (1..(m - 1))
    OBVIOUS
  <2>3. g \in [SUBSET (1..m) -> A]
    <3>1. ASSUME NEW s \in SUBSET (1..m) PROVE g[s] \in A
      <4>1. CASE m \in s
        <5>1. f[s \ {m}] \in A
          BY <2>1, <2>2, <4>1
        <5>2. G[<<m, f[s \ {m}]>>] \in A
          BY <5>1
        <5> QED BY <4>1, <5>2
      <4>2. CASE m \notin s
        BY <2>1, <2>2, <4>2
      <4> QED BY <4>1, <4>2
    <3> QED BY <3>1
  <2>4. Good(m, g)
    <3> SUFFICES ASSUME NEW s \in SUBSET (1..m)
                 PROVE  g[s] = IF s = {} THEN base ELSE G[<<Max(s), g[s \ {Max(s)}]>>]
      OBVIOUS
    <3>1. CASE m \in s
      <4>1. Max(s) = m
        <5>1. s \in SUBSET (0..n) /\ s # {}
          BY <3>1
        <5>2. Max(s) \in s /\ \A y \in s : Max(s) >= y
          BY <5>1, MaxOfSome
        <5>3. Max(s) \in 1..m /\ Max(s) >= m
          BY <5>2, <3>1
        <5> QED BY <5>3
      <4>2. g[s \ {m}] = f[s \ {m}]
        OBVIOUS
      <4> QED BY <3>1, <4>1, <4>2
    <3>2. CASE m \notin s
      <4>1. s \in SUBSET (1..(m - 1)) /\ g[s] = f[s]
        BY <3>2, <2>2
      <4>2. CASE s # {}
        <5>1. s \ {Max(s)} \in SUBSET (1..m) /\ m \notin s \ {Max(s)}
          BY <3>2
        <5>2. g[s \ {Max(s)}] = f[s \ {Max(s)}]
          BY <5>1
        <5> QED BY <4>1, <4>2, <5>2, <2>1
      <4> QED BY <4>1, <4>2, <2>1
    <3> QED BY <3>1, <3>2
  <2>5. \E h \in [SUBSET (1..m) -> A] : Good(m, h)
    <3> HIDE DEF g
    <3> QED BY <2>3, <2>4, Zenon
  <2>6. m \in 0..n
    OBVIOUS
  <2> HIDE DEF Good
  <2> QED BY <2>5, <2>6
<1>3. n \in T
  <2> HIDE DEF T
  <2> QED BY <1>1, <1>2, CountingUp
<1>4. PICK f \in [SUBSET (1..n) -> A] : Good(n, f)
  BY <1>3
<1>5. f = [s \in SUBSET (1..n) |-> IF s = {} THEN base ELSE G[<<Max(s), f[s \ {Max(s)}]>>]]
  BY <1>4
<1> QED BY <1>5 DEF FoldOf

\* Once values of A are folded by G, the values on the ranges from 1 on are those
\* a loop goes through.
StepsBy(f, A, base, n, G) ==
    /\ n \in Nat /\ base \in A /\ G \in [(1..n) \X A -> A] /\ f[{}] = base
    /\ \A s \in SUBSET (1..n) :
        s # {} /\ f[s \ {Max(s)}] \in A => f[s] = G[<<Max(s), f[s \ {Max(s)}]>>]
Loops(A, base, n, G, result) ==
    \E F \in [0..n -> A] :
        F[0] = base /\ F[n] = result /\ \A k \in 1..n : F[k] = G[<<k, F[k - 1]>>]

LEMMA FoldLoops ==
    ASSUME NEW f, NEW A, NEW base, NEW n, NEW G, StepsBy(f, A, base, n, G)
    PROVE  Loops(A, base, n, G, f[1..n])
<1> USE DEF StepsBy
<1> DEFINE T == {k \in 0..n : f[1..k] \in A}
           F == [k \in 0..n |-> f[1..k]]
<1>1. 0 \in T /\ f[1..0] = base
  <2>1. 1..0 = {}
    OBVIOUS
  <2> QED BY <2>1
<1>2. ASSUME NEW k \in 1..n, f[1..(k - 1)] \in A
      PROVE  f[1..k] = G[<<k, f[1..(k - 1)]>>] /\ f[1..k] \in A
  <2>1. (1..k) \ {k} = 1..(k - 1) /\ 1..k \in SUBSET (1..n) /\ 1..k # {}
    OBVIOUS
  <2>2. Max(1..k) = k
    BY MaxOfRange
  <2>3. f[1..k] = G[<<k, f[1..(k - 1)]>>]
    BY <1>2, <2>1, <2>2 
  <2>4. <<k, f[1..(k - 1)]>> \in (1..n) \X A
    BY <1>2
  <2> QED BY <2>3, <2>4
<1>3. \A k \in 0..n : k \in T
  <2>1. ASSUME NEW k \in 1..n, k - 1 \in T PROVE k \in T
    <3>1. f[1..(k - 1)] \in A
      BY <2>1
    <3>2. f[1..k] \in A
      BY <1>2, <3>1
    <3> QED BY <3>2
  <2> HIDE DEF T
  <2> QED BY <1>1, <2>1, CountingUp
<1>4. F \in [0..n -> A]
  BY <1>3
<1>5. ASSUME NEW k \in 1..n PROVE F[k] = G[<<k, F[k - 1]>>]
  <2>1. k - 1 \in 0..n /\ f[1..(k - 1)] \in A
    BY <1>3
  <2> QED BY <1>2, <2>1
<1>6. F[0] = base /\ F[n] = f[1..n]
  BY <1>1
<1> HIDE DEF F
<1> QED BY <1>4, <1>5, <1>6 DEF Loops

-----------------------------------------------------------------------------
(* Money: whole coins, and the fees.                                       *)

Money == {x \in Nat : Whole(x)}

LEMMA CoinType == Coin \in Nat \ {0}
BY LedgerAssumption

\* What \div and % are.
LEMMA Quotient ==
    ASSUME NEW x \in Int, NEW d \in Nat \ {0}, NEW q \in Int, NEW r \in 0..(d - 1)
    PROVE  x = d * q + r <=> q = x \div d /\ r = x % d
<1>1. ASSUME x = d * q + r PROVE q = x \div d /\ r = x % d
  <2>1. x \div d = q
    BY <1>1, SMTT(60)
  <2>2. x % d = r
    BY <1>1, SMTT(60)
  <2> QED BY <2>1, <2>2
<1>2. ASSUME q = x \div d, r = x % d PROVE x = d * q + r
  BY <1>2, SMTT(60)
<1> QED BY <1>1, <1>2

LEMMA MoneyMultiple ==
    ASSUME NEW x \in Money
    PROVE  x \in Nat /\ \E q \in Int : x = Coin * q
<1>1. x \in Nat /\ x % Coin = 0
  BY DEF Money, Whole
<1>2. PICK q \in Int : q = x \div Coin
  BY <1>1, CoinType
<1>3. x = Coin * q + 0
  BY <1>1, <1>2, CoinType, Quotient, 0 \in 0..(Coin - 1)
<1> QED BY <1>1, <1>3, CoinType

LEMMA MultipleMoney ==
    ASSUME NEW q \in Int, Coin * q \in Nat
    PROVE  Coin * q \in Money
<1>1. PICK x \in Nat : x = Coin * q
  OBVIOUS
<1>2. x = Coin * q + 0
  BY <1>1
<1>3. x % Coin = 0
  BY <1>2, CoinType, Quotient, 0 \in 0..(Coin - 1)
<1> QED BY <1>1, <1>3 DEF Money, Whole

LEMMA MoneyZero == 0 \in Money
BY MultipleMoney, CoinType, Coin * 0 = 0

LEMMA MoneyAdds ==
    ASSUME NEW x \in Money, NEW y \in Money
    PROVE  x + y \in Money /\ (y <= x => x - y \in Money)
<1>1. PICK p \in Int, q \in Int : x = Coin * p /\ y = Coin * q
  BY MoneyMultiple
<1>2. x + y = Coin * (p + q) /\ x - y = Coin * (p - q)
  BY <1>1, CoinType
<1>3. x \in Nat /\ y \in Nat /\ p + q \in Int /\ p - q \in Int
  BY MoneyMultiple
<1>4. x + y \in Nat /\ (y <= x => x - y \in Nat)
  BY <1>3
<1> QED BY <1>2, <1>3, <1>4, MultipleMoney

LEMMA MoneyTimes ==
    ASSUME NEW x \in Money, NEW n \in Nat
    PROVE  n * x \in Money
<1>1. PICK p \in Int : x = Coin * p
  BY MoneyMultiple
<1>2. n * x = Coin * (n * p)
  BY <1>1, CoinType
<1>3. n * x \in Nat
  BY MoneyMultiple
<1> QED BY <1>2, <1>3, MultipleMoney, n * p \in Int

\* Whole coins are published as they are.
LEMMA MoneyRounded ==
    ASSUME NEW x \in Money
    PROVE  Rounded(x) = x
<1>1. PICK q \in Int : x = Coin * q
  BY MoneyMultiple
<1>2. PICK h \in 0..(Coin - 1) : h = Coin \div 2
  BY CoinType
<1>3. q = (x + h) \div Coin
  <2>1. PICK y \in Int : y = x + h
    BY MoneyMultiple
  <2>2. y = Coin * q + h
    BY <2>1, <1>1
  <2>3. q = y \div Coin
    BY <2>2, CoinType, Quotient
  <2> QED BY <2>1, <2>3
<1>4. Rounded(x) = q * Coin
  BY <1>2, <1>3 DEF Rounded
<1> QED BY <1>1, <1>4, CoinType

\* Rounding up: the least number that is enough.
LEMMA UpLeast ==
    ASSUME NEW x \in Nat, NEW y \in Nat \ {0}
    PROVE  Up(x, y) \in Nat /\ y * Up(x, y) >= x /\ \A n \in Nat : y * n >= x => Up(x, y) <= n
<1>1. PICK q \in Int : q = (x + y - 1) \div y
  OBVIOUS
<1>2. PICK r \in 0..(y - 1) : r = (x + y - 1) % y
  OBVIOUS
<1>3. x + y - 1 = y * q + r
  BY <1>1, <1>2, Quotient, x + y - 1 \in Int
<1>4. PICK p \in Int : p = y * q /\ p >= x /\ p < x + y
  BY <1>3
<1>5. q >= 0
  <2> SUFFICES ASSUME q <= -1 PROVE FALSE
    OBVIOUS
  <2>1. y * q <= y * (-1)
    OBVIOUS
  <2> QED BY <2>1, <1>4
<1>6. ASSUME NEW n \in Nat, y * n >= x PROVE q <= n
  <2> SUFFICES ASSUME q >= n + 1 PROVE FALSE
    OBVIOUS
  <2>1. y * q >= y * (n + 1)
    OBVIOUS
  <2>2. y * (n + 1) = y * n + y
    OBVIOUS
  <2> QED BY <2>1, <2>2, <1>4, <1>6
<1> QED BY <1>1, <1>4, <1>5, <1>6 DEF Up

LEMMA MaxOfTwo ==
    ASSUME NEW x \in Int, NEW y \in Int
    PROVE  Max({x, y}) = IF x >= y THEN x ELSE y
<1>1. \E z \in {x, y} : \A w \in {x, y} : z >= w
  OBVIOUS
<1> QED BY <1>1 DEF Max

LEMMA MinOfTwo ==
    ASSUME NEW x \in Int, NEW y \in Int
    PROVE  Min({x, y}) = IF x <= y THEN x ELSE y
<1>1. \E z \in {x, y} : \A w \in {x, y} : z <= w
  OBVIOUS
<1> QED BY <1>1 DEF Min

\* A fee is whole coins, and a fee of all is no more than the fees of the parts.
LEMMA FeeRounded ==
    ASSUME NEW x \in Nat
    PROVE  /\ RoundedUp(x) \in Money
           /\ \A n \in Nat : RoundedUp(n * x) <= n * RoundedUp(x)
<1>1. PICK y \in Nat \ {0} : y = RateParts * Coin
  BY LedgerAssumption
<1>2. PICK u \in Nat : u = Up(x, y) /\ y * u >= x
  BY UpLeast
<1>3. RoundedUp(x) = Coin * u
  BY <1>1, <1>2, CoinType DEF RoundedUp
<1>4. ASSUME NEW n \in Nat PROVE RoundedUp(n * x) <= n * RoundedUp(x)
  <2>1. PICK z \in Nat : z = n * x
    OBVIOUS
  <2>2. n * (y * u) >= n * x
    BY <1>2
  <2>3. y * (n * u) >= z
    BY <2>1, <2>2
  <2>4. PICK v \in Nat : v = Up(z, y) /\ v <= n * u
    BY <2>3, UpLeast, n * u \in Nat
  <2>5. RoundedUp(n * x) = Coin * v
    BY <1>1, <2>1, <2>4, CoinType DEF RoundedUp
  <2>6. Coin * v <= Coin * (n * u)
    BY <2>4, CoinType
  <2>7. Coin * (n * u) = n * (Coin * u)
    BY CoinType
  <2> QED BY <1>3, <2>5, <2>6, <2>7
<1>5. Coin * u \in Nat
  BY CoinType
<1>6. RoundedUp(x) \in Money
  BY <1>3, <1>5, MultipleMoney
<1> QED BY <1>4, <1>6

LEMMA FeesRounded ==
    ASSUME NEW x \in Nat
    PROVE  /\ Commission(x) \in Money /\ SellTax(x) \in Money
           /\ \A n \in Nat \ {0} : /\ Commission(n * x) <= n * Commission(x)
                                   /\ SellTax(n * x) <= n * SellTax(x)
<1>1. PICK m \in Money : m = MinimumCommission /\ m \in Nat
  BY LedgerAssumption DEF Money
<1>2. CommissionRate \in Nat /\ SellTaxRate \in Nat
  BY LedgerAssumption
<1>3. PICK c \in Nat : c = x * CommissionRate
  BY <1>2
<1>4. PICK t \in Nat : t = x * SellTaxRate
  BY <1>2
<1>5. PICK a \in Money : a = RoundedUp(c) /\ a \in Nat
  BY FeeRounded DEF Money
<1>6. PICK b \in Money : b = RoundedUp(t) /\ b \in Nat
  BY FeeRounded DEF Money
<1>7. Commission(x) = (IF a >= m THEN a ELSE m) /\ SellTax(x) = b
  BY <1>1, <1>3, <1>4, <1>5, <1>6, MaxOfTwo DEF Commission, SellTax
<1>8. ASSUME NEW n \in Nat \ {0}
      PROVE  Commission(n * x) <= n * Commission(x) /\ SellTax(n * x) <= n * SellTax(x)
  <2>1. (n * x) * CommissionRate = n * c /\ (n * x) * SellTaxRate = n * t
    BY <1>2, <1>3, <1>4
  <2>2. PICK d \in Nat : d = RoundedUp(n * c) /\ d <= n * a
    BY <1>5, FeeRounded, n * c \in Nat DEF Money
  <2>3. PICK e \in Nat : e = RoundedUp(n * t) /\ e <= n * b
    BY <1>6, FeeRounded, n * t \in Nat DEF Money
  <2>4. Commission(n * x) = (IF d >= m THEN d ELSE m) /\ SellTax(n * x) = e
    BY <1>1, <2>1, <2>2, <2>3, MaxOfTwo DEF Commission, SellTax
  <2>5. n * a >= a /\ n * m >= m
    BY <1>1, <1>5
  <2>6. a >= m => n * a >= n * m
    BY <1>1, <1>5
  <2>7. m >= a => n * m >= n * a
    BY <1>1, <1>5
  <2>8. PICK na \in Nat, nm \in Nat : na = n * a /\ nm = n * m
    BY <1>1, <1>5
  <2> QED BY <1>1, <1>5, <1>6, <1>7, <2>2, <2>3, <2>4, <2>5, <2>6, <2>7, <2>8
<1> QED BY <1>7, <1>8

\* What a sale brings and a purchase costs, in whole coins.
LEMMA ImpactOfLots ==
    ASSUME NEW p \in LotPrices, NEW n \in Nat \ {0}
    PROVE  /\ n * p \in Money /\ n * p > 0
           /\ Impact("sell", n * p) \in Money /\ Impact("sell", n * p) > 0
           /\ -Impact("buy", n * p) \in Money /\ -Impact("buy", n * p) >= n * p
<1>1. p \in Money /\ p \in Nat /\ Impact("sell", p) > 0
  BY LedgerAssumption DEF Money
<1>2. PICK c \in Nat, t \in Nat : c = Commission(p) /\ t = SellTax(p)
  BY <1>1, FeesRounded DEF Money
<1>3. p - c - t >= 1
  BY <1>1, <1>2 DEF Impact
<1>4. PICK g \in Money : g = n * p /\ g \in Nat
  BY <1>1, MoneyTimes DEF Money
<1>5. PICK d \in Money, e \in Money :
         d = Commission(g) /\ e = SellTax(g) /\ d \in Nat /\ e \in Nat
  BY <1>4, FeesRounded DEF Money
<1>6. d <= n * c /\ e <= n * t
  BY <1>1, <1>2, <1>4, <1>5, FeesRounded
<1>7. n * (p - c - t) >= n
  BY <1>1, <1>2, <1>3
<1>8. n * (p - c - t) = n * p - n * c - n * t
  BY <1>1, <1>2
<1>9. PICK nc \in Nat, nt \in Nat : nc = n * c /\ nt = n * t
  BY <1>2
<1>10. g - d - e >= n
  BY <1>4, <1>6, <1>7, <1>8, <1>9
<1>11. g - d - e \in Money /\ g + d \in Money
  <2>1. d <= g
    BY <1>10, <1>5
  <2>2. g - d \in Money /\ g + d \in Money
    BY <2>1, MoneyAdds
  <2> QED BY <2>2, <1>10, <1>5, <1>4, MoneyAdds
<1>12. Impact("sell", g) = g - d - e /\ Impact("buy", g) = -(g + d)
  BY <1>5 DEF Impact
<1>13. -Impact("buy", g) = g + d
  BY <1>12, <1>4, <1>5
<1> QED BY <1>4, <1>5, <1>10, <1>11, <1>12, <1>13

-----------------------------------------------------------------------------
(* Each fold of the model, as the values it takes on its way.              *)

Receivable == [day : Int, amount : Money]

\* The receivables in all.
LEMMA TotalFold ==
    ASSUME NEW n \in Nat, NEW s \in [1..n -> Receivable]
    PROVE  \E F \in [0..n -> Money] :
              /\ F[0] = 0
              /\ \A k \in 1..n : F[k] = F[k - 1] + s[k].amount
              /\ Total(s) = F[n]
<1> DEFINE Rule(f) == f = [t \in SUBSET (DOMAIN s) |->
                             IF t = {} THEN 0 ELSE LET x == Max(t) IN f[t \ {x}] + s[x].amount]
           G == [p \in (1..n) \X Money |-> p[2] + s[p[1]].amount]
           iter == CHOOSE f : Rule(f)
<1>1. /\ G \in [(1..n) \X Money -> Money]
      /\ \A k \in 1..n, x \in Money : G[<<k, x>>] = x + s[k].amount
  <2>1. \A k \in 1..n, x \in Money : x + s[k].amount \in Money
    BY MoneyAdds DEF Receivable
  <2>2. G \in [(1..n) \X Money -> Money]
    BY <2>1
  <2>3. \A k \in 1..n, x \in Money : G[<<k, x>>] = x + s[k].amount
    OBVIOUS
  <2> QED BY <2>2, <2>3
<1> HIDE DEF G
<1>2. \A t \in SUBSET (1..n) : t # {} => Max(t) \in 1..n /\ t \ {Max(t)} \in SUBSET (1..n)
  BY MaxOfSome, 1..n \subseteq 0..n
<1>3. PICK f \in [SUBSET (1..n) -> Money] : FoldOf(f, 0, n, G)
  BY <1>1, FoldExists, MoneyZero
<1>4. Rule(f)
  BY <1>1, <1>2, <1>3 DEF FoldOf
<1>5. Rule(iter)
  BY <1>4, Zenon
<1>6. Total(s) = iter[DOMAIN s]
  BY DEF Total, FoldLeft, MapThenFoldSet
<1> HIDE DEF iter
<1>7. StepsBy(iter, Money, 0, n, G)
  BY <1>1, <1>2, <1>5, MoneyZero DEF StepsBy
<1>8. Loops(Money, 0, n, G, iter[1..n])
  BY <1>7, FoldLoops
<1>9. DOMAIN s = 1..n
  OBVIOUS
<1> HIDE DEF Rule
<1>10. PICK F \in [0..n -> Money] :
          F[0] = 0 /\ F[n] = iter[1..n] /\ \A k \in 1..n : F[k] = G[<<k, F[k - 1]>>]
  BY <1>8 DEF Loops
<1>11. ASSUME NEW k \in 1..n PROVE F[k] = F[k - 1] + s[k].amount
  <2>1. F[k - 1] \in Money /\ F[k] = G[<<k, F[k - 1]>>]
    BY <1>10
  <2> QED BY <1>1, <2>1
<1> QED BY <1>6, <1>9, <1>10, <1>11

SettleAcc == [due : Money, rest : Seq(Receivable)]
SettleStep(acc, item, day) ==
    IF item.day <= day THEN [acc EXCEPT !.due = @ + item.amount]
    ELSE [acc EXCEPT !.rest = Append(@, item)]

LEMMA SettleStepIs ==
    ASSUME NEW acc \in SettleAcc, NEW item \in Receivable, NEW day \in Int
    PROVE  /\ item.day <= day =>
                 SettleStep(acc, item, day) = [due |-> acc.due + item.amount, rest |-> acc.rest]
           /\ ~(item.day <= day) =>
                 SettleStep(acc, item, day) = [due |-> acc.due, rest |-> Append(acc.rest, item)]
           /\ SettleStep(acc, item, day) \in SettleAcc
<1>1. item.amount \in Money /\ acc.due \in Money /\ acc.due + item.amount \in Money
  BY MoneyAdds DEF Receivable, SettleAcc
<1>2. acc = [due |-> acc.due, rest |-> acc.rest] /\ acc.rest \in Seq(Receivable)
  BY DEF SettleAcc
<1>3. CASE item.day <= day
  <2>1. SettleStep(acc, item, day) = [due |-> acc.due + item.amount, rest |-> acc.rest]
    BY <1>2, <1>3 DEF SettleStep
  <2> QED BY <1>1, <1>2, <1>3, <2>1 DEF SettleAcc
<1>4. CASE ~(item.day <= day)
  <2>1. SettleStep(acc, item, day) = [due |-> acc.due, rest |-> Append(acc.rest, item)]
    BY <1>2, <1>4 DEF SettleStep
  <2>2. Append(acc.rest, item) \in Seq(Receivable)
    BY <1>2
  <2> QED BY <1>1, <1>4, <2>1, <2>2 DEF SettleAcc
<1> QED BY <1>3, <1>4

\* What is released, item by item.
LEMMA ReleasedFold ==
    ASSUME NEW n \in Nat, NEW s \in [1..n -> Receivable], NEW day \in Int
    PROVE  \E F \in [0..n -> SettleAcc] :
              /\ F[0] = [due |-> 0, rest |-> << >>]
              /\ \A k \in 1..n : F[k] = SettleStep(F[k - 1], s[k], day)
              /\ Released(s, day) = F[n]
<1> DEFINE start == [due |-> 0, rest |-> << >>]
           Rule(f) == f = [t \in SUBSET (DOMAIN s) |->
                             IF t = {} THEN [due |-> 0, rest |-> << >>]
                             ELSE LET x == Max(t) IN SettleStep(f[t \ {x}], s[x], day)]
           G == [p \in (1..n) \X SettleAcc |-> SettleStep(p[2], s[p[1]], day)]
           iter == CHOOSE f : Rule(f)
<1>0. start \in SettleAcc
  BY MoneyZero DEF SettleAcc
<1>1. /\ G \in [(1..n) \X SettleAcc -> SettleAcc]
      /\ \A k \in 1..n, x \in SettleAcc : G[<<k, x>>] = SettleStep(x, s[k], day)
  <2>1. ASSUME NEW k \in 1..n, NEW x \in SettleAcc PROVE SettleStep(x, s[k], day) \in SettleAcc
    BY SettleStepIs
  <2>2. G \in [(1..n) \X SettleAcc -> SettleAcc]
    BY <2>1
  <2>3. \A k \in 1..n, x \in SettleAcc : G[<<k, x>>] = SettleStep(x, s[k], day)
    OBVIOUS
  <2> QED BY <2>2, <2>3
<1> HIDE DEF G
<1>2. \A t \in SUBSET (1..n) : t # {} => Max(t) \in 1..n /\ t \ {Max(t)} \in SUBSET (1..n)
  BY MaxOfSome, 1..n \subseteq 0..n
<1>3. PICK f \in [SUBSET (1..n) -> SettleAcc] : FoldOf(f, start, n, G)
  <2> HIDE DEF start
  <2> QED BY <1>0, <1>1, FoldExists
<1>4. Rule(f)
  BY <1>1, <1>2, <1>3 DEF FoldOf
<1>5. Rule(iter)
  BY <1>4, Zenon
<1>6. Released(s, day) = iter[DOMAIN s]
  BY DEF Released, FoldLeft, MapThenFoldSet, SettleStep
<1> HIDE DEF iter
<1>7. StepsBy(iter, SettleAcc, start, n, G)
  BY <1>0, <1>1, <1>2, <1>5 DEF StepsBy
<1>8. Loops(SettleAcc, start, n, G, iter[1..n])
  BY <1>7, FoldLoops
<1>9. DOMAIN s = 1..n
  OBVIOUS
<1> HIDE DEF Rule
<1>10. PICK F \in [0..n -> SettleAcc] :
          F[0] = start /\ F[n] = iter[1..n] /\ \A k \in 1..n : F[k] = G[<<k, F[k - 1]>>]
  BY <1>8 DEF Loops
<1>11. ASSUME NEW k \in 1..n PROVE F[k] = SettleStep(F[k - 1], s[k], day)
  <2>1. F[k - 1] \in SettleAcc /\ F[k] = G[<<k, F[k - 1]>>]
    BY <1>10
  <2> QED BY <1>1, <2>1
<1> QED BY <1>6, <1>9, <1>10, <1>11

OffsetAcc == [left : Money, rest : Seq(Receivable)]
OffsetStep(acc, item) ==
    LET used == Min({item.amount, acc.left})
    IN  [left |-> acc.left - used,
         rest |-> IF used = item.amount THEN acc.rest
                  ELSE Append(acc.rest, [item EXCEPT !.amount = @ - used])]

LEMMA OffsetStepIs ==
    ASSUME NEW acc \in OffsetAcc, NEW item \in Receivable
    PROVE  /\ item.amount <= acc.left =>
                 OffsetStep(acc, item) = [left |-> acc.left - item.amount, rest |-> acc.rest]
           /\ ~(item.amount <= acc.left) =>
                 \E x \in Receivable :
                    /\ x.amount = item.amount - acc.left
                    /\ OffsetStep(acc, item) = [left |-> 0, rest |-> Append(acc.rest, x)]
           /\ OffsetStep(acc, item) \in OffsetAcc
<1>1. item.amount \in Money /\ acc.left \in Money /\ item.amount \in Nat /\ acc.left \in Nat
  BY DEF Receivable, OffsetAcc, Money
<1>2. acc.rest \in Seq(Receivable)
  BY DEF OffsetAcc
<1>3. Min({item.amount, acc.left}) = IF item.amount <= acc.left THEN item.amount ELSE acc.left
  BY <1>1, MinOfTwo
<1>4. CASE item.amount <= acc.left
  <2>1. acc.left - item.amount \in Money
    BY <1>1, <1>4, MoneyAdds
  <2>2. OffsetStep(acc, item) = [left |-> acc.left - item.amount, rest |-> acc.rest]
    BY <1>3, <1>4 DEF OffsetStep
  <2>3. [left |-> acc.left - item.amount, rest |-> acc.rest] \in OffsetAcc
    BY <1>2, <2>1 DEF OffsetAcc
  <2> QED BY <1>4, <2>2, <2>3
<1>5. CASE ~(item.amount <= acc.left)
  <2>1. item.amount - acc.left \in Money
    BY <1>1, <1>5, MoneyAdds
  <2> DEFINE x == [item EXCEPT !.amount = @ - acc.left]
  <2>2. x = [day |-> item.day, amount |-> item.amount - acc.left] /\ item.day \in Int
    BY DEF Receivable
  <2>3. x \in Receivable /\ x.amount = item.amount - acc.left
    BY <2>1, <2>2 DEF Receivable
  <2>4. acc.left - acc.left = 0 /\ acc.left # item.amount
    BY <1>1, <1>5
  <2>a. Min({item.amount, acc.left}) = acc.left
    BY <1>3, <1>5
  <2>5. OffsetStep(acc, item) = [left |-> 0, rest |-> Append(acc.rest, x)]
    BY <2>a, <2>4, Zenon DEF OffsetStep
  <2> HIDE DEF x
  <2>6. Append(acc.rest, x) \in Seq(Receivable)
    BY <1>2, <2>3
  <2>7. [left |-> 0, rest |-> Append(acc.rest, x)] \in OffsetAcc
    BY <2>6, MoneyZero DEF OffsetAcc
  <2> QED BY <1>5, <2>3, <2>5, <2>7
<1> QED BY <1>4, <1>5

\* What a purchase offsets, item by item.
LEMMA OffsetFold ==
    ASSUME NEW n \in Nat, NEW s \in [1..n -> Receivable], NEW amount \in Money
    PROVE  \E F \in [0..n -> OffsetAcc] :
              /\ F[0] = [left |-> amount, rest |-> << >>]
              /\ \A k \in 1..n : F[k] = OffsetStep(F[k - 1], s[k])
              /\ Offset(s, amount) = F[n]
<1> DEFINE start == [left |-> amount, rest |-> << >>]
           Rule(f) == f = [t \in SUBSET (DOMAIN s) |->
                             IF t = {} THEN [left |-> amount, rest |-> << >>]
                             ELSE LET x == Max(t) IN OffsetStep(f[t \ {x}], s[x])]
           G == [p \in (1..n) \X OffsetAcc |-> OffsetStep(p[2], s[p[1]])]
           iter == CHOOSE f : Rule(f)
<1>0. start \in OffsetAcc
  BY DEF OffsetAcc
<1>1. /\ G \in [(1..n) \X OffsetAcc -> OffsetAcc]
      /\ \A k \in 1..n, x \in OffsetAcc : G[<<k, x>>] = OffsetStep(x, s[k])
  <2>1. ASSUME NEW k \in 1..n, NEW x \in OffsetAcc PROVE OffsetStep(x, s[k]) \in OffsetAcc
    BY OffsetStepIs
  <2>2. G \in [(1..n) \X OffsetAcc -> OffsetAcc]
    BY <2>1
  <2>3. \A k \in 1..n, x \in OffsetAcc : G[<<k, x>>] = OffsetStep(x, s[k])
    OBVIOUS
  <2> QED BY <2>2, <2>3
<1> HIDE DEF G
<1>2. \A t \in SUBSET (1..n) : t # {} => Max(t) \in 1..n /\ t \ {Max(t)} \in SUBSET (1..n)
  BY MaxOfSome, 1..n \subseteq 0..n
<1>3. PICK f \in [SUBSET (1..n) -> OffsetAcc] : FoldOf(f, start, n, G)
  <2> HIDE DEF start
  <2> QED BY <1>0, <1>1, FoldExists
<1>4. Rule(f)
  BY <1>1, <1>2, <1>3 DEF FoldOf
<1>5. Rule(iter)
  BY <1>4, Zenon
<1>6. Offset(s, amount) = iter[DOMAIN s]
  BY DEF Offset, FoldLeft, MapThenFoldSet, OffsetStep
<1> HIDE DEF iter
<1>7. StepsBy(iter, OffsetAcc, start, n, G)
  BY <1>0, <1>1, <1>2, <1>5 DEF StepsBy
<1>8. Loops(OffsetAcc, start, n, G, iter[1..n])
  BY <1>7, FoldLoops
<1>9. DOMAIN s = 1..n
  OBVIOUS
<1> HIDE DEF Rule
<1>10. PICK F \in [0..n -> OffsetAcc] :
          F[0] = start /\ F[n] = iter[1..n] /\ \A k \in 1..n : F[k] = G[<<k, F[k - 1]>>]
  BY <1>8 DEF Loops
<1>11. ASSUME NEW k \in 1..n PROVE F[k] = OffsetStep(F[k - 1], s[k])
  <2>1. F[k - 1] \in OffsetAcc /\ F[k] = G[<<k, F[k - 1]>>]
    BY <1>10
  <2> QED BY <1>1, <2>1
<1> QED BY <1>6, <1>9, <1>10, <1>11

-----------------------------------------------------------------------------
(* What the folds over the receivables come to.                            *)

LEMMA SeqIsFunction ==
    ASSUME NEW S, NEW s \in Seq(S)
    PROVE  \E n \in Nat : n = Len(s) /\ s \in [1..n -> S]
OBVIOUS

\* Nothing is nothing, and one more item adds its amount.
LEMMA TotalEmpty == Total(<< >>) = 0
<1>1. << >> \in [1..0 -> Receivable]
  OBVIOUS
<1>2. PICK F \in [0..0 -> Money] : F[0] = 0 /\ Total(<< >>) = F[0]
  BY <1>1, TotalFold, 0 \in Nat
<1> QED BY <1>2

LEMMA TotalType ==
    ASSUME NEW s \in Seq(Receivable)
    PROVE  Total(s) \in Money
<1>1. PICK n \in Nat : s \in [1..n -> Receivable]
  BY SeqIsFunction
<1> QED BY <1>1, TotalFold

LEMMA TotalAppend ==
    ASSUME NEW s \in Seq(Receivable), NEW x \in Receivable
    PROVE  Total(s) \in Money /\ Total(Append(s, x)) = Total(s) + x.amount
<1>1. PICK n \in Nat : n = Len(s) /\ s \in [1..n -> Receivable]
  BY SeqIsFunction
<1>2. PICK r : r = Append(s, x)
  OBVIOUS
<1>3. r \in [1..(n + 1) -> Receivable] /\ r[n + 1] = x /\ \A k \in 1..n : r[k] = s[k]
  <2>1. Len(s) = n /\ s \in Seq(Receivable)
    BY <1>1
  <2>2. Len(r) = n + 1 /\ r \in Seq(Receivable) /\ r[n + 1] = x
    BY <1>2, <2>1
  <2>3. \A k \in 1..n : r[k] = s[k]
    BY <1>2, <2>1
  <2> QED BY <2>2, <2>3
<1>4. PICK F \in [0..n -> Money] :
         F[0] = 0 /\ (\A k \in 1..n : F[k] = F[k - 1] + s[k].amount) /\ Total(s) = F[n]
  BY <1>1, TotalFold
<1>5. PICK H \in [0..(n + 1) -> Money] :
         /\ H[0] = 0 /\ Total(r) = H[n + 1]
         /\ \A k \in 1..(n + 1) : H[k] = H[k - 1] + r[k].amount
  BY <1>3, TotalFold, n + 1 \in Nat
<1> DEFINE T == {k \in 0..n : H[k] = F[k]}
<1>6. 0 \in T
  BY <1>4, <1>5
<1>7. ASSUME NEW k \in 1..n, k - 1 \in T PROVE k \in T
  <2>1. H[k - 1] = F[k - 1]
    BY <1>7
  <2>2. H[k] = H[k - 1] + r[k].amount /\ F[k] = F[k - 1] + s[k].amount /\ r[k] = s[k]
    BY <1>3, <1>4, <1>5
  <2> QED BY <2>1, <2>2
<1>8. n \in T
  <2>1. \A k \in 0..n : k \in T
    <3> HIDE DEF T
    <3> QED BY <1>6, <1>7, CountingUp
  <2> QED BY <2>1
<1>9. H[n + 1] = H[n] + x.amount
  BY <1>3, <1>5
<1>10. F[n] \in Money
  BY <1>4
<1> QED BY <1>2, <1>4, <1>5, <1>8, <1>9, <1>10

\* What is released and what stays open is what was there.
LEMMA ReleasedIs ==
    ASSUME NEW s \in Seq(Receivable), NEW day \in Int
    PROVE  /\ Released(s, day) \in SettleAcc
           /\ Released(s, day).due + Total(Released(s, day).rest) = Total(s)
<1>1. PICK n \in Nat : n = Len(s) /\ s \in [1..n -> Receivable]
  BY SeqIsFunction
<1>2. PICK F \in [0..n -> SettleAcc] :
         /\ F[0] = [due |-> 0, rest |-> << >>]
         /\ \A k \in 1..n : F[k] = SettleStep(F[k - 1], s[k], day)
         /\ Released(s, day) = F[n]
  BY <1>1, ReleasedFold
<1>3. PICK H \in [0..n -> Money] :
         H[0] = 0 /\ (\A k \in 1..n : H[k] = H[k - 1] + s[k].amount) /\ Total(s) = H[n]
  BY <1>1, TotalFold
<1> DEFINE T == {k \in 0..n : F[k].due + Total(F[k].rest) = H[k]}
<1>4. 0 \in T
  BY <1>2, <1>3, TotalEmpty
<1>5. ASSUME NEW k \in 1..n, k - 1 \in T PROVE k \in T
  <2>1. PICK acc \in SettleAcc : acc = F[k - 1]
    BY <1>2
  <2>2. PICK item \in Receivable : item = s[k]
    BY <1>1
  <2>3. PICK h \in Nat : h = H[k - 1] /\ h = acc.due + Total(acc.rest)
    BY <1>3, <1>5, <2>1 DEF Money
  <2>4. F[k] = SettleStep(acc, item, day) /\ H[k] = h + item.amount
    BY <1>2, <1>3, <2>1, <2>2, <2>3
  <2>5. acc.rest \in Seq(Receivable) /\ acc.due \in Nat /\ item.amount \in Nat
    BY DEF SettleAcc, Receivable, Money
  <2>6. PICK t \in Nat : t = Total(acc.rest) /\ Total(Append(acc.rest, item)) = t + item.amount
    BY <2>5, TotalAppend DEF Money
  <2>7. CASE item.day <= day
    <3>1. F[k] = [due |-> acc.due + item.amount, rest |-> acc.rest]
      BY <2>4, <2>7, SettleStepIs
    <3>2. F[k].due + Total(F[k].rest) = h + item.amount
      BY <3>1, <2>3, <2>5, <2>6
    <3> QED BY <3>2, <2>4
  <2>8. CASE ~(item.day <= day)
    <3>1. F[k] = [due |-> acc.due, rest |-> Append(acc.rest, item)]
      BY <2>4, <2>8, SettleStepIs
    <3>2. F[k].due + Total(F[k].rest) = h + item.amount
      BY <3>1, <2>3, <2>5, <2>6
    <3> QED BY <3>2, <2>4
  <2> QED BY <2>7, <2>8
<1>6. \A k \in 0..n : k \in T
  <2> HIDE DEF T
  <2> QED BY <1>4, <1>5, CountingUp
<1> QED BY <1>2, <1>3, <1>6

\* A purchase offsets what it uses, if there is so much.
LEMMA OffsetIs ==
    ASSUME NEW s \in Seq(Receivable), NEW amount \in Money
    PROVE  /\ Offset(s, amount) \in OffsetAcc
           /\ amount <= Total(s) => /\ Offset(s, amount).left = 0
                                    /\ Total(Offset(s, amount).rest) = Total(s) - amount
<1>1. PICK n \in Nat : n = Len(s) /\ s \in [1..n -> Receivable]
  BY SeqIsFunction
<1>2. PICK F \in [0..n -> OffsetAcc] :
         /\ F[0] = [left |-> amount, rest |-> << >>]
         /\ \A k \in 1..n : F[k] = OffsetStep(F[k - 1], s[k])
         /\ Offset(s, amount) = F[n]
  BY <1>1, OffsetFold
<1>3. PICK H \in [0..n -> Money] :
         H[0] = 0 /\ (\A k \in 1..n : H[k] = H[k - 1] + s[k].amount) /\ Total(s) = H[n]
  BY <1>1, TotalFold
<1> DEFINE T == {k \in 0..n : /\ amount - F[k].left + Total(F[k].rest) = H[k]
                              /\ F[k].left > 0 => Total(F[k].rest) = 0}
<1>4. 0 \in T
  BY <1>2, <1>3, TotalEmpty DEF Money
<1>5. ASSUME NEW k \in 1..n, k - 1 \in T PROVE k \in T
  <2>1. PICK acc \in OffsetAcc : acc = F[k - 1]
    BY <1>2
  <2>2. PICK item \in Receivable : item = s[k]
    BY <1>1
  <2>3. acc.rest \in Seq(Receivable) /\ acc.left \in Nat /\ item.amount \in Nat /\ amount \in Nat
    BY DEF OffsetAcc, Receivable, Money
  <2>4. PICK t \in Nat : t = Total(acc.rest)
    BY <2>3, TotalAppend DEF Money
  <2>5. PICK h \in Nat : h = H[k - 1] /\ h = amount - acc.left + t /\ (acc.left > 0 => t = 0)
    BY <1>3, <1>5, <2>1, <2>4 DEF Money
  <2>6. F[k] = OffsetStep(acc, item) /\ H[k] = h + item.amount
    BY <1>2, <1>3, <2>1, <2>2, <2>5
  <2>7. CASE item.amount <= acc.left
    <3>1. F[k] = [left |-> acc.left - item.amount, rest |-> acc.rest]
      BY <2>6, <2>7, OffsetStepIs
    <3>2. F[k].left = acc.left - item.amount /\ Total(F[k].rest) = t
      BY <3>1, <2>4
    <3>3. amount - F[k].left + Total(F[k].rest) = H[k]
      BY <3>2, <2>3, <2>5, <2>6, <2>7
    <3>4. F[k].left > 0 => Total(F[k].rest) = 0
      BY <3>2, <2>3, <2>5, <2>7
    <3> QED BY <3>3, <3>4
  <2>8. CASE ~(item.amount <= acc.left)
    <3>1. PICK x \in Receivable : /\ x.amount = item.amount - acc.left
                                  /\ F[k] = [left |-> 0, rest |-> Append(acc.rest, x)]
      BY <2>6, <2>8, OffsetStepIs
    <3>2. F[k].left = 0 /\ Total(F[k].rest) = t + (item.amount - acc.left)
      BY <3>1, <2>3, <2>4, TotalAppend
    <3>3. amount - F[k].left + Total(F[k].rest) = H[k]
      BY <3>2, <2>3, <2>5, <2>6, <2>8
    <3>4. F[k].left > 0 => Total(F[k].rest) = 0
      BY <3>2, <2>3, <2>5, <2>8
    <3> QED BY <3>3, <3>4
  <2> QED BY <2>7, <2>8
<1>6. \A k \in 0..n : k \in T
  <2> HIDE DEF T
  <2> QED BY <1>4, <1>5, CountingUp
<1>7. PICK acc \in OffsetAcc : acc = Offset(s, amount)
  BY <1>2
<1>8. acc.left \in Nat /\ amount \in Nat /\ acc.rest \in Seq(Receivable)
  BY DEF OffsetAcc, Money
<1>9. PICK t \in Nat : t = Total(acc.rest)
  BY <1>8, TotalType DEF Money
<1>10. PICK h \in Nat : h = Total(s)
  BY TotalType DEF Money
<1>11. amount - acc.left + t = h /\ (acc.left > 0 => t = 0)
  BY <1>2, <1>3, <1>6, <1>7, <1>9, <1>10
<1> QED BY <1>7, <1>8, <1>9, <1>10, <1>11

-----------------------------------------------------------------------------
(* What the operations do to a ledger whose receivables add up.            *)

Holdings == [Symbols -> Nat]
Errors == {"none", "unbalanced", "overdraft", "receivables", "oversold", "odd lot"}
LedgerRecord == [settled : Money, unsettled : Money, pending : Seq(Receivable),
                 lots : Holdings, error : Errors]
Ledgers == {l \in LedgerRecord : Total(l.pending) = l.unsettled}

LEMMA LedgerParts ==
    ASSUME NEW l \in Ledgers
    PROVE  /\ l.settled \in Money /\ l.unsettled \in Money /\ l.settled \in Nat /\ l.unsettled \in Nat
           /\ l.pending \in Seq(Receivable) /\ l.lots \in Holdings /\ l.error \in Errors
           /\ Total(l.pending) = l.unsettled
           /\ l = [settled |-> l.settled, unsettled |-> l.unsettled, pending |-> l.pending,
                   lots |-> l.lots, error |-> l.error]
BY DEF Ledgers, LedgerRecord, Money

LEMMA LedgerMade ==
    ASSUME NEW x \in Money, NEW y \in Money, NEW p \in Seq(Receivable), NEW h \in Holdings,
           NEW e \in Errors, Total(p) = y
    PROVE  [settled |-> x, unsettled |-> y, pending |-> p, lots |-> h, error |-> e] \in Ledgers
BY DEF Ledgers, LedgerRecord

\* Money that is released moves from the receivables to the settled cash.
LEMMA SettleIs ==
    ASSUME NEW l \in Ledgers, NEW day \in Int
    PROVE  \E m \in Ledgers :
              /\ m = Settle(l, day)
              /\ m.settled + m.unsettled = l.settled + l.unsettled
              /\ m.settled >= l.settled
              /\ m.lots = l.lots /\ m.error = l.error
<1>1. PICK r \in SettleAcc : r = Released(l.pending, day) /\ r.due + Total(r.rest) = Total(l.pending)
  BY LedgerParts, ReleasedIs
<1>2. r.due \in Money /\ r.due \in Nat /\ r.rest \in Seq(Receivable)
  BY DEF SettleAcc, Money
<1>3. PICK u \in Money : u = Total(r.rest) /\ u \in Nat
  BY <1>2, TotalType DEF Money
<1>4. l.unsettled - r.due = u
  BY <1>1, <1>2, <1>3, LedgerParts
<1>5. PICK c \in Money : c = l.settled + r.due /\ c \in Nat
  BY <1>2, LedgerParts, MoneyAdds DEF Money
<1>6. PICK m : m = [settled |-> c, unsettled |-> u, pending |-> r.rest,
                    lots |-> l.lots, error |-> l.error]
  OBVIOUS
<1>7. m \in Ledgers
  BY <1>2, <1>3, <1>5, <1>6, LedgerMade, LedgerParts
<1>8. Settle(l, day) = m
  <2>1. Settle(l, day) = [l EXCEPT !.settled = @ + r.due, !.unsettled = @ - r.due, !.pending = r.rest]
    BY <1>1 DEF Settle
  <2> QED BY <2>1, <1>4, <1>5, <1>6, LedgerParts
<1>9. PICK s \in Nat, v \in Nat : s = l.settled /\ v = l.unsettled
  BY LedgerParts
<1>10. c >= s /\ c + u = s + v
  <2>1. PICK d \in Nat : d = r.due
    BY <1>2
  <2>2. c = s + d /\ u = v - d
    BY <1>4, <1>5, <1>9, <2>1
  <2> QED BY <2>2
<1> QED BY <1>6, <1>7, <1>8, <1>9, <1>10

\* Fills: lots of a symbol; a sale brings money, a purchase costs some.
Fills == {f \in [symbol : Symbols, side : {"buy", "sell"}, lots : Nat \ {0},
                 gross : Money, impact : Int] :
             /\ f.side = "buy" => -f.impact \in Money
             /\ f.side = "sell" => f.impact \in Money /\ f.impact > 0}

\* What a fill does to the money one can buy with.
Effect(fill, reuse) == IF fill.side = "buy" \/ reuse THEN fill.impact ELSE 0

LEMMA HoldingsChanged ==
    ASSUME NEW h \in Holdings, NEW s \in Symbols, NEW n \in Nat
    PROVE  /\ [h EXCEPT ![s] = @ + n] \in Holdings
           /\ n <= h[s] => [h EXCEPT ![s] = @ - n] \in Holdings
<1>1. h[s] \in Nat
  BY DEF Holdings
<1> QED BY <1>1 DEF Holdings

\* What is raised leaves the money as it is.
LEMMA RaisedIs ==
    ASSUME NEW l \in Ledgers, NEW e \in Errors
    PROVE  [l EXCEPT !.error = e] \in Ledgers
<1>1. PICK r : r = [settled |-> l.settled, unsettled |-> l.unsettled, pending |-> l.pending,
                    lots |-> l.lots, error |-> e]
  OBVIOUS
<1>2. [l EXCEPT !.error = e] = r
  BY <1>1, LedgerParts
<1>3. r \in Ledgers
  BY <1>1, LedgerMade, LedgerParts, Zenon
<1> QED BY <1>2, <1>3

LEMMA BuyIs ==
    ASSUME NEW l \in Ledgers, NEW f \in Fills, f.side = "buy", NEW reuse \in BOOLEAN
    PROVE  \E m \in Ledgers :
              /\ m = Buy(l, f, reuse)
              /\ -f.impact <= BuyingPower(l, reuse) =>
                    /\ m.settled + m.unsettled = l.settled + l.unsettled + f.impact
                    /\ BuyingPower(m, reuse) = BuyingPower(l, reuse) + f.impact
                    /\ m.lots = [l.lots EXCEPT ![f.symbol] = @ + f.lots]
                    /\ m.error = l.error
<1>1. PICK cost \in Money : cost = -f.impact /\ cost \in Nat /\ f.impact = -cost
  BY DEF Fills, Money
<1>2. f.symbol \in Symbols /\ f.lots \in Nat
  BY DEF Fills
<1>a. PICK s \in Money, u \in Money :
         s = l.settled /\ u = l.unsettled /\ s \in Nat /\ u \in Nat /\ Total(l.pending) = u
  BY LedgerParts
<1>b. PICK used : used = IF reuse THEN Min({l.unsettled, cost}) ELSE 0
  OBVIOUS
<1>3. reuse => (u <= cost => used = u) /\ (~(u <= cost) => used = cost)
  <2>1. used = IF reuse THEN Min({u, cost}) ELSE 0
    BY <1>a, <1>b, Zenon
  <2>2. Min({u, cost}) = IF u <= cost THEN u ELSE cost
    BY <1>1, <1>a, MinOfTwo
  <2> QED BY <2>1, <2>2
<1>d. ~reuse => used = 0
  BY <1>b
<1>4. used \in Money /\ used \in Nat /\ used <= u /\ used <= cost
  <2>1. CASE reuse
    BY <1>1, <1>3, <1>a, <2>1
  <2>2. CASE ~reuse
    BY <1>1, <1>d, <1>a, <2>2, MoneyZero
  <2> QED BY <2>1, <2>2
<1>5. PICK o \in OffsetAcc : /\ o = Offset(l.pending, used) /\ o.left = 0
                             /\ Total(o.rest) = u - used
  BY <1>4, <1>a, OffsetIs, LedgerParts
<1>6. o.rest \in Seq(Receivable)
  BY DEF OffsetAcc
<1>c. PICK power \in Nat : /\ power = BuyingPower(l, reuse)
                           /\ reuse => power = s + u
                           /\ ~reuse => power = s
  BY <1>a DEF BuyingPower
<1>7. CASE cost > power
  <2>1. Buy(l, f, reuse) = [l EXCEPT !.error = "overdraft"]
    BY <1>1, <1>c, <1>7 DEF Buy
  <2>3. Buy(l, f, reuse) \in Ledgers
    BY <2>1, RaisedIs DEF Errors
  <2> QED BY <2>3, <1>1, <1>7, <1>c
<1>8. CASE ~(cost > power)
  <2>1. cost - used <= s
    <3>1. CASE reuse
      <4>1. power = s + u /\ (u <= cost => used = u) /\ (~(u <= cost) => used = cost)
        BY <1>3, <1>c, <3>1
      <4> QED BY <4>1, <1>1, <1>4, <1>8, <1>a
    <3>2. CASE ~reuse
      BY <1>1, <1>d, <1>8, <1>a, <1>c, <3>2
    <3> QED BY <3>1, <3>2
  <2>2. PICK x \in Money : x = s - (cost - used) /\ x \in Nat
    <3>1. cost - used \in Money
      BY <1>1, <1>4, MoneyAdds
    <3> QED BY <2>1, <3>1, <1>a, MoneyAdds DEF Money
  <2>3. PICK y \in Money : y = u - used /\ y \in Nat
    BY <1>4, <1>a, MoneyAdds DEF Money
  <2>4. PICK h \in Holdings : h = [l.lots EXCEPT ![f.symbol] = @ + f.lots]
    BY <1>2, LedgerParts, HoldingsChanged
  <2>5. PICK m : m = [settled |-> x, unsettled |-> y, pending |-> o.rest, lots |-> h,
                      error |-> l.error]
    OBVIOUS
  <2>6. m \in Ledgers
    BY <2>5, <2>3, <1>5, <1>6, LedgerMade, LedgerParts
  <2>7. Buy(l, f, reuse) = [settled |-> l.settled - cost + used, unsettled |-> l.unsettled - used,
                            pending |-> o.rest, lots |-> [l.lots EXCEPT ![f.symbol] = @ + f.lots],
                            error |-> l.error]
    BY <1>1, <1>b, <1>5, <1>8, <1>c DEF Buy
  <2>8. l.settled - cost + used = x /\ l.unsettled - used = y
    BY <2>2, <2>3, <1>1, <1>4, <1>a
  <2>9. Buy(l, f, reuse) = m
    BY <2>4, <2>5, <2>7, <2>8
  <2>10. m.settled + m.unsettled = l.settled + l.unsettled + f.impact
    BY <2>2, <2>3, <2>5, <1>1, <1>4, <1>a
  <2>11. BuyingPower(m, reuse) = BuyingPower(l, reuse) + f.impact
    <3>1. (reuse => BuyingPower(m, reuse) = x + y) /\ (~reuse => BuyingPower(m, reuse) = x)
      BY <2>2, <2>3, <2>5 DEF BuyingPower
    <3>2. CASE reuse
      <4>1. BuyingPower(m, reuse) = x + y /\ power = s + u
        BY <3>1, <3>2, <1>c
      <4> QED BY <4>1, <2>2, <2>3, <1>1, <1>4, <1>a, <1>c
    <3>3. CASE ~reuse
      BY <3>1, <3>3, <2>2, <1>1, <1>d, <1>a, <1>c
    <3> QED BY <3>2, <3>3
  <2> QED BY <2>4, <2>5, <2>6, <2>9, <2>10, <2>11
<1> QED BY <1>7, <1>8

LEMMA SellIs ==
    ASSUME NEW l \in Ledgers, NEW f \in Fills, f.side = "sell", NEW day \in Int
    PROVE  \E m \in Ledgers :
              /\ m = Sell(l, f, day)
              /\ f.lots <= l.lots[f.symbol] =>
                    /\ m.settled = l.settled /\ m.unsettled = l.unsettled + f.impact
                    /\ m.lots = [l.lots EXCEPT ![f.symbol] = @ - f.lots]
                    /\ m.error = l.error
<1>1. f.impact \in Money /\ f.impact \in Nat /\ f.symbol \in Symbols /\ f.lots \in Nat
  BY DEF Fills, Money
<1>2. l.lots[f.symbol] \in Nat /\ l.lots \in Holdings
  BY <1>1, LedgerParts DEF Holdings
<1>3. CASE l.lots[f.symbol] < f.lots
  <2>1. Sell(l, f, day) = [l EXCEPT !.error = "oversold"]
    BY <1>3 DEF Sell
  <2>3. Sell(l, f, day) \in Ledgers
    BY <2>1, RaisedIs DEF Errors
  <2> QED BY <2>3, <1>1, <1>2, <1>3
<1>4. CASE ~(l.lots[f.symbol] < f.lots)
  <2>1. PICK y \in Money : y = l.unsettled + f.impact
    BY <1>1, LedgerParts, MoneyAdds
  <2>2. PICK h \in Holdings : h = [l.lots EXCEPT ![f.symbol] = @ - f.lots]
    <3>1. f.lots <= l.lots[f.symbol]
      BY <1>1, <1>2, <1>4
    <3> QED BY <1>1, <1>2, <3>1, HoldingsChanged
  <2>3. PICK item \in Receivable : item = [day |-> day, amount |-> f.impact]
    BY <1>1 DEF Receivable
  <2>4. PICK p \in Seq(Receivable) : p = Append(l.pending, item)
    <3>1. l.pending \in Seq(Receivable)
      BY LedgerParts
    <3>2. Append(l.pending, item) \in Seq(Receivable)
      BY <2>3, <3>1
    <3> QED BY <3>2, Zenon
  <2>5. Total(p) = y
    BY <2>1, <2>3, <2>4, TotalAppend, LedgerParts
  <2>6. PICK m : m = [settled |-> l.settled, unsettled |-> y, pending |-> p, lots |-> h,
                      error |-> l.error]
    OBVIOUS
  <2>7. m \in Ledgers
    BY <2>5, <2>6, LedgerMade, LedgerParts
  <2>8. Sell(l, f, day) = [l EXCEPT !.lots[f.symbol] = @ - f.lots,
                                    !.unsettled = @ + f.impact,
                                    !.pending = Append(@, [day |-> day, amount |-> f.impact])]
    BY <1>4 DEF Sell
  <2>9. Sell(l, f, day) = m
    BY <2>1, <2>2, <2>3, <2>4, <2>6, <2>8, LedgerParts
  <2> QED BY <2>1, <2>2, <2>6, <2>7, <2>9
<1> QED BY <1>3, <1>4

-----------------------------------------------------------------------------
(* What the positions are worth.                                           *)

PriceList == [Symbols -> LotPrices]

LEMMA PriceWhole ==
    ASSUME NEW price \in PriceList, NEW s \in Symbols
    PROVE  price[s] \in Money /\ price[s] \in Nat /\ price[s] > 0
<1>1. PICK p \in LotPrices : p = price[s]
  BY DEF PriceList
<1>2. p \in Money /\ p \in Nat
  BY LedgerAssumption DEF Money
<1>3. 1 * p > 0
  BY ImpactOfLots
<1> QED BY <1>1, <1>2, <1>3

ValueStep(sum, s, lots, price) == sum + lots[s] * price[s]

\* The value of the positions, symbol by symbol.
LEMMA ValueFold ==
    ASSUME NEW n \in Nat, SymbolOrder \in [1..n -> Symbols],
           NEW lots \in Holdings, NEW price \in PriceList
    PROVE  \E F \in [0..n -> Money] :
              /\ F[0] = 0
              /\ \A k \in 1..n : F[k] = ValueStep(F[k - 1], SymbolOrder[k], lots, price)
              /\ Value(lots, price) = F[n]
<1> DEFINE Rule(f) == f = [t \in SUBSET (DOMAIN SymbolOrder) |->
                             IF t = {} THEN 0
                             ELSE LET x == Max(t) IN ValueStep(f[t \ {x}], SymbolOrder[x], lots, price)]
           G == [p \in (1..n) \X Money |-> ValueStep(p[2], SymbolOrder[p[1]], lots, price)]
           iter == CHOOSE f : Rule(f)
<1>0. 0 \in Money
  BY MoneyZero
<1>1. /\ G \in [(1..n) \X Money -> Money]
      /\ \A k \in 1..n, x \in Money : G[<<k, x>>] = ValueStep(x, SymbolOrder[k], lots, price)
  <2>1. ASSUME NEW k \in 1..n, NEW x \in Money PROVE ValueStep(x, SymbolOrder[k], lots, price) \in Money
    BY PriceWhole, MoneyTimes, MoneyAdds DEF ValueStep, Holdings
  <2>2. G \in [(1..n) \X Money -> Money]
    BY <2>1
  <2>3. \A k \in 1..n, x \in Money : G[<<k, x>>] = ValueStep(x, SymbolOrder[k], lots, price)
    OBVIOUS
  <2> QED BY <2>2, <2>3
<1> HIDE DEF G
<1>2. \A t \in SUBSET (1..n) : t # {} => Max(t) \in 1..n /\ t \ {Max(t)} \in SUBSET (1..n)
  BY MaxOfSome, 1..n \subseteq 0..n
<1>3. PICK f \in [SUBSET (1..n) -> Money] : FoldOf(f, 0, n, G)
  BY <1>0, <1>1, FoldExists
<1>4. Rule(f)
  BY <1>1, <1>2, <1>3 DEF FoldOf
<1>5. Rule(iter)
  BY <1>4, Zenon
<1>6. Value(lots, price) = iter[DOMAIN SymbolOrder]
  BY DEF Value, FoldLeft, MapThenFoldSet, ValueStep
<1> HIDE DEF iter
<1>7. StepsBy(iter, Money, 0, n, G)
  BY <1>0, <1>1, <1>2, <1>5 DEF StepsBy
<1>8. Loops(Money, 0, n, G, iter[1..n])
  BY <1>7, FoldLoops
<1>9. DOMAIN SymbolOrder = 1..n
  OBVIOUS
<1> HIDE DEF Rule
<1>10. PICK F \in [0..n -> Money] :
          F[0] = 0 /\ F[n] = iter[1..n] /\ \A k \in 1..n : F[k] = G[<<k, F[k - 1]>>]
  BY <1>8 DEF Loops
<1>11. ASSUME NEW k \in 1..n PROVE F[k] = ValueStep(F[k - 1], SymbolOrder[k], lots, price)
  <2>1. F[k - 1] \in Money /\ F[k] = G[<<k, F[k - 1]>>]
    BY <1>10
  <2> QED BY <1>1, <2>1
<1> QED BY <1>6, <1>9, <1>10, <1>11

\* Each symbol is one of the list, at one place.
LEMMA SymbolListed ==
    \E n \in Nat :
       /\ n = Len(SymbolOrder) /\ SymbolOrder \in [1..n -> Symbols]
       /\ \A s \in Symbols : \E j \in 1..n :
             SymbolOrder[j] = s /\ \A k \in 1..n : SymbolOrder[k] = s => k = j
<1>1. PICK n \in Nat : n = Len(SymbolOrder) /\ SymbolOrder \in [1..n -> Symbols]
  BY SeqIsFunction, LedgerAssumption
<1>2. \A j, k \in 1..n : SymbolOrder[j] = SymbolOrder[k] => j = k
  BY <1>1, LedgerAssumption
<1>3. ASSUME NEW s \in Symbols
      PROVE  \E j \in 1..n :
                SymbolOrder[j] = s /\ \A k \in 1..n : SymbolOrder[k] = s => k = j
  <2>1. PICK j \in 1..n : SymbolOrder[j] = s
    BY <1>1 DEF Symbols
  <2> QED BY <1>2, <2>1
<1> QED BY <1>1, <1>3

LEMMA ValueType ==
    ASSUME NEW lots \in Holdings, NEW price \in PriceList
    PROVE  Value(lots, price) \in Money
<1>1. PICK n \in Nat : SymbolOrder \in [1..n -> Symbols]
  BY SymbolListed
<1> QED BY <1>1, ValueFold

\* A holder of anything holds something of worth.
LEMMA ValueHeld ==
    ASSUME NEW lots \in Holdings, NEW price \in PriceList, NEW s \in Symbols, lots[s] > 0
    PROVE  Value(lots, price) > 0
<1>1. PICK n \in Nat : /\ SymbolOrder \in [1..n -> Symbols]
                       /\ \E j \in 1..n : SymbolOrder[j] = s
  BY SymbolListed
<1>2. PICK j \in 1..n : SymbolOrder[j] = s
  BY <1>1
<1>3. PICK F \in [0..n -> Money] :
         /\ F[0] = 0
         /\ \A k \in 1..n : F[k] = ValueStep(F[k - 1], SymbolOrder[k], lots, price)
         /\ Value(lots, price) = F[n]
  BY <1>1, ValueFold
<1> DEFINE T == {k \in 0..n : k >= j => F[k] > 0}
<1>4. 0 \in T
  OBVIOUS
<1>5. ASSUME NEW k \in 1..n, k - 1 \in T PROVE k \in T
  <2>1. PICK x \in Symbols : x = SymbolOrder[k]
    BY <1>1
  <2>2. PICK h \in Nat, p \in Nat, a \in Nat :
           h = lots[x] /\ p = price[x] /\ p > 0 /\ a = F[k - 1]
    BY <1>3, PriceWhole DEF Holdings, Money
  <2>3. F[k] = a + h * p
    BY <1>3, <2>1, <2>2 DEF ValueStep
  <2>4. CASE k = j
    <3>1. h >= 1
      BY <1>2, <2>1, <2>2, <2>4
    <3>2. h * p >= p
      BY <2>2, <3>1
    <3> QED BY <2>2, <2>3, <3>2
  <2>5. CASE k # j
    <3>1. h * p >= 0
      BY <2>2
    <3>2. PICK b \in Int : b = h * p
      BY <2>2
    <3>3. k >= j => a > 0
      BY <1>5, <2>2, <2>5
    <3> QED BY <2>2, <2>3, <3>1, <3>2, <3>3
  <2> QED BY <2>4, <2>5
<1>6. \A k \in 0..n : k \in T
  <2> HIDE DEF T
  <2> QED BY <1>4, <1>5, CountingUp
<1> QED BY <1>3, <1>6

\* Lots of one symbol more or less are worth their price.
LEMMA ValueChange ==
    ASSUME NEW old \in Holdings, NEW lots \in Holdings, NEW price \in PriceList, NEW s \in Symbols,
           \A x \in Symbols : x # s => lots[x] = old[x]
    PROVE  Value(lots, price) - Value(old, price) = (lots[s] - old[s]) * price[s]
<1>1. PICK n \in Nat :
         /\ SymbolOrder \in [1..n -> Symbols]
         /\ \E j \in 1..n : SymbolOrder[j] = s /\ \A k \in 1..n : SymbolOrder[k] = s => k = j
  BY SymbolListed
<1>2. PICK j \in 1..n : SymbolOrder[j] = s /\ \A k \in 1..n : SymbolOrder[k] = s => k = j
  BY <1>1
<1>3. PICK F \in [0..n -> Money] :
         /\ F[0] = 0
         /\ \A k \in 1..n : F[k] = ValueStep(F[k - 1], SymbolOrder[k], old, price)
         /\ Value(old, price) = F[n]
  BY <1>1, ValueFold
<1>4. PICK H \in [0..n -> Money] :
         /\ H[0] = 0
         /\ \A k \in 1..n : H[k] = ValueStep(H[k - 1], SymbolOrder[k], lots, price)
         /\ Value(lots, price) = H[n]
  BY <1>1, ValueFold
<1>a. PICK p \in Nat, a \in Nat, b \in Nat : p = price[s] /\ a = old[s] /\ b = lots[s]
  BY PriceWhole DEF Holdings
<1>5. PICK d \in Int : d = (b - a) * p /\ d = (lots[s] - old[s]) * price[s]
  BY <1>a
<1>6. d = b * p - a * p
  BY <1>5
<1> DEFINE T == {k \in 0..n : H[k] = F[k] + IF k >= j THEN d ELSE 0}
<1>7. 0 \in T
  BY <1>3, <1>4
<1>8. ASSUME NEW k \in 1..n, k - 1 \in T PROVE k \in T
  <2>1. PICK x \in Symbols : x = SymbolOrder[k]
    BY <1>1
  <2>2. PICK y \in Nat, z \in Nat : y = F[k - 1] /\ z = H[k - 1]
    BY <1>3, <1>4 DEF Money
  <2>3. PICK v \in Int, w \in Int : v = old[x] * price[x] /\ w = lots[x] * price[x]
    BY PriceWhole DEF Holdings
  <2>4. F[k] = y + v /\ H[k] = z + w
    BY <1>3, <1>4, <2>1, <2>2, <2>3 DEF ValueStep
  <2>5. CASE k = j
    <3>1. x = s
      BY <1>2, <2>1, <2>5
    <3>2. v = a * p /\ w = b * p
      BY <1>a, <2>3, <3>1
    <3>3. z = y
      BY <1>8, <2>2, <2>5
    <3>4. H[k] = F[k] + d
      BY <1>6, <2>4, <3>2, <3>3
    <3> QED BY <2>5, <3>4
  <2>6. CASE k # j
    <3>1. v = w
      BY <1>2, <2>1, <2>3, <2>6
    <3>2. z = y + IF k >= j THEN d ELSE 0
      BY <1>8, <2>2, <2>6
    <3> QED BY <2>4, <3>1, <3>2
  <2> QED BY <2>5, <2>6
<1>9. \A k \in 0..n : k \in T
  <2> HIDE DEF T
  <2> QED BY <1>7, <1>8, CountingUp
<1>10. H[n] = F[n] + d
  BY <1>9
<1>11. F[n] \in Nat
  BY <1>3 DEF Money
<1> QED BY <1>3, <1>4, <1>5, <1>10, <1>11

-----------------------------------------------------------------------------
(* The fills, booked one after the other, and their fees.                  *)

FillStep(l, fill, day, reuse) ==
    IF l.error # "none" THEN l
    ELSE IF fill.side = "buy" THEN Buy(l, fill, reuse)
    ELSE Sell(l, fill, day)

LEMMA FillStepType ==
    ASSUME NEW l \in Ledgers, NEW fill \in Fills, NEW day \in Int, NEW reuse \in BOOLEAN
    PROVE  FillStep(l, fill, day, reuse) \in Ledgers
<1>1. CASE l.error # "none"
  BY <1>1 DEF FillStep
<1>2. CASE l.error = "none" /\ fill.side = "buy"
  <2>1. PICK m \in Ledgers : m = Buy(l, fill, reuse)
    <3>1. fill.side = "buy"
      BY <1>2
    <3> QED BY <3>1, BuyIs
  <2>2. FillStep(l, fill, day, reuse) = Buy(l, fill, reuse)
    BY <1>2 DEF FillStep
  <2> QED BY <2>1, <2>2
<1>3. CASE l.error = "none" /\ fill.side = "sell"
  <2>1. PICK m \in Ledgers : m = Sell(l, fill, day)
    <3>1. fill.side = "sell"
      BY <1>3
    <3> QED BY <3>1, SellIs
  <2>2. FillStep(l, fill, day, reuse) = Sell(l, fill, day)
    BY <1>3 DEF FillStep
  <2> QED BY <2>1, <2>2
<1>4. fill.side = "buy" \/ fill.side = "sell"
  BY DEF Fills
<1> QED BY <1>1, <1>2, <1>3, <1>4

\* What the booking of fills goes through.
LEMMA ApplyFillsFold ==
    ASSUME NEW n \in Nat, NEW s \in [1..n -> Fills],
           NEW ledger \in Ledgers, NEW day \in Int, NEW reuse \in BOOLEAN
    PROVE  \E F \in [0..n -> Ledgers] :
              /\ F[0] = ledger
              /\ \A k \in 1..n : F[k] = FillStep(F[k - 1], s[k], day, reuse)
              /\ ApplyFills(ledger, s, day, reuse) = F[n]
<1> DEFINE Rule(f) == f = [t \in SUBSET (DOMAIN s) |->
                             IF t = {} THEN ledger
                             ELSE LET x == Max(t) IN FillStep(f[t \ {x}], s[x], day, reuse)]
           G == [p \in (1..n) \X Ledgers |-> FillStep(p[2], s[p[1]], day, reuse)]
           iter == CHOOSE f : Rule(f)
<1>0. ledger \in Ledgers
  OBVIOUS
<1>1. /\ G \in [(1..n) \X Ledgers -> Ledgers]
      /\ \A k \in 1..n, x \in Ledgers : G[<<k, x>>] = FillStep(x, s[k], day, reuse)
  <2>1. ASSUME NEW k \in 1..n, NEW x \in Ledgers PROVE FillStep(x, s[k], day, reuse) \in Ledgers
    BY FillStepType
  <2>2. G \in [(1..n) \X Ledgers -> Ledgers]
    BY <2>1
  <2>3. \A k \in 1..n, x \in Ledgers : G[<<k, x>>] = FillStep(x, s[k], day, reuse)
    OBVIOUS
  <2> QED BY <2>2, <2>3
<1> HIDE DEF G
<1>2. \A t \in SUBSET (1..n) : t # {} => Max(t) \in 1..n /\ t \ {Max(t)} \in SUBSET (1..n)
  BY MaxOfSome, 1..n \subseteq 0..n
<1>3. PICK f \in [SUBSET (1..n) -> Ledgers] : FoldOf(f, ledger, n, G)
  BY <1>0, <1>1, FoldExists
<1>4. Rule(f)
  BY <1>1, <1>2, <1>3 DEF FoldOf
<1>5. Rule(iter)
  BY <1>4, Zenon
<1>6. ApplyFills(ledger, s, day, reuse) = iter[DOMAIN s]
  BY DEF ApplyFills, FoldLeft, MapThenFoldSet, FillStep
<1> HIDE DEF iter
<1>7. StepsBy(iter, Ledgers, ledger, n, G)
  BY <1>0, <1>1, <1>2, <1>5 DEF StepsBy
<1>8. Loops(Ledgers, ledger, n, G, iter[1..n])
  BY <1>7, FoldLoops
<1>9. DOMAIN s = 1..n
  OBVIOUS
<1> HIDE DEF Rule
<1>10. PICK F \in [0..n -> Ledgers] :
          F[0] = ledger /\ F[n] = iter[1..n] /\ \A k \in 1..n : F[k] = G[<<k, F[k - 1]>>]
  BY <1>8 DEF Loops
<1>11. ASSUME NEW k \in 1..n PROVE F[k] = FillStep(F[k - 1], s[k], day, reuse)
  <2>1. F[k - 1] \in Ledgers /\ F[k] = G[<<k, F[k - 1]>>]
    BY <1>10
  <2> QED BY <1>1, <2>1
<1> QED BY <1>6, <1>9, <1>10, <1>11

FeeTotal(fills) == FoldLeft(LAMBDA sum, fill : sum + Fees(fill), 0, fills)

LEMMA FeesType ==
    ASSUME NEW fill \in Fills
    PROVE  Fees(fill) \in Int
<1>1. fill.gross \in Nat /\ fill.impact \in Int
  BY DEF Fills, Money
<1> QED BY <1>1 DEF Fees

\* The fees of the fills in all.
LEMMA FeeFold ==
    ASSUME NEW n \in Nat, NEW s \in [1..n -> Fills]
    PROVE  \E F \in [0..n -> Int] :
              /\ F[0] = 0
              /\ \A k \in 1..n : F[k] = F[k - 1] + Fees(s[k])
              /\ FeeTotal(s) = F[n]
<1> DEFINE Rule(f) == f = [t \in SUBSET (DOMAIN s) |->
                             IF t = {} THEN 0
                             ELSE LET x == Max(t) IN f[t \ {x}] + Fees(s[x])]
           G == [p \in (1..n) \X Int |-> p[2] + Fees(s[p[1]])]
           iter == CHOOSE f : Rule(f)
<1>0. 0 \in Int
  OBVIOUS
<1>1. /\ G \in [(1..n) \X Int -> Int]
      /\ \A k \in 1..n, x \in Int : G[<<k, x>>] = x + Fees(s[k])
  <2>1. ASSUME NEW k \in 1..n, NEW x \in Int PROVE x + Fees(s[k]) \in Int
    BY FeesType
  <2>2. G \in [(1..n) \X Int -> Int]
    BY <2>1
  <2>3. \A k \in 1..n, x \in Int : G[<<k, x>>] = x + Fees(s[k])
    OBVIOUS
  <2> QED BY <2>2, <2>3
<1> HIDE DEF G
<1>2. \A t \in SUBSET (1..n) : t # {} => Max(t) \in 1..n /\ t \ {Max(t)} \in SUBSET (1..n)
  BY MaxOfSome, 1..n \subseteq 0..n
<1>3. PICK f \in [SUBSET (1..n) -> Int] : FoldOf(f, 0, n, G)
  BY <1>0, <1>1, FoldExists
<1>4. Rule(f)
  BY <1>1, <1>2, <1>3 DEF FoldOf
<1>5. Rule(iter)
  BY <1>4, Zenon
<1>6. FeeTotal(s) = iter[DOMAIN s]
  BY DEF FeeTotal, FoldLeft, MapThenFoldSet
<1> HIDE DEF iter
<1>7. StepsBy(iter, Int, 0, n, G)
  BY <1>0, <1>1, <1>2, <1>5 DEF StepsBy
<1>8. Loops(Int, 0, n, G, iter[1..n])
  BY <1>7, FoldLoops
<1>9. DOMAIN s = 1..n
  OBVIOUS
<1> HIDE DEF Rule
<1>10. PICK F \in [0..n -> Int] :
          F[0] = 0 /\ F[n] = iter[1..n] /\ \A k \in 1..n : F[k] = G[<<k, F[k - 1]>>]
  BY <1>8 DEF Loops
<1>11. ASSUME NEW k \in 1..n PROVE F[k] = F[k - 1] + Fees(s[k])
  <2>1. F[k - 1] \in Int /\ F[k] = G[<<k, F[k - 1]>>]
    BY <1>10
  <2> QED BY <1>1, <2>1
<1> QED BY <1>6, <1>9, <1>10, <1>11

\* There is money, or something that can be sold.
Solvent(l) == l.settled + l.unsettled > 0 \/ \E s \in Symbols : l.lots[s] > 0

\* A fill that is covered is booked: the buying power changes by what the
\* simulator counts, the worth by the fees, the lots of no other symbol.
LEMMA FillBooked ==
    ASSUME NEW l \in Ledgers, l.error = "none", NEW f \in Fills, NEW day \in Int,
           NEW reuse \in BOOLEAN, NEW price \in PriceList,
           f.gross = f.lots * price[f.symbol],
           f.side = "buy" => -f.impact <= BuyingPower(l, reuse),
           f.side = "sell" => f.lots <= l.lots[f.symbol]
    PROVE  \E m \in Ledgers :
              /\ m = FillStep(l, f, day, reuse)
              /\ m.error = "none" /\ Solvent(m)
              /\ BuyingPower(m, reuse) = BuyingPower(l, reuse) + Effect(f, reuse)
              /\ Worth(m, price) = Worth(l, price) - Fees(f)
              /\ \A x \in Symbols : x # f.symbol => m.lots[x] = l.lots[x]
<1>1. PICK s \in Symbols, n \in Nat, g \in Nat, i \in Int :
         s = f.symbol /\ n = f.lots /\ n > 0 /\ g = f.gross /\ i = f.impact
  BY DEF Fills, Money
<1>2. PICK a \in Nat, b \in Nat, v \in Nat, h \in Nat, p \in Nat :
         /\ a = l.settled /\ b = l.unsettled /\ v = Value(l.lots, price)
         /\ h = l.lots[s] /\ p = price[s]
  <2>1. l.lots \in Holdings
    BY LedgerParts
  <2>2. Value(l.lots, price) \in Nat /\ l.lots[s] \in Nat
    BY <2>1, ValueType DEF Money, Holdings
  <2> QED BY <2>2, LedgerParts, PriceWhole
<1>3. g = n * p
  BY <1>1, <1>2
<1>4. CASE f.side = "buy"
  <2>1. PICK m \in Ledgers :
           /\ m = Buy(l, f, reuse)
           /\ m.settled + m.unsettled = l.settled + l.unsettled + f.impact
           /\ BuyingPower(m, reuse) = BuyingPower(l, reuse) + f.impact
           /\ m.lots = [l.lots EXCEPT ![f.symbol] = @ + f.lots]
           /\ m.error = l.error
    BY <1>4, BuyIs
  <2>2. m = FillStep(l, f, day, reuse) /\ m.error = "none"
    BY <1>4, <2>1 DEF FillStep
  <2>3. PICK c \in Nat, d \in Nat : c = m.settled /\ d = m.unsettled /\ c + d = a + b + i
    BY <1>1, <1>2, <2>1, LedgerParts
  <2>4. m.lots \in Holdings /\ l.lots \in Holdings
    BY LedgerParts
  <2>5. m.lots[s] = h + n /\ \A x \in Symbols : x # s => m.lots[x] = l.lots[x]
    BY <1>1, <1>2, <2>1, <2>4 DEF Holdings
  <2>6. PICK w \in Nat : w = Value(m.lots, price) /\ w = v + g
    <3>1. PICK w \in Nat : w = Value(m.lots, price)
      BY <2>4, ValueType DEF Money
    <3>2. w - v = (m.lots[s] - l.lots[s]) * price[s]
      BY <1>2, <2>4, <2>5, <3>1, ValueChange
    <3>3. (m.lots[s] - l.lots[s]) * price[s] = n * p
      BY <1>2, <2>5
    <3> QED BY <1>3, <3>1, <3>2, <3>3
  <2>7. Worth(m, price) = c + d + w /\ Worth(l, price) = a + b + v
    BY <1>2, <2>3, <2>6 DEF Worth
  <2>8. Fees(f) = -i - g /\ Effect(f, reuse) = i
    BY <1>1, <1>4 DEF Fees, Effect
  <2>9. Worth(m, price) = Worth(l, price) - Fees(f)
    BY <2>3, <2>6, <2>7, <2>8
  <2>10. Solvent(m)
    BY <1>1, <2>5 DEF Solvent
  <2> QED BY <1>1, <2>1, <2>2, <2>5, <2>8, <2>9, <2>10
<1>5. CASE f.side = "sell"
  <2>1. PICK m \in Ledgers :
           /\ m = Sell(l, f, day)
           /\ m.settled = l.settled /\ m.unsettled = l.unsettled + f.impact
           /\ m.lots = [l.lots EXCEPT ![f.symbol] = @ - f.lots]
           /\ m.error = l.error
    BY <1>5, SellIs
  <2>2. m = FillStep(l, f, day, reuse) /\ m.error = "none"
    BY <1>5, <2>1 DEF FillStep
  <2>3. m.settled = a /\ m.unsettled = b + i /\ i > 0
    BY <1>1, <1>2, <1>5, <2>1 DEF Fills
  <2>4. m.lots \in Holdings /\ l.lots \in Holdings
    BY LedgerParts
  <2>5. m.lots[s] = h - n /\ \A x \in Symbols : x # s => m.lots[x] = l.lots[x]
    BY <1>1, <1>2, <2>1, <2>4 DEF Holdings
  <2>6. PICK w \in Nat : w = Value(m.lots, price) /\ w = v - g
    <3>1. PICK w \in Nat : w = Value(m.lots, price)
      BY <2>4, ValueType DEF Money
    <3>2. w - v = (m.lots[s] - l.lots[s]) * price[s]
      BY <1>2, <2>4, <2>5, <3>1, ValueChange
    <3>3. (m.lots[s] - l.lots[s]) * price[s] = (0 - n) * p
      BY <1>2, <2>5
    <3>4. (0 - n) * p = 0 - g
      BY <1>3
    <3> QED BY <3>1, <3>2, <3>3, <3>4
  <2>7. Worth(m, price) = a + (b + i) + w /\ Worth(l, price) = a + b + v
    BY <1>2, <2>3, <2>6 DEF Worth
  <2>8. Fees(f) = g - i
    BY <1>1, <1>5 DEF Fees
  <2>9. Worth(m, price) = Worth(l, price) - Fees(f)
    BY <2>6, <2>7, <2>8
  <2>10. Solvent(m)
    BY <2>3 DEF Solvent
  <2>11. BuyingPower(m, reuse) = BuyingPower(l, reuse) + Effect(f, reuse)
    <3>1. CASE reuse
      BY <1>1, <1>2, <2>3, <3>1 DEF BuyingPower, Effect
    <3>2. CASE ~reuse
      BY <1>1, <1>2, <1>5, <2>3, <3>2 DEF BuyingPower, Effect
    <3> QED BY <3>1, <3>2
  <2> QED BY <1>1, <2>2, <2>5, <2>9, <2>10, <2>11
<1>6. f.side = "buy" \/ f.side = "sell"
  BY DEF Fills
<1> QED BY <1>4, <1>5, <1>6

\* The money at hand before the first fill, after each fill, and in the end; it
\* covers each purchase.
Covers(P, fills, power, available, reuse) ==
    /\ P[0] = power /\ P[Len(fills)] = available
    /\ \A k \in 1..Len(fills) :
          /\ P[k] = P[k - 1] + Effect(fills[k], reuse)
          /\ fills[k].side = "buy" => -fills[k].impact <= P[k - 1]
Covered(fills, power, available, reuse) ==
    \E P \in [0..Len(fills) -> Money] : Covers(P, fills, power, available, reuse)

\* Fills of different symbols, at these prices, of no more than is held.
Bookable(fills, lots, price) ==
    /\ \A k \in 1..Len(fills) :
          /\ fills[k].gross = fills[k].lots * price[fills[k].symbol]
          /\ fills[k].side = "sell" => fills[k].lots <= lots[fills[k].symbol]
    /\ \A j, k \in 1..Len(fills) : fills[j].symbol = fills[k].symbol => j = k

\* Fills that the money covers are all booked.
LEMMA FillsBooked ==
    ASSUME NEW l \in Ledgers, l.error = "none", Solvent(l), NEW fills \in Seq(Fills),
           NEW day \in Int, NEW reuse \in BOOLEAN, NEW price \in PriceList, NEW available,
           Bookable(fills, l.lots, price),
           Covered(fills, BuyingPower(l, reuse), available, reuse)
    PROVE  \E m \in Ledgers :
              /\ m = ApplyFills(l, fills, day, reuse)
              /\ m.error = "none" /\ Solvent(m)
              /\ BuyingPower(m, reuse) = available
              /\ Worth(m, price) = Worth(l, price) - FeeTotal(fills)
<1>1. PICK n \in Nat : n = Len(fills) /\ fills \in [1..n -> Fills]
  BY SeqIsFunction
<1>2. PICK P \in [0..n -> Money] : Covers(P, fills, BuyingPower(l, reuse), available, reuse)
  BY <1>1 DEF Covered
<1>3. PICK F \in [0..n -> Ledgers] :
         /\ F[0] = l
         /\ \A k \in 1..n : F[k] = FillStep(F[k - 1], fills[k], day, reuse)
         /\ ApplyFills(l, fills, day, reuse) = F[n]
  BY <1>1, ApplyFillsFold
<1>4. PICK X \in [0..n -> Int] :
         X[0] = 0 /\ (\A k \in 1..n : X[k] = X[k - 1] + Fees(fills[k])) /\ FeeTotal(fills) = X[n]
  BY <1>1, FeeFold
<1>5. PICK w \in Int : w = Worth(l, price)
  <2>1. l.lots \in Holdings /\ l.settled \in Nat /\ l.unsettled \in Nat
    BY LedgerParts
  <2>2. Value(l.lots, price) \in Nat
    BY <2>1, ValueType DEF Money
  <2> QED BY <2>1, <2>2 DEF Worth
<1> DEFINE T == {k \in 0..n : /\ F[k].error = "none" /\ Solvent(F[k])
                              /\ BuyingPower(F[k], reuse) = P[k]
                              /\ Worth(F[k], price) = w - X[k]
                              /\ \A j \in 1..n : j > k =>
                                    F[k].lots[fills[j].symbol] = l.lots[fills[j].symbol]}
<1>6. 0 \in T
  BY <1>1, <1>2, <1>3, <1>4, <1>5 DEF Covers
<1>7. ASSUME NEW k \in 1..n, k - 1 \in T PROVE k \in T
  <2>1. PICK f \in Fills : f = fills[k]
    BY <1>1
  <2>2. PICK a \in Ledgers : a = F[k - 1]
    BY <1>3
  <2>3. a.error = "none" /\ BuyingPower(a, reuse) = P[k - 1] /\ Worth(a, price) = w - X[k - 1]
    BY <1>7, <2>2
  <2>4. f.gross = f.lots * price[f.symbol]
    BY <1>1, <2>1 DEF Bookable
  <2>5. f.side = "buy" => -f.impact <= BuyingPower(a, reuse)
    BY <1>1, <1>2, <2>1, <2>3 DEF Covers
  <2>6. a.lots[f.symbol] = l.lots[f.symbol]
    BY <1>7, <2>1, <2>2
  <2>7. f.side = "sell" => f.lots <= a.lots[f.symbol]
    BY <1>1, <2>1, <2>6 DEF Bookable
  <2>8. PICK m \in Ledgers :
           /\ m = FillStep(a, f, day, reuse)
           /\ m.error = "none" /\ Solvent(m)
           /\ BuyingPower(m, reuse) = BuyingPower(a, reuse) + Effect(f, reuse)
           /\ Worth(m, price) = Worth(a, price) - Fees(f)
           /\ \A x \in Symbols : x # f.symbol => m.lots[x] = a.lots[x]
    BY <2>3, <2>4, <2>5, <2>7, FillBooked
  <2>9. F[k] = m
    BY <1>3, <2>1, <2>2, <2>8
  <2>10. BuyingPower(m, reuse) = P[k]
    BY <1>1, <1>2, <2>1, <2>3, <2>8 DEF Covers
  <2>11. Worth(m, price) = w - X[k]
    <3>1. PICK x \in Int, y \in Int : x = X[k - 1] /\ y = Fees(f)
      BY <1>4, FeesType
    <3>2. X[k] = x + y /\ Worth(a, price) = w - x
      BY <1>4, <2>1, <2>3, <3>1
    <3> QED BY <2>8, <3>1, <3>2
  <2>12. ASSUME NEW j \in 1..n, j > k
         PROVE  m.lots[fills[j].symbol] = l.lots[fills[j].symbol]
    <3>1. fills[j].symbol # f.symbol /\ fills[j].symbol \in Symbols
      BY <1>1, <2>1, <2>12 DEF Bookable, Fills
    <3>2. a.lots[fills[j].symbol] = l.lots[fills[j].symbol]
      BY <1>7, <2>2, <2>12
    <3> QED BY <2>8, <3>1, <3>2
  <2> QED BY <2>8, <2>9, <2>10, <2>11, <2>12
<1>8. \A k \in 0..n : k \in T
  <2> HIDE DEF T
  <2> QED BY <1>6, <1>7, CountingUp
<1>9. n \in T
  BY <1>8
<1>10. PICK m \in Ledgers : m = F[n]
  BY <1>3
<1> QED BY <1>1, <1>2, <1>3, <1>4, <1>5, <1>9, <1>10 DEF Covers

-----------------------------------------------------------------------------
(* The simulator: one order.                                               *)

LEMMA AffordableIs ==
    ASSUME NEW n \in Nat, NEW p \in LotPrices, NEW available \in Nat
    PROVE  /\ AffordableLots(n, p, available) \in 0..n
           /\ AffordableLots(n, p, available) # 0 =>
                 -Impact("buy", AffordableLots(n, p, available) * p) <= available
<1> DEFINE S == {k \in 0..n : k = 0 \/ -Impact("buy", k * p) <= available}
<1>1. S \in SUBSET (0..n) /\ 0 \in S
  OBVIOUS
<1>2. Max(S) \in S
  <2> HIDE DEF S
  <2> QED BY <1>1, MaxOfSome
<1>3. AffordableLots(n, p, available) = Max(S)
  BY DEF AffordableLots
<1> HIDE DEF S
<1>4. PICK k : k = AffordableLots(n, p, available) /\ k \in S
  BY <1>2, <1>3
<1> QED BY <1>4 DEF S

LEMMA MarketIs ==
    ASSUME NEW order, order.lots \in Nat, NEW quote \in Quotes
    PROVE  MarketLots(order, quote) \in 0..order.lots
<1>1. quote.cap = NoCap \/ quote.cap \in Nat
  BY LedgerAssumption
<1>2. CASE ~quote.tradable
  BY <1>2 DEF MarketLots
<1>3. CASE quote.tradable /\ quote.cap = NoCap
  BY <1>3 DEF MarketLots
<1>4. CASE quote.tradable /\ quote.cap # NoCap
  <2>1. Min({order.lots, quote.cap}) = IF order.lots <= quote.cap THEN order.lots ELSE quote.cap
    BY <1>1, <1>4, MinOfTwo
  <2>2. MarketLots(order, quote) = Min({order.lots, quote.cap})
    BY <1>4 DEF MarketLots
  <2> QED BY <1>1, <1>4, <2>1, <2>2
<1> QED BY <1>2, <1>3, <1>4

LEMMA FillIs ==
    ASSUME NEW s \in Symbols, NEW side \in {"buy", "sell"}, NEW n \in Nat \ {0}, NEW p \in LotPrices
    PROVE  \E f \in Fills : /\ f = Fill(s, side, n, p)
                            /\ f.symbol = s /\ f.side = side /\ f.lots = n /\ f.gross = n * p
                            /\ f.impact = Impact(side, n * p)
<1>1. PICK g \in Money, i \in Int :
         /\ g = n * p /\ i = Impact(side, g)
         /\ side = "buy" => -i \in Money
         /\ side = "sell" => i \in Money /\ i > 0
  <2>1. PICK g \in Money : g = n * p
    BY ImpactOfLots
  <2>2. CASE side = "buy"
    <3>1. -Impact("buy", g) \in Money
      BY <2>1, ImpactOfLots
    <3>2. Impact("buy", g) \in Int
      <4>1. g \in Nat /\ Commission(g) \in Nat
        BY FeesRounded DEF Money
      <4> QED BY <4>1 DEF Impact
    <3> QED BY <2>1, <2>2, <3>1, <3>2
  <2>3. CASE side = "sell"
    <3>1. Impact("sell", g) \in Money /\ Impact("sell", g) > 0 /\ Impact("sell", g) \in Int
      BY <2>1, ImpactOfLots DEF Money
    <3> QED BY <2>1, <2>3, <3>1
  <2> QED BY <2>2, <2>3
<1>2. Fill(s, side, n, p) = [symbol |-> s, side |-> side, lots |-> n, gross |-> g, impact |-> i]
  BY <1>1 DEF Fill
<1>3. [symbol |-> s, side |-> side, lots |-> n, gross |-> g, impact |-> i] \in Fills
  BY <1>1 DEF Fills
<1> QED BY <1>1, <1>2, <1>3

SideAcc == [fills : Seq(Fills), available : Money, voided : BOOLEAN]

\* The batch is void, there is nothing to fill, or there is a fill, which the
\* money covers; under void_batch it is all the market gives.
LEMMA ExecuteIs ==
    ASSUME NEW acc \in SideAcc, NEW s \in Symbols, NEW order, order.lots \in Nat,
           order.side \in {"buy", "sell"}, NEW quote \in Quotes,
           NEW reuse \in BOOLEAN, NEW voidBatch \in BOOLEAN
    PROVE  \E m \in SideAcc :
              /\ m = Execute(acc, s, order, quote, reuse, voidBatch)
              /\ \/ m.fills = acc.fills /\ m.available = acc.available /\ m.voided
                 \/ m = acc /\ (voidBatch => MarketLots(order, quote) = 0)
                 \/ \E f \in Fills :
                      /\ m.fills = Append(acc.fills, f)
                      /\ m.available = acc.available + Effect(f, reuse)
                      /\ m.voided = acc.voided
                      /\ f.symbol = s /\ f.side = order.side /\ f.gross = f.lots * quote.price
                      /\ f.lots <= order.lots
                      /\ f.side = "buy" => -f.impact <= acc.available
                      /\ voidBatch => f.lots = MarketLots(order, quote)
<1>1. PICK market \in Nat : market = MarketLots(order, quote) /\ market <= order.lots
  BY MarketIs
<1>2. PICK p \in LotPrices : p = quote.price
  BY LedgerAssumption
<1>3. PICK a \in Money : a = acc.available /\ a \in Nat
  BY DEF SideAcc, Money
<1>4. PICK n \in 0..market :
         /\ n = IF order.side = "sell" THEN market ELSE AffordableLots(market, quote.price, acc.available)
         /\ order.side = "buy" /\ n # 0 => -Impact("buy", n * p) <= a
  <2>1. CASE order.side = "sell"
    BY <2>1
  <2>2. CASE order.side = "buy"
    <3>1. PICK n \in 0..market : n = AffordableLots(market, p, a) /\ (n # 0 => -Impact("buy", n * p) <= a)
      BY <1>1, <1>2, <1>3, AffordableIs
    <3> QED BY <1>2, <1>3, <2>2, <3>1
  <2> QED BY <2>1, <2>2
<1>5. PICK fill : fill = Fill(s, order.side, n, quote.price)
  OBVIOUS
<1>6. Execute(acc, s, order, quote, reuse, voidBatch) =
         IF n < market /\ voidBatch THEN [acc EXCEPT !.voided = TRUE]
         ELSE IF n = 0 THEN acc
         ELSE [fills |-> Append(acc.fills, fill),
               available |-> acc.available + IF order.side = "buy" \/ reuse THEN fill.impact ELSE 0,
               voided |-> acc.voided]
  BY <1>1, <1>4, <1>5 DEF Execute
<1>7. CASE n < market /\ voidBatch
  <2>1. PICK m : m = [acc EXCEPT !.voided = TRUE]
    OBVIOUS
  <2>2. m \in SideAcc /\ m.fills = acc.fills /\ m.available = acc.available /\ m.voided
    BY <2>1 DEF SideAcc
  <2> QED BY <1>6, <1>7, <2>1, <2>2
<1>8. CASE ~(n < market /\ voidBatch) /\ n = 0
  <2>1. voidBatch => market = 0
    BY <1>8
  <2>2. Execute(acc, s, order, quote, reuse, voidBatch) = acc
    BY <1>6, <1>8
  <2> QED BY <1>1, <2>1, <2>2
<1>9. CASE ~(n < market /\ voidBatch) /\ n # 0
  <2>1. PICK f \in Fills :
           /\ f = fill /\ f.symbol = s /\ f.side = order.side /\ f.lots = n /\ f.gross = n * p
           /\ f.impact = Impact(order.side, n * p)
    BY <1>2, <1>5, <1>9, FillIs
  <2>2. f.side = "buy" => -f.impact <= a
    BY <1>4, <1>9, <2>1
  <2>3. PICK b \in Money : b = a + Effect(f, reuse)
    <3>1. CASE f.side = "buy"
      <4>1. PICK c \in Money : c = -f.impact /\ c \in Nat /\ c <= a /\ f.impact = 0 - c
        BY <2>2, <3>1 DEF Fills, Money
      <4>2. a - c \in Money
        BY <1>3, <4>1, MoneyAdds
      <4>3. a + Effect(f, reuse) = a - c
        BY <1>3, <3>1, <4>1 DEF Effect
      <4> QED BY <4>2, <4>3
    <3>2. CASE f.side = "sell"
      <4>1. f.impact \in Money
        BY <3>2 DEF Fills
      <4>2. Effect(f, reuse) \in Money
        BY <3>2, <4>1, MoneyZero DEF Effect
      <4> QED BY <4>2, MoneyAdds
    <3> QED BY <3>1, <3>2 DEF Fills
  <2>4. PICK m : m = [fills |-> Append(acc.fills, f), available |-> b, voided |-> acc.voided]
    OBVIOUS
  <2>5. acc.fills \in Seq(Fills) /\ acc.voided \in BOOLEAN
    BY DEF SideAcc
  <2>6. m \in SideAcc
    <3>1. Append(acc.fills, f) \in Seq(Fills)
      BY <2>5
    <3> QED BY <2>4, <2>5, <3>1, <2>3 DEF SideAcc
  <2>7. Execute(acc, s, order, quote, reuse, voidBatch) = m
    BY <1>3, <1>6, <1>9, <2>1, <2>3, <2>4 DEF Effect
  <2>8. voidBatch => f.lots = MarketLots(order, quote)
    BY <1>1, <1>9, <2>1
  <2>9. f.lots <= order.lots
    BY <1>1, <2>1
  <2>10. f.gross = f.lots * quote.price
    BY <1>2, <2>1
  <2>11. m.fills = Append(acc.fills, f) /\ m.available = acc.available + Effect(f, reuse)
          /\ m.voided = acc.voided
    BY <1>3, <2>3, <2>4
  <2> QED BY <1>3, <2>1, <2>2, <2>6, <2>7, <2>8, <2>9, <2>10, <2>11
<1> QED BY <1>7, <1>8, <1>9

-----------------------------------------------------------------------------
(* The simulator: a batch.                                                 *)

Quoted == [Symbols -> Quotes]
PricesIn(quotes) == [s \in Symbols |-> quotes[s].price]

\* Orders of known symbols that sell no more than is held.
OrdersOn(orders, lots) ==
    /\ DOMAIN orders \subseteq Symbols
    /\ \A s \in DOMAIN orders :
          /\ orders[s].side \in {"buy", "sell"} /\ orders[s].lots \in Nat
          /\ orders[s].side = "sell" => orders[s].lots <= lots[s]

\* What a batch is run with.
Batch(orders, quotes, lots, reuse, voidBatch) ==
    /\ quotes \in Quoted /\ lots \in Holdings /\ reuse \in BOOLEAN /\ voidBatch \in BOOLEAN
    /\ OrdersOn(orders, lots)

\* Where the simulator is when it has gone through these symbols.
Executed(acc, done, orders, quotes, lots, power, reuse, voidBatch) ==
    /\ Bookable(acc.fills, lots, PricesIn(quotes))
    /\ Covered(acc.fills, power, acc.available, reuse)
    /\ \A k \in 1..Len(acc.fills) : acc.fills[k].symbol \in done
    /\ ~acc.voided /\ voidBatch =>
          \A s \in done : MarketLots(orders[s], quotes[s]) # 0 =>
             \E k \in 1..Len(acc.fills) :
                acc.fills[k].symbol = s /\ acc.fills[k].lots = MarketLots(orders[s], quotes[s])

LEMMA PricesQuoted ==
    ASSUME NEW quotes \in Quoted
    PROVE  PricesIn(quotes) \in PriceList /\ \A s \in Symbols : PricesIn(quotes)[s] = quotes[s].price
BY LedgerAssumption DEF PricesIn, PriceList, Quoted

LEMMA CoveredMore ==
    ASSUME NEW fills \in Seq(Fills), NEW f \in Fills, NEW power, NEW a \in Money, NEW b \in Money,
           NEW reuse, Covered(fills, power, a, reuse),
           b = a + Effect(f, reuse), f.side = "buy" => -f.impact <= a
    PROVE  Covered(Append(fills, f), power, b, reuse)
<1>1. PICK n \in Nat : n = Len(fills)
  OBVIOUS
<1>2. PICK P \in [0..n -> Money] : Covers(P, fills, power, a, reuse)
  BY <1>1 DEF Covered
<1>3. PICK r : r = Append(fills, f)
  OBVIOUS
<1>4. Len(r) = n + 1 /\ r[n + 1] = f /\ \A k \in 1..n : r[k] = fills[k]
  BY <1>1, <1>3
<1>5. PICK Q : Q = [k \in 0..(n + 1) |-> IF k = n + 1 THEN b ELSE P[k]]
  OBVIOUS
<1>6. Q \in [0..(n + 1) -> Money]
  BY <1>5
<1>7. Q[n + 1] = b /\ \A k \in 0..n : Q[k] = P[k]
  BY <1>5
<1>8. P[0] = power /\ P[n] = a
  BY <1>1, <1>2 DEF Covers
<1>9. ASSUME NEW k \in 1..(n + 1)
      PROVE  Q[k] = Q[k - 1] + Effect(r[k], reuse) /\ (r[k].side = "buy" => -r[k].impact <= Q[k - 1])
  <2>1. CASE k = n + 1
    <3>1. Q[k - 1] = a
      BY <1>7, <1>8, <2>1
    <3> QED BY <1>4, <1>7, <2>1, <3>1
  <2>2. CASE k # n + 1
    <3>1. k \in 1..n /\ k - 1 \in 0..n
      BY <2>2
    <3>2. Q[k] = P[k] /\ Q[k - 1] = P[k - 1] /\ r[k] = fills[k]
      BY <1>4, <1>7, <3>1
    <3> QED BY <1>1, <1>2, <3>1, <3>2 DEF Covers
  <2> QED BY <2>1, <2>2
<1>10. Covers(Q, r, power, b, reuse)
  BY <1>4, <1>7, <1>8, <1>9 DEF Covers
<1> QED BY <1>3, <1>4, <1>6, <1>10 DEF Covered

\* One order more.
LEMMA OrderExecuted ==
    ASSUME NEW acc \in SideAcc, NEW done, NEW orders, NEW quotes, NEW lots, NEW power, NEW reuse,
           NEW voidBatch, NEW s \in DOMAIN orders,
           Batch(orders, quotes, lots, reuse, voidBatch), s \notin done,
           Executed(acc, done, orders, quotes, lots, power, reuse, voidBatch)
    PROVE  \E m \in SideAcc :
              /\ m = Execute(acc, s, orders[s], quotes[s], reuse, voidBatch)
              /\ Executed(m, done \cup {s}, orders, quotes, lots, power, reuse, voidBatch)
<1>1. s \in Symbols /\ orders[s].side \in {"buy", "sell"} /\ orders[s].lots \in Nat
      /\ (orders[s].side = "sell" => orders[s].lots <= lots[s]) /\ quotes[s] \in Quotes
  BY DEF Batch, OrdersOn, Quoted
<1>b. quotes \in Quoted /\ lots \in Holdings /\ reuse \in BOOLEAN /\ voidBatch \in BOOLEAN
  BY DEF Batch
<1>2. PICK market \in Nat : market = MarketLots(orders[s], quotes[s])
  BY <1>1, MarketIs
<1>3. PICK m \in SideAcc :
         /\ m = Execute(acc, s, orders[s], quotes[s], reuse, voidBatch)
         /\ \/ m.fills = acc.fills /\ m.available = acc.available /\ m.voided
            \/ m = acc /\ (voidBatch => market = 0)
            \/ \E f \in Fills :
                 /\ m.fills = Append(acc.fills, f)
                 /\ m.available = acc.available + Effect(f, reuse)
                 /\ m.voided = acc.voided
                 /\ f.symbol = s /\ f.side = orders[s].side /\ f.gross = f.lots * quotes[s].price
                 /\ f.lots <= orders[s].lots
                 /\ f.side = "buy" => -f.impact <= acc.available
                 /\ voidBatch => f.lots = market
  BY <1>1, <1>2, <1>b, ExecuteIs
<1>4. CASE m.fills = acc.fills /\ m.available = acc.available /\ m.voided
  BY <1>3, <1>4 DEF Executed
<1>5. CASE m = acc /\ (voidBatch => market = 0)
  BY <1>2, <1>3, <1>5 DEF Executed
<1>6. ASSUME NEW f \in Fills,
             m.fills = Append(acc.fills, f),
             m.available = acc.available + Effect(f, reuse),
             m.voided = acc.voided,
             f.symbol = s, f.side = orders[s].side, f.gross = f.lots * quotes[s].price,
             f.lots <= orders[s].lots,
             f.side = "buy" => -f.impact <= acc.available,
             voidBatch => f.lots = market
      PROVE  Executed(m, done \cup {s}, orders, quotes, lots, power, reuse, voidBatch)
  <2>1. PICK n \in Nat : n = Len(acc.fills) /\ acc.fills \in Seq(Fills) /\ acc.fills \in [1..n -> Fills]
    BY SeqIsFunction DEF SideAcc
  <2>2. Len(m.fills) = n + 1 /\ m.fills[n + 1] = f /\ \A k \in 1..n : m.fills[k] = acc.fills[k]
    BY <1>6, <2>1
  <2>3. Bookable(m.fills, lots, PricesIn(quotes))
    <3>1. f.gross = f.lots * PricesIn(quotes)[f.symbol] /\ (f.side = "sell" => f.lots <= lots[f.symbol])
      <4>1. f.lots \in Nat /\ lots[s] \in Nat
        BY <1>1, <1>b DEF Fills, Holdings
      <4>2. f.gross = f.lots * PricesIn(quotes)[f.symbol]
        BY <1>1, <1>6, <1>b, PricesQuoted
      <4>3. f.side = "sell" => f.lots <= orders[s].lots /\ orders[s].lots <= lots[s]
        BY <1>1, <1>6
      <4> QED BY <4>1, <4>2, <4>3, <1>1, <1>6
    <3>2. \A k \in 1..n : acc.fills[k].symbol # s
      BY <2>1 DEF Executed
    <3>3. Bookable(acc.fills, lots, PricesIn(quotes))
      BY DEF Executed
    <3>4. ASSUME NEW k \in 1..(n + 1)
          PROVE  /\ m.fills[k].gross = m.fills[k].lots * PricesIn(quotes)[m.fills[k].symbol]
                 /\ m.fills[k].side = "sell" => m.fills[k].lots <= lots[m.fills[k].symbol]
      <4>1. CASE k = n + 1
        BY <2>2, <3>1, <4>1
      <4>2. CASE k # n + 1
        <5>1. k \in 1..n /\ m.fills[k] = acc.fills[k]
          BY <2>2, <4>2
        <5> QED BY <2>1, <3>3, <5>1 DEF Bookable
      <4> QED BY <4>1, <4>2
    <3>5. ASSUME NEW j \in 1..(n + 1), NEW k \in 1..(n + 1), m.fills[j].symbol = m.fills[k].symbol
          PROVE  j = k
      BY <1>6, <2>1, <2>2, <3>2, <3>3, <3>5 DEF Bookable
    <3> QED BY <2>2, <3>4, <3>5 DEF Bookable
  <2>4. Covered(m.fills, power, m.available, reuse)
    <3>1. acc.available \in Money /\ m.available \in Money
      BY DEF SideAcc
    <3>2. Covered(acc.fills, power, acc.available, reuse)
      BY DEF Executed
    <3> QED BY <1>6, <2>1, <3>1, <3>2, CoveredMore
  <2>5. ASSUME NEW k \in 1..(n + 1) PROVE m.fills[k].symbol \in done \cup {s}
    BY <1>6, <2>1, <2>2 DEF Executed
  <2>6. ASSUME ~m.voided, voidBatch, NEW x \in done \cup {s},
               MarketLots(orders[x], quotes[x]) # 0
        PROVE  \E k \in 1..(n + 1) :
                  m.fills[k].symbol = x /\ m.fills[k].lots = MarketLots(orders[x], quotes[x])
    <3>1. CASE x = s
      BY <1>2, <1>6, <2>2, <2>6, <3>1
    <3>2. CASE x \in done
      <4>1. PICK k \in 1..n :
               acc.fills[k].symbol = x /\ acc.fills[k].lots = MarketLots(orders[x], quotes[x])
        BY <1>6, <2>1, <2>6, <3>2 DEF Executed
      <4> QED BY <2>2, <4>1
    <3> QED BY <3>1, <3>2
  <2> QED BY <2>2, <2>3, <2>4, <2>5, <2>6 DEF Executed
<1> QED BY <1>3, <1>4, <1>5, <1>6

SideStep(acc, s, side, orders, quotes, reuse, voidBatch) ==
    IF acc.voided \/ s \notin DOMAIN orders THEN acc
    ELSE IF orders[s].side # side THEN acc
    ELSE Execute(acc, s, orders[s], quotes[s], reuse, voidBatch)

LEMMA SideStepType ==
    ASSUME NEW acc \in SideAcc, NEW s \in Symbols, NEW side, NEW orders, NEW quotes, NEW lots,
           NEW reuse, NEW voidBatch, Batch(orders, quotes, lots, reuse, voidBatch)
    PROVE  SideStep(acc, s, side, orders, quotes, reuse, voidBatch) \in SideAcc
<1>1. CASE acc.voided \/ s \notin DOMAIN orders
  BY <1>1 DEF SideStep
<1>2. CASE ~(acc.voided \/ s \notin DOMAIN orders)
  <2>1. orders[s].side \in {"buy", "sell"} /\ orders[s].lots \in Nat /\ quotes[s] \in Quotes
    BY <1>2 DEF Batch, OrdersOn, Quoted
  <2>a. reuse \in BOOLEAN /\ voidBatch \in BOOLEAN
    BY DEF Batch
  <2>2. PICK m \in SideAcc : m = Execute(acc, s, orders[s], quotes[s], reuse, voidBatch)
    BY <2>1, <2>a, ExecuteIs
  <2> QED BY <1>2, <2>2 DEF SideStep
<1> QED BY <1>1, <1>2

\* The orders of a side, symbol by symbol.
SideLoops(n, start, side, orders, quotes, reuse, voidBatch) ==
    \E F \in [0..n -> SideAcc] :
       /\ F[0] = start
       /\ \A k \in 1..n :
             F[k] = SideStep(F[k - 1], SymbolOrder[k], side, orders, quotes, reuse, voidBatch)
       /\ ExecuteSide(start, side, orders, quotes, reuse, voidBatch) = F[n]

LEMMA SideFold ==
    ASSUME NEW n \in Nat, NEW start \in SideAcc, NEW side, NEW orders, NEW quotes, NEW lots,
           NEW reuse, NEW voidBatch, SymbolOrder \in [1..n -> Symbols],
           Batch(orders, quotes, lots, reuse, voidBatch)
    PROVE  SideLoops(n, start, side, orders, quotes, reuse, voidBatch)
<1> DEFINE Rule(f) == f = [t \in SUBSET (DOMAIN SymbolOrder) |->
                             IF t = {} THEN start
                             ELSE LET x == Max(t) IN SideStep(f[t \ {x}], SymbolOrder[x], side, orders, quotes, reuse, voidBatch)]
           G == [p \in (1..n) \X SideAcc |-> SideStep(p[2], SymbolOrder[p[1]], side, orders, quotes, reuse, voidBatch)]
           iter == CHOOSE f : Rule(f)
<1>0. start \in SideAcc
  OBVIOUS
<1>1. /\ G \in [(1..n) \X SideAcc -> SideAcc]
      /\ \A k \in 1..n, x \in SideAcc : G[<<k, x>>] = SideStep(x, SymbolOrder[k], side, orders, quotes, reuse, voidBatch)
  <2>1. ASSUME NEW k \in 1..n, NEW x \in SideAcc PROVE SideStep(x, SymbolOrder[k], side, orders, quotes, reuse, voidBatch) \in SideAcc
    BY SideStepType
  <2>2. G \in [(1..n) \X SideAcc -> SideAcc]
    BY <2>1
  <2>3. \A k \in 1..n, x \in SideAcc : G[<<k, x>>] = SideStep(x, SymbolOrder[k], side, orders, quotes, reuse, voidBatch)
    OBVIOUS
  <2> QED BY <2>2, <2>3
<1> HIDE DEF G
<1>2. \A t \in SUBSET (1..n) : t # {} => Max(t) \in 1..n /\ t \ {Max(t)} \in SUBSET (1..n)
  BY MaxOfSome, 1..n \subseteq 0..n
<1>3. PICK f \in [SUBSET (1..n) -> SideAcc] : FoldOf(f, start, n, G)
  BY <1>0, <1>1, FoldExists
<1>4. Rule(f)
  BY <1>1, <1>2, <1>3 DEF FoldOf
<1>5. Rule(iter)
  BY <1>4, Zenon
<1>6. ExecuteSide(start, side, orders, quotes, reuse, voidBatch) = iter[DOMAIN SymbolOrder]
  BY DEF ExecuteSide, FoldLeft, MapThenFoldSet, SideStep
<1> HIDE DEF iter
<1>7. StepsBy(iter, SideAcc, start, n, G)
  BY <1>0, <1>1, <1>2, <1>5 DEF StepsBy
<1>8. Loops(SideAcc, start, n, G, iter[1..n])
  BY <1>7, FoldLoops
<1>9. DOMAIN SymbolOrder = 1..n
  OBVIOUS
<1> HIDE DEF Rule
<1>10. PICK F \in [0..n -> SideAcc] :
          F[0] = start /\ F[n] = iter[1..n] /\ \A k \in 1..n : F[k] = G[<<k, F[k - 1]>>]
  BY <1>8 DEF Loops
<1>11. ASSUME NEW k \in 1..n PROVE F[k] = SideStep(F[k - 1], SymbolOrder[k], side, orders, quotes, reuse, voidBatch)
  <2>1. F[k - 1] \in SideAcc /\ F[k] = G[<<k, F[k - 1]>>]
    BY <1>10
  <2> QED BY <1>1, <2>1
<1> QED BY <1>6, <1>9, <1>10, <1>11 DEF SideLoops

OfSide(side, orders) == {s \in DOMAIN orders : orders[s].side = side}

\* All the orders of a side.
LEMMA SideExecuted ==
    ASSUME NEW start \in SideAcc, NEW side, NEW done, NEW orders, NEW quotes, NEW lots,
           NEW power, NEW reuse, NEW voidBatch,
           Batch(orders, quotes, lots, reuse, voidBatch), done \cap OfSide(side, orders) = {},
           Executed(start, done, orders, quotes, lots, power, reuse, voidBatch)
    PROVE  \E m \in SideAcc :
              /\ m = ExecuteSide(start, side, orders, quotes, reuse, voidBatch)
              /\ Executed(m, done \cup OfSide(side, orders), orders, quotes, lots, power, reuse, voidBatch)
<1>1. PICK n \in Nat :
         /\ SymbolOrder \in [1..n -> Symbols]
         /\ \A s \in Symbols : \E j \in 1..n :
               SymbolOrder[j] = s /\ \A k \in 1..n : SymbolOrder[k] = s => k = j
  BY SymbolListed
<1>a. SymbolOrder \in [1..n -> Symbols]
  BY <1>1
<1>b. SideLoops(n, start, side, orders, quotes, reuse, voidBatch)
  BY <1>1, <1>a, SideFold
<1>2. PICK F \in [0..n -> SideAcc] :
         /\ F[0] = start
         /\ \A k \in 1..n :
               F[k] = SideStep(F[k - 1], SymbolOrder[k], side, orders, quotes, reuse, voidBatch)
         /\ ExecuteSide(start, side, orders, quotes, reuse, voidBatch) = F[n]
  BY <1>b DEF SideLoops
<1> DEFINE D(k) == done \cup {s \in OfSide(side, orders) : \E j \in 1..k : SymbolOrder[j] = s}
           T == {k \in 0..n : Executed(F[k], D(k), orders, quotes, lots, power, reuse, voidBatch)}
<1>3. 0 \in T
  <2>1. D(0) = done
    OBVIOUS
  <2>2. Executed(F[0], D(0), orders, quotes, lots, power, reuse, voidBatch)
    BY <1>2, <2>1, Zenon
  <2>3. 0 \in 0..n
    OBVIOUS
  <2> HIDE DEF D
  <2> QED BY <2>2, <2>3
<1>4. ASSUME NEW k \in 1..n, k - 1 \in T PROVE k \in T
  <2>1. PICK acc \in SideAcc : acc = F[k - 1]
    BY <1>2
  <2>2. PICK s \in Symbols : s = SymbolOrder[k]
    BY <1>1
  <2>3. Executed(acc, D(k - 1), orders, quotes, lots, power, reuse, voidBatch)
    <3> HIDE DEF D
    <3> QED BY <1>4, <2>1
  <2>4. F[k] = SideStep(acc, s, side, orders, quotes, reuse, voidBatch)
    BY <1>2, <2>1, <2>2
  <2>5. 1..k = (1..(k - 1)) \cup {k}
    OBVIOUS
  <2>6. CASE s \notin OfSide(side, orders)
    <3>1. D(k) = D(k - 1)
      BY <2>2, <2>5, <2>6
    <3>2. F[k] = acc
      BY <2>4, <2>6 DEF SideStep, OfSide
    <3>3. Executed(F[k], D(k), orders, quotes, lots, power, reuse, voidBatch)
      BY <2>3, <3>1, <3>2, Zenon
    <3> HIDE DEF D
    <3> QED BY <3>3, k \in 0..n
  <2>7. CASE s \in OfSide(side, orders)
    <3>1. D(k) = D(k - 1) \cup {s}
      BY <2>2, <2>5, <2>7
    <3>2. s \notin D(k - 1)
      <4>1. \A j \in 1..(k - 1) : SymbolOrder[j] # s
        BY <1>1, <2>2
      <4> QED BY <2>7, <4>1
    <3>3. s \in DOMAIN orders /\ orders[s].side = side
      BY <2>7 DEF OfSide
    <3> HIDE DEF D
    <3>4. CASE acc.voided
      <4>1. F[k] = acc
        BY <2>4, <3>4 DEF SideStep
      <4>2. Executed(acc, D(k), orders, quotes, lots, power, reuse, voidBatch)
        BY <2>3, <3>1, <3>4 DEF Executed
      <4> QED BY <4>1, <4>2, k \in 0..n
    <3>5. CASE ~acc.voided
      <4>a. PICK before : before = D(k - 1)
        OBVIOUS
      <4>b. s \notin before /\ Executed(acc, before, orders, quotes, lots, power, reuse, voidBatch)
        BY <2>3, <3>2, <4>a, Zenon
      <4>c. PICK m \in SideAcc :
               /\ m = Execute(acc, s, orders[s], quotes[s], reuse, voidBatch)
               /\ Executed(m, before \cup {s}, orders, quotes, lots, power, reuse, voidBatch)
        <5>1. s \in DOMAIN orders /\ s \notin before
          BY <3>3, <4>b
        <5> QED BY <2>1, <4>b, <5>1, OrderExecuted
      <4>1. Executed(m, D(k - 1) \cup {s}, orders, quotes, lots, power, reuse, voidBatch)
        BY <4>a, <4>c, Zenon
      <4>2. F[k] = m
        BY <2>4, <3>3, <3>5, <4>c DEF SideStep
      <4>3. Executed(F[k], D(k), orders, quotes, lots, power, reuse, voidBatch)
        BY <3>1, <4>1, <4>2, Zenon
      <4> QED BY <4>3, k \in 0..n
    <3> QED BY <3>4, <3>5
  <2> QED BY <2>6, <2>7
<1>5. \A k \in 0..n : k \in T
  <2> HIDE DEF T
  <2> QED BY <1>3, <1>4, CountingUp
<1>6. D(n) = done \cup OfSide(side, orders)
  <2>1. OfSide(side, orders) \subseteq Symbols
    BY DEF OfSide, Batch, OrdersOn
  <2>2. \A s \in Symbols : \E j \in 1..n : SymbolOrder[j] = s
    BY <1>1
  <2> QED BY <2>1, <2>2
<1> HIDE DEF D
<1>7. Executed(F[n], D(n), orders, quotes, lots, power, reuse, voidBatch)
  BY <1>5, n \in 0..n
<1>8. PICK m \in SideAcc : m = F[n]
  BY <1>2
<1>9. Executed(m, done \cup OfSide(side, orders), orders, quotes, lots, power, reuse, voidBatch)
  BY <1>6, <1>7, <1>8, Zenon
<1> QED BY <1>2, <1>8, <1>9

\* What the record of an execution promises of its fills.
Recorded(r, orders, quotes, lots, power, reuse, voidBatch) ==
    /\ r.fills \in Seq(Fills)
    /\ Bookable(r.fills, lots, PricesIn(quotes))
    /\ Covered(r.fills, power, r.remaining, reuse)
    /\ voidBatch /\ r.fills # << >> =>
          \A s \in DOMAIN orders : MarketLots(orders[s], quotes[s]) # 0 =>
             \E k \in 1..Len(r.fills) :
                r.fills[k].symbol = s /\ r.fills[k].lots = MarketLots(orders[s], quotes[s])

LEMMA NothingCovered ==
    ASSUME NEW power \in Money, NEW reuse
    PROVE  Covered(<< >>, power, power, reuse)
<1>1. [k \in 0..0 |-> power] \in [0..Len(<< >>) -> Money]
  OBVIOUS
<1>2. Covers([k \in 0..0 |-> power], << >>, power, power, reuse)
  BY DEF Covers
<1> QED BY <1>1, <1>2, Zenon DEF Covered

LEMMA VoidRecorded ==
    ASSUME NEW orders, NEW quotes, NEW lots, NEW power \in Money, NEW reuse, NEW voidBatch
    PROVE  Recorded(VoidBatch(power), orders, quotes, lots, power, reuse, voidBatch)
<1>1. VoidBatch(power).fills = << >> /\ VoidBatch(power).remaining = power
  BY MoneyRounded DEF VoidBatch
<1>2. << >> \in Seq(Fills) /\ Bookable(<< >>, lots, PricesIn(quotes))
  BY DEF Bookable
<1>3. Covered(VoidBatch(power).fills, power, VoidBatch(power).remaining, reuse)
  BY <1>1, NothingCovered, Zenon
<1> QED BY <1>1, <1>2, <1>3 DEF Recorded

LEMMA BatchRecorded ==
    ASSUME NEW orders, NEW quotes, NEW lots, NEW power \in Money, NEW reuse, NEW voidBatch,
           Batch(orders, quotes, lots, reuse, voidBatch)
    PROVE  Recorded(Run(orders, quotes, power, reuse, voidBatch),
                    orders, quotes, lots, power, reuse, voidBatch)
<1>1. PICK start : start = [fills |-> << >>, available |-> power, voided |-> FALSE]
  OBVIOUS
<1>2. start \in SideAcc /\ start.fills = << >> /\ start.available = power
  BY <1>1 DEF SideAcc
<1>3. Executed(start, {}, orders, quotes, lots, power, reuse, voidBatch)
  <2>1. Bookable(start.fills, lots, PricesIn(quotes))
    BY <1>2 DEF Bookable
  <2>2. Covered(start.fills, power, start.available, reuse)
    BY <1>2, NothingCovered, Zenon
  <2>3. Len(start.fills) = 0
    BY <1>2
  <2> QED BY <2>1, <2>2, <2>3 DEF Executed
<1>4. PICK sold \in SideAcc :
         /\ sold = ExecuteSide(start, "sell", orders, quotes, reuse, voidBatch)
         /\ Executed(sold, {} \cup OfSide("sell", orders), orders, quotes, lots, power, reuse, voidBatch)
  BY <1>2, <1>3, SideExecuted
<1>5. ({} \cup OfSide("sell", orders)) \cap OfSide("buy", orders) = {}
  BY DEF OfSide
<1>6. PICK done : done = {} \cup OfSide("sell", orders)
  OBVIOUS
<1>7. PICK acc \in SideAcc :
         /\ acc = ExecuteSide(sold, "buy", orders, quotes, reuse, voidBatch)
         /\ Executed(acc, done \cup OfSide("buy", orders), orders, quotes, lots, power, reuse, voidBatch)
  BY <1>4, <1>5, <1>6, SideExecuted
<1>8. done \cup OfSide("buy", orders) = DOMAIN orders
  BY <1>6 DEF OfSide, Batch, OrdersOn
<1>9. Executed(acc, DOMAIN orders, orders, quotes, lots, power, reuse, voidBatch)
  BY <1>7, <1>8, Zenon
<1>10. acc = ExecuteAll(orders, quotes, power, reuse, voidBatch)
  BY <1>1, <1>4, <1>7 DEF ExecuteAll
<1>11. CASE acc.voided
  <2>1. Run(orders, quotes, power, reuse, voidBatch) = VoidBatch(power)
    BY <1>10, <1>11 DEF Run
  <2> QED BY <2>1, VoidRecorded, Zenon
<1>12. CASE ~acc.voided
  <2>1. PICK r : r = [fills |-> acc.fills, remaining |-> acc.available, voided |-> FALSE]
    OBVIOUS
  <2>2. acc.available \in Money /\ acc.fills \in Seq(Fills)
    BY DEF SideAcc
  <2>3. Run(orders, quotes, power, reuse, voidBatch) = r
    BY <1>10, <1>12, <2>1, <2>2, MoneyRounded DEF Run
  <2>4. r.fills = acc.fills /\ r.remaining = acc.available
    BY <2>1
  <2>5. Recorded(r, orders, quotes, lots, power, reuse, voidBatch)
    BY <1>9, <1>12, <2>2, <2>4 DEF Executed, Recorded
  <2> QED BY <2>3, <2>5, Zenon
<1> QED BY <1>11, <1>12

-----------------------------------------------------------------------------
(* Corporate actions.                                                      *)

\* What a dividend pays for a lot is whole coins; where it is not, a receivable
\* is kept in parts of a coin and the sum of them is not (StateLoads is violated
\* then).
WholeDividends == \A d \in Dividends : Whole(d)

LEMMA ActionIs ==
    ASSUME WholeDividends, NEW l \in Ledgers, NEW day \in Int, NEW a \in Actions(day)
    PROVE  \E m \in Ledgers :
              /\ m = ApplyAction(l, a)
              /\ Solvent(l) => Solvent(m)
              /\ l.error = "none" => m.error \in {"none", "odd lot"}
<1>1. PICK s \in Symbols : s = a.symbol
  BY DEF Actions
<1>2. PICK held \in Nat : held = l.lots[s] /\ l.lots \in Holdings
  BY LedgerParts DEF Holdings
<1>3. CASE held = 0
  <2>1. ApplyAction(l, a) = l
    BY <1>1, <1>2, <1>3 DEF ApplyAction
  <2> QED BY <2>1
<1>4. CASE held # 0 /\ a.type = "cash_dividend"
  <2>1. a.amount \in Dividends /\ \E n \in Lags : a.day = day + n
    BY <1>4 DEF Actions
  <2>2. a.amount \in Money
    BY <2>1, LedgerAssumption DEF WholeDividends, Money
  <2>3. PICK d \in Money : d = held * a.amount /\ d \in Nat
    BY <2>2, MoneyTimes DEF Money
  <2>4. a.day \in Int
    BY <2>1, LedgerAssumption
  <2>5. PICK item \in Receivable : item = [day |-> a.day, amount |-> d]
    BY <2>4 DEF Receivable
  <2>6. PICK y \in Money : y = l.unsettled + d
    BY LedgerParts, MoneyAdds
  <2>7. PICK p \in Seq(Receivable) : p = Append(l.pending, item)
    <3>1. l.pending \in Seq(Receivable)
      BY LedgerParts
    <3>2. Append(l.pending, item) \in Seq(Receivable)
      BY <2>5, <3>1
    <3> QED BY <3>2, Zenon
  <2>8. Total(p) = y
    BY <2>5, <2>6, <2>7, TotalAppend, LedgerParts
  <2>9. PICK m : m = [settled |-> l.settled, unsettled |-> y, pending |-> p, lots |-> l.lots,
                      error |-> l.error]
    OBVIOUS
  <2>10. m \in Ledgers
    BY <2>8, <2>9, LedgerMade, LedgerParts
  <2>11. ApplyAction(l, a) = [l EXCEPT !.unsettled = @ + held * a.amount,
                                       !.pending = Append(@, [day |-> a.day, amount |-> held * a.amount])]
    BY <1>1, <1>2, <1>4 DEF ApplyAction
  <2>12. ApplyAction(l, a) = m
    BY <2>3, <2>5, <2>6, <2>7, <2>9, <2>11, LedgerParts
  <2>13. Solvent(m)
    BY <1>2, <1>4, <2>9 DEF Solvent
  <2>14. m.error = l.error
    BY <2>9
  <2> QED BY <2>10, <2>12, <2>13, <2>14
<1>5. CASE held # 0 /\ a.type # "cash_dividend"
  <2>1. PICK x \in Nat \ {0}, y \in Nat \ {0} : x = a.ratio[1] /\ y = a.ratio[2]
    <3>1. a.ratio \in Splits
      BY <1>5 DEF Actions
    <3>2. a.ratio \in (Nat \ {0}) \X (Nat \ {0})
      BY <3>1, LedgerAssumption
    <3> QED BY <3>2
  <2>2. PICK z \in Nat : z = held * x /\ z > 0
    <3>1. held * x > 0
      BY <1>5
    <3> QED BY <3>1
  <2>3. CASE z % y # 0
    <3>1. ApplyAction(l, a) = [l EXCEPT !.error = "odd lot"]
      BY <1>1, <1>2, <1>5, <2>1, <2>2, <2>3 DEF ApplyAction
    <3>2. PICK m \in Ledgers : m = [l EXCEPT !.error = "odd lot"]
      BY RaisedIs DEF Errors
    <3>3. m.settled = l.settled /\ m.unsettled = l.unsettled /\ m.lots = l.lots /\ m.error = "odd lot"
      BY <3>2, LedgerParts
    <3> QED BY <3>1, <3>2, <3>3 DEF Solvent
  <2>4. CASE z % y = 0
    <3>1. PICK q \in Int : q = z \div y
      OBVIOUS
    <3>2. z = y * q + 0
      BY <2>4, <3>1, Quotient, 0 \in 0..(y - 1)
    <3>3. q > 0
      <4> SUFFICES ASSUME q <= 0 PROVE FALSE
        OBVIOUS
      <4>1. y * q <= y * 0
        OBVIOUS
      <4> QED BY <2>2, <3>2, <4>1
    <3>4. PICK h \in Holdings : h = [l.lots EXCEPT ![s] = q]
      <4>1. q \in Nat
        BY <3>1, <3>3
      <4>2. [l.lots EXCEPT ![s] = q] \in Holdings
        BY <1>2, <4>1 DEF Holdings
      <4> QED BY <4>2, Zenon
    <3>5. PICK m : m = [settled |-> l.settled, unsettled |-> l.unsettled, pending |-> l.pending,
                        lots |-> h, error |-> l.error]
      OBVIOUS
    <3>6. m \in Ledgers
      BY <3>5, LedgerMade, LedgerParts
    <3>7. ApplyAction(l, a) = [l EXCEPT !.lots[s] = (@ * x) \div y]
      BY <1>1, <1>2, <1>5, <2>1, <2>2, <2>4 DEF ApplyAction
    <3>8. (l.lots[s] * x) \div y = q
      BY <1>2, <2>2, <3>1
    <3>9. ApplyAction(l, a) = m
      BY <3>4, <3>5, <3>7, <3>8, LedgerParts
    <3>10. m.lots[s] = q /\ m.error = l.error
      BY <1>1, <1>2, <3>4, <3>5 DEF Holdings
    <3>11. Solvent(m)
      BY <1>1, <3>3, <3>10 DEF Solvent
    <3> QED BY <3>6, <3>9, <3>10, <3>11
  <2> QED BY <2>3, <2>4
<1> QED BY <1>3, <1>4, <1>5

ActionStep(l, a) == IF l.error # "none" THEN l ELSE ApplyAction(l, a)
Booked(l, actions) ==
    FoldLeft(LAMBDA x, a : IF x.error # "none" THEN x ELSE ApplyAction(x, a), l, actions)

LEMMA ActionStepType ==
    ASSUME WholeDividends, NEW l \in Ledgers, NEW day \in Int, NEW a \in Actions(day)
    PROVE  ActionStep(l, a) \in Ledgers
<1>1. PICK m \in Ledgers : m = ApplyAction(l, a)
  BY ActionIs
<1> QED BY <1>1 DEF ActionStep

\* What the booking of corporate actions goes through.
ActionLoops(n, s, ledger) ==
    \E F \in [0..n -> Ledgers] :
       /\ F[0] = ledger
       /\ \A k \in 1..n : F[k] = ActionStep(F[k - 1], s[k])
       /\ Booked(ledger, s) = F[n]

LEMMA ActionsFold ==
    ASSUME NEW n \in Nat, NEW day \in Int, NEW s \in [1..n -> Actions(day)],
           NEW ledger \in Ledgers, WholeDividends
    PROVE  ActionLoops(n, s, ledger)
<1> DEFINE Rule(f) == f = [t \in SUBSET (DOMAIN s) |->
                             IF t = {} THEN ledger
                             ELSE LET x == Max(t) IN ActionStep(f[t \ {x}], s[x])]
           G == [p \in (1..n) \X Ledgers |-> ActionStep(p[2], s[p[1]])]
           iter == CHOOSE f : Rule(f)
<1>0. ledger \in Ledgers
  OBVIOUS
<1>1. /\ G \in [(1..n) \X Ledgers -> Ledgers]
      /\ \A k \in 1..n, x \in Ledgers : G[<<k, x>>] = ActionStep(x, s[k])
  <2>1. ASSUME NEW k \in 1..n, NEW x \in Ledgers PROVE ActionStep(x, s[k]) \in Ledgers
    BY ActionStepType
  <2>2. G \in [(1..n) \X Ledgers -> Ledgers]
    BY <2>1
  <2>3. \A k \in 1..n, x \in Ledgers : G[<<k, x>>] = ActionStep(x, s[k])
    OBVIOUS
  <2> QED BY <2>2, <2>3
<1> HIDE DEF G
<1>2. \A t \in SUBSET (1..n) : t # {} => Max(t) \in 1..n /\ t \ {Max(t)} \in SUBSET (1..n)
  BY MaxOfSome, 1..n \subseteq 0..n
<1>3. PICK f \in [SUBSET (1..n) -> Ledgers] : FoldOf(f, ledger, n, G)
  BY <1>0, <1>1, FoldExists
<1>4. Rule(f)
  BY <1>1, <1>2, <1>3 DEF FoldOf
<1>5. Rule(iter)
  BY <1>4, Zenon
<1>6. Booked(ledger, s) = iter[DOMAIN s]
  BY DEF Booked, FoldLeft, MapThenFoldSet, ActionStep
<1> HIDE DEF iter
<1>7. StepsBy(iter, Ledgers, ledger, n, G)
  BY <1>0, <1>1, <1>2, <1>5 DEF StepsBy
<1>8. Loops(Ledgers, ledger, n, G, iter[1..n])
  BY <1>7, FoldLoops
<1>9. DOMAIN s = 1..n
  OBVIOUS
<1> HIDE DEF Rule
<1>10. PICK F \in [0..n -> Ledgers] :
          F[0] = ledger /\ F[n] = iter[1..n] /\ \A k \in 1..n : F[k] = G[<<k, F[k - 1]>>]
  BY <1>8 DEF Loops
<1>11. ASSUME NEW k \in 1..n PROVE F[k] = ActionStep(F[k - 1], s[k])
  <2>1. F[k - 1] \in Ledgers /\ F[k] = G[<<k, F[k - 1]>>]
    BY <1>10
  <2> QED BY <1>1, <2>1
<1> QED BY <1>6, <1>9, <1>10, <1>11 DEF ActionLoops

\* At most one action on a day.
LEMMA ActionsBooked ==
    ASSUME WholeDividends, NEW l \in Ledgers, NEW day \in Int, NEW actions,
           l.error = "none", Solvent(l),
           actions = << >> \/ \E a \in Actions(day) : actions = <<a>>
    PROVE  \E m \in Ledgers :
              m = Booked(l, actions) /\ Solvent(m) /\ m.error \in {"none", "odd lot"}
<1>1. CASE actions = << >>
  <2>1. << >> \in [1..0 -> Actions(day)]
    OBVIOUS
  <2>2. PICK F \in [0..0 -> Ledgers] : F[0] = l /\ Booked(l, << >>) = F[0]
    <3>1. ActionLoops(0, << >>, l)
      BY <2>1, ActionsFold, 0 \in Nat
    <3> QED BY <3>1 DEF ActionLoops
  <2> QED BY <1>1, <2>2
<1>2. ASSUME NEW a \in Actions(day), actions = <<a>>
      PROVE  \E m \in Ledgers :
                m = Booked(l, actions) /\ Solvent(m) /\ m.error \in {"none", "odd lot"}
  <2>1. <<a>> \in [1..1 -> Actions(day)] /\ <<a>>[1] = a
    OBVIOUS
  <2>2. PICK F \in [0..1 -> Ledgers] :
           /\ F[0] = l /\ Booked(l, <<a>>) = F[1]
           /\ \A k \in 1..1 : F[k] = ActionStep(F[k - 1], <<a>>[k])
    <3>1. ActionLoops(1, <<a>>, l)
      BY <2>1, ActionsFold, 1 \in Nat
    <3> QED BY <3>1 DEF ActionLoops
  <2>3. F[1] = ActionStep(l, a)
    <3>1. F[1] = ActionStep(F[1 - 1], <<a>>[1])
      BY <2>2
    <3> QED BY <2>1, <2>2, <3>1
  <2>4. PICK m \in Ledgers : m = ApplyAction(l, a) /\ Solvent(m) /\ m.error \in {"none", "odd lot"}
    BY ActionIs
  <2>5. Booked(l, actions) = m
    BY <1>2, <2>2, <2>3, <2>4 DEF ActionStep
  <2> QED BY <2>4, <2>5
<1> QED BY <1>1, <1>2

-----------------------------------------------------------------------------
(* The operations keep the books.                                          *)

\* The money of the saved state is whole coins and not all gone, its receivables
\* add up, and the record of the close it was saved with is in order.
Books ==
    /\ account.settled \in Money /\ account.unsettled \in Money
    /\ account.pending \in Seq(Receivable) /\ account.lots \in Holdings
IInv ==
    /\ Books
    /\ StateLoads
    /\ Solvent(account)
    /\ NeverRaises
    /\ RemainingAgrees
    /\ WholeOrNothing

LEMMA LoadedIs ==
    ASSUME Books, StateLoads, Solvent(account)
    PROVE  \E l \in Ledgers :
              /\ l = Ledger(account)
              /\ l.error = "none" /\ Solvent(l) /\ l.lots = account.lots
              /\ l.settled = account.settled /\ l.unsettled = account.unsettled
<1>1. PICK l : l = [settled |-> account.settled, unsettled |-> account.unsettled,
                    pending |-> account.pending, lots |-> account.lots, error |-> "none"]
  OBVIOUS
<1>2. Ledger(account) = l
  BY <1>1 DEF Ledger, StateLoads
<1>3. l \in Ledgers
  BY <1>1, LedgerMade DEF Books, StateLoads, Errors
<1> QED BY <1>1, <1>2, <1>3 DEF Solvent

\* What a ledger publishes is what it has; there is nothing to refuse.
LEMMA SaveIs ==
    ASSUME NEW l \in Ledgers, l.error = "none", Solvent(l), NEW price \in PriceList,
           NEW kind, NEW at, NEW record, NEW state,
           state = [kind |-> kind, asOf |-> at, lots |-> l.lots, pending |-> l.pending,
                    settled |-> l.settled, unsettled |-> l.unsettled],
           Save(l, price, state, record)
    PROVE  /\ raised' = "none" /\ account' = state /\ execution' = record
           /\ Books' /\ StateLoads' /\ Solvent(account)'
<1>1. PICK a \in Nat, b \in Nat, v \in Nat :
         /\ a = l.settled /\ b = l.unsettled /\ v = Value(l.lots, price)
         /\ a + b + v \in Money
  <2>1. l.settled + l.unsettled \in Money /\ Value(l.lots, price) \in Money
    BY LedgerParts, ValueType, MoneyAdds
  <2>2. (l.settled + l.unsettled) + Value(l.lots, price) \in Money
    BY <2>1, MoneyAdds
  <2> QED BY <2>1, <2>2, LedgerParts DEF Money
<1>2. Nav(l, price) = a + b + v
  BY <1>1, MoneyRounded DEF Nav
<1>3. a + b + v > 0
  <2>1. CASE l.settled + l.unsettled > 0
    BY <1>1, <2>1
  <2>2. CASE \E s \in Symbols : l.lots[s] > 0
    <3>1. v > 0
      BY <1>1, <2>2, LedgerParts, ValueHeld
    <3> QED BY <1>1, <3>1
  <2> QED BY <2>1, <2>2 DEF Solvent
<1>4. state.settled = a /\ ~(state.settled < 0) /\ ~(Nav(l, price) <= 0)
  BY <1>1, <1>2, <1>3
<1>5. raised' = "none" /\ account' = state /\ execution' = record
  BY <1>4 DEF Save
<1>6. account'.settled = l.settled /\ account'.unsettled = l.unsettled
      /\ account'.pending = l.pending /\ account'.lots = l.lots
  BY <1>5
<1>7. Books'
  BY <1>6, LedgerParts DEF Books
<1>8. StateLoads'
  BY <1>6, LedgerParts DEF StateLoads
<1>9. Solvent(account)'
  BY <1>6 DEF Solvent
<1> QED BY <1>5, <1>7, <1>8, <1>9

LEMMA PublishedIs ==
    ASSUME NEW l \in Ledgers, NEW kind, NEW at
    PROVE  Published(l, kind, at) =
              [kind |-> kind, asOf |-> at, lots |-> l.lots, pending |-> l.pending,
               settled |-> l.settled, unsettled |-> l.unsettled]
BY LedgerParts, MoneyRounded DEF Published

LEMMA PricesAreListed ==
    ASSUME NEW price \in Prices
    PROVE  price \in PriceList
BY DEF Prices, PriceList

\* An operation that raises an odd lot saves nothing.
LEMMA PrepareDayKeeps ==
    ASSUME WholeDividends, IInv, NEW at \in PrepareTimes, NEW price \in Prices, NEW actions,
           actions = << >> \/ \E a \in Actions(DayOf(at)) : actions = <<a>>,
           PrepareDay(at, actions, price)
    PROVE  /\ IInv'
           /\ account' = account \/ account'.kind # "close"
<1>1. PICK day \in Int : day = DayOf(at)
  <2>1. at \in Int
    BY LedgerAssumption DEF PrepareTimes, Moment
  <2> QED BY <2>1 DEF DayOf
<1>2. PICK l \in Ledgers : l = Ledger(account) /\ l.error = "none" /\ Solvent(l)
  BY LoadedIs DEF IInv
<1>3. PICK k \in Ledgers :
         /\ k = Settle(l, day)
         /\ k.settled + k.unsettled = l.settled + l.unsettled
         /\ k.lots = l.lots /\ k.error = l.error
  BY SettleIs
<1>4. k.error = "none" /\ Solvent(k)
  BY <1>2, <1>3 DEF Solvent
<1>5. PICK m \in Ledgers : m = Booked(k, actions) /\ Solvent(m) /\ m.error \in {"none", "odd lot"}
  BY <1>1, <1>4, ActionsBooked
<1>6. Save(m, price, Published(m, "prepared", at), NoExecution)
  BY <1>1, <1>2, <1>3, <1>5 DEF PrepareDay, Booked
<1>7. CASE m.error = "none"
  <2>1. PICK state : /\ state = Published(m, "prepared", at)
                     /\ state = [kind |-> "prepared", asOf |-> at, lots |-> m.lots,
                                 pending |-> m.pending, settled |-> m.settled,
                                 unsettled |-> m.unsettled]
    BY PublishedIs
  <2>2. raised' = "none" /\ account' = state /\ Books' /\ StateLoads' /\ Solvent(account)'
    BY <1>5, <1>6, <1>7, <2>1, SaveIs, PricesAreListed
  <2>3. account'.kind = "prepared"
    BY <2>1, <2>2
  <2>4. NeverRaises' /\ RemainingAgrees' /\ WholeOrNothing'
    BY <2>2, <2>3 DEF NeverRaises, RemainingAgrees, WholeOrNothing
  <2> QED BY <2>2, <2>3, <2>4 DEF IInv
<1>8. CASE m.error = "odd lot"
  <2>1. raised' = "odd lot" /\ account' = account /\ execution' = execution
    BY <1>6, <1>8 DEF Save
  <2>2. NeverRaises'
    BY <2>1 DEF NeverRaises
  <2>3. Books' /\ StateLoads' /\ Solvent(account)' /\ RemainingAgrees' /\ WholeOrNothing'
    BY <2>1 DEF IInv, Books, StateLoads, Solvent, RemainingAgrees, WholeOrNothing
  <2> QED BY <2>1, <2>2, <2>3 DEF IInv
<1> QED BY <1>5, <1>7, <1>8

LEMMA RebaseKeeps ==
    ASSUME IInv, NEW at \in PrepareTimes, NEW price \in Prices, NEW host \in HostAccounts,
           Rebase(at, host, price)
    PROVE  IInv' /\ account'.kind # "close"
<1>1. host.cash \in Money /\ host.lots \in Holdings
      /\ (host.cash > 0 \/ \E s \in Symbols : host.lots[s] > 0)
  BY LedgerAssumption DEF Money, Holdings
<1>2. PICK l : l = [settled |-> host.cash, unsettled |-> 0, pending |-> << >>,
                    lots |-> host.lots, error |-> "none"]
  OBVIOUS
<1>3. l \in Ledgers
  <2>1. << >> \in Seq(Receivable) /\ "none" \in Errors
    BY DEF Errors
  <2> QED BY <1>1, <1>2, <2>1, LedgerMade, MoneyZero, TotalEmpty
<1>4. l.error = "none" /\ l.settled = host.cash /\ Solvent(l)
  BY <1>1, <1>2 DEF Solvent, Money
<1>5. PICK state : /\ state = [Published(l, "rebase", at) EXCEPT !.settled = host.cash]
                   /\ state = [kind |-> "rebase", asOf |-> at, lots |-> l.lots,
                               pending |-> l.pending, settled |-> l.settled,
                               unsettled |-> l.unsettled]
  BY <1>3, <1>4, PublishedIs
<1>6. Save(l, price, state, NoExecution)
  BY <1>2, <1>5 DEF Rebase
<1>7. raised' = "none" /\ account' = state /\ Books' /\ StateLoads' /\ Solvent(account)'
  BY <1>3, <1>4, <1>5, <1>6, SaveIs, PricesAreListed
<1>8. account'.kind = "rebase"
  BY <1>5, <1>7
<1>9. NeverRaises' /\ RemainingAgrees' /\ WholeOrNothing'
  BY <1>7, <1>8 DEF NeverRaises, RemainingAgrees, WholeOrNothing
<1> QED BY <1>7, <1>8, <1>9 DEF IInv

LEMMA OrdersAre ==
    ASSUME NEW orders \in Orders
    PROVE  OrdersOn(orders, account.lots)
<1>1. PICK S \in SUBSET Symbols : orders \in [S -> [side : {"buy", "sell"}, lots : 1..MaxLots]]
  BY DEF Orders
<1>2. \A s \in DOMAIN orders : orders[s].side = "sell" => orders[s].lots <= account.lots[s]
  BY DEF Orders
<1>3. DOMAIN orders = S /\ \A s \in S : orders[s] \in [side : {"buy", "sell"}, lots : 1..MaxLots]
  BY <1>1
<1>4. \A s \in S : orders[s].side \in {"buy", "sell"} /\ orders[s].lots \in Nat
  BY <1>3, LedgerAssumption
<1> QED BY <1>2, <1>3, <1>4 DEF OrdersOn

\* The worth in cash and positions of a ledger is a number.
LEMMA WorthType ==
    ASSUME NEW l \in Ledgers, NEW price \in PriceList
    PROVE  Worth(l, price) \in Int
<1>1. l.settled \in Nat /\ l.unsettled \in Nat /\ Value(l.lots, price) \in Nat
  BY LedgerParts, ValueType DEF Money
<1> QED BY <1>1 DEF Worth

FeesStep ==
    account'.kind = "close" /\ account' # account =>
        Worth(account, PricesIn(execution'.quotes)) - Worth(account', PricesIn(execution'.quotes))
            = FeeTotal(execution'.fills)

\* A session: the fills the simulator reports are booked, whether the batch was
\* run, was void, or was voided by the organiser.
LEMMA ApplyDecisionKeeps ==
    ASSUME IInv, NEW day \in 0..LastDay, NEW orders \in Orders, NEW quotes \in [Symbols -> Quotes],
           NEW lag \in Nat, NEW reuse \in BOOLEAN, NEW voidBatch \in BOOLEAN,
           NEW hostVoided \in BOOLEAN,
           ApplyDecision(day, orders, quotes, lag, reuse, voidBatch, hostVoided)
    PROVE  IInv' /\ FeesStep
<1>1. day \in Int /\ day + lag \in Int
  BY LedgerAssumption
<1>2. PICK l \in Ledgers :
         /\ l = Ledger(account) /\ l.error = "none" /\ Solvent(l) /\ l.lots = account.lots
         /\ l.settled = account.settled /\ l.unsettled = account.unsettled
  BY LoadedIs DEF IInv
<1>3. PICK opened \in Ledgers :
         /\ opened = Settle(l, day)
         /\ opened.settled + opened.unsettled = l.settled + l.unsettled
         /\ opened.lots = l.lots /\ opened.error = l.error
  BY <1>1, SettleIs
<1>4. opened.error = "none" /\ Solvent(opened) /\ opened.lots = account.lots
  BY <1>2, <1>3 DEF Solvent
<1>5. PICK power \in Money : power = BuyingPower(opened, reuse)
  <2>1. opened.settled \in Money /\ opened.unsettled \in Money
    BY LedgerParts
  <2>2. opened.settled \in Nat /\ opened.settled + opened.unsettled \in Money
    BY <2>1, MoneyAdds DEF Money
  <2>3. CASE reuse
    BY <2>2, <2>3 DEF BuyingPower
  <2>4. CASE ~reuse
    BY <2>1, <2>2, <2>4 DEF BuyingPower
  <2> QED BY <2>3, <2>4
<1>6. quotes \in Quoted /\ opened.lots \in Holdings
  BY LedgerParts DEF Quoted
<1>7. Batch(orders, quotes, opened.lots, reuse, voidBatch)
  <2>1. OrdersOn(orders, opened.lots)
    BY <1>4, OrdersAre
  <2> QED BY <1>6, <2>1 DEF Batch
<1>8. PICK record : record = IF hostVoided THEN VoidBatch(power)
                             ELSE Run(orders, quotes, power, reuse, voidBatch)
  OBVIOUS
<1>9. Recorded(record, orders, quotes, opened.lots, power, reuse, voidBatch)
  <2>1. CASE hostVoided
    <3>1. record = VoidBatch(power)
      BY <1>8, <2>1
    <3>2. Recorded(VoidBatch(power), orders, quotes, opened.lots, power, reuse, voidBatch)
      BY VoidRecorded
    <3> QED BY <3>1, <3>2, Zenon
  <2>2. CASE ~hostVoided
    <3>1. record = Run(orders, quotes, power, reuse, voidBatch)
      BY <1>8, <2>2
    <3>2. Recorded(Run(orders, quotes, power, reuse, voidBatch),
                   orders, quotes, opened.lots, power, reuse, voidBatch)
      BY <1>5, <1>7, BatchRecorded
    <3> QED BY <3>1, <3>2, Zenon
  <2> QED BY <2>1, <2>2
<1>10. PICK fills, remaining :
          fills \in Seq(Fills) /\ fills = record.fills /\ remaining = record.remaining
  BY <1>9 DEF Recorded
<1>11. PICK price \in PriceList : price = PricesIn(quotes)
  BY <1>6, PricesQuoted
<1>12. Bookable(fills, opened.lots, price) /\ Covered(fills, BuyingPower(opened, reuse), remaining, reuse)
  <2>1. Bookable(record.fills, opened.lots, PricesIn(quotes))
        /\ Covered(record.fills, power, record.remaining, reuse)
    BY <1>9 DEF Recorded
  <2> QED BY <1>5, <1>10, <1>11, <2>1, Zenon
<1>13. PICK filled \in Ledgers :
          /\ filled = ApplyFills(opened, fills, day + lag, reuse)
          /\ filled.error = "none" /\ Solvent(filled)
          /\ BuyingPower(filled, reuse) = remaining
          /\ Worth(filled, price) = Worth(opened, price) - FeeTotal(fills)
  BY <1>1, <1>3, <1>4, <1>10, <1>11, <1>12, FillsBooked
<1>14. PICK closed \in Ledgers :
          /\ closed = Settle(filled, day)
          /\ closed.settled + closed.unsettled = filled.settled + filled.unsettled
          /\ closed.lots = filled.lots /\ closed.error = filled.error
  BY <1>1, <1>13, SettleIs
<1>15. closed.error = "none" /\ Solvent(closed)
  BY <1>13, <1>14 DEF Solvent
<1>16. PICK state : /\ state = Published(closed, "close", Moment(day, 2))
                    /\ state = [kind |-> "close", asOf |-> Moment(day, 2), lots |-> closed.lots,
                                pending |-> closed.pending, settled |-> closed.settled,
                                unsettled |-> closed.unsettled]
  BY <1>14, PublishedIs
<1>17. PICK kept : kept =
          [fills |-> fills, remaining |-> remaining, voided |-> record.voided,
           orders |-> orders, quotes |-> quotes, reuse |-> reuse, voidBatch |-> voidBatch,
           power |-> power, powerAfter |-> BuyingPower(filled, reuse)]
  OBVIOUS
<1>18. Save(closed, price, state, kept)
  BY <1>2, <1>3, <1>5, <1>8, <1>10, <1>11, <1>13, <1>14, <1>16, <1>17 DEF ApplyDecision, PricesIn
<1>19. /\ raised' = "none" /\ account' = state /\ execution' = kept
       /\ Books' /\ StateLoads' /\ Solvent(account)'
  BY <1>11, <1>14, <1>15, <1>16, <1>18, SaveIs
<1>20. NeverRaises'
  BY <1>19 DEF NeverRaises
<1>21. RemainingAgrees'
  BY <1>13, <1>17, <1>19 DEF RemainingAgrees
<1>22. WholeOrNothing'
  BY <1>9, <1>10, <1>17, <1>19 DEF WholeOrNothing, Recorded
<1>23. FeesStep
  <2>1. execution'.quotes = quotes /\ execution'.fills = fills
    BY <1>17, <1>19
  <2>2. PricesIn(execution'.quotes) = price
    BY <1>11, <2>1
  <2>3. account'.settled = closed.settled /\ account'.unsettled = closed.unsettled
        /\ account'.lots = closed.lots
    BY <1>16, <1>19
  <2>4. Worth(account', price) = Worth(filled, price)
    BY <1>14, <2>3 DEF Worth
  <2>5. Worth(account, price) = Worth(opened, price)
    BY <1>2, <1>3, <1>4 DEF Worth
  <2>6. PICK x \in Int, y \in Int : x = Worth(opened, price) /\ y = FeeTotal(fills)
    <3>1. FeeTotal(fills) \in Int
      <4>1. PICK n \in Nat : fills \in [1..n -> Fills]
        BY <1>10, SeqIsFunction
      <4>2. PICK X \in [0..n -> Int] : FeeTotal(fills) = X[n]
        BY <4>1, FeeFold
      <4> QED BY <4>2
    <3>2. Worth(opened, price) \in Int
      BY <1>3, <1>11, WorthType
    <3> QED BY <3>1, <3>2
  <2>7. Worth(account, price) - Worth(account', price) = FeeTotal(fills)
    BY <1>13, <2>4, <2>5, <2>6
  <2> QED BY <2>1, <2>2, <2>7 DEF FeesStep
<1> QED BY <1>19, <1>20, <1>21, <1>22, <1>23 DEF IInv

-----------------------------------------------------------------------------
(* The theorems.                                                           *)

LEMMA InitBooks ==
    ASSUME Init
    PROVE  IInv
<1>1. /\ account.settled = OpeningCash /\ account.unsettled = 0 /\ account.pending = << >>
      /\ account.lots = [s \in Symbols |-> 0] /\ account.kind = "genesis" /\ raised = "none"
  BY DEF Init
<1>2. OpeningCash \in Money /\ OpeningCash > 0 /\ OpeningCash \in Nat
  BY LedgerAssumption DEF Money
<1>3. << >> \in Seq(Receivable) /\ account.lots \in Holdings
  BY <1>1 DEF Holdings
<1>4. Books
  BY <1>1, <1>2, <1>3, MoneyZero DEF Books
<1>5. StateLoads
  BY <1>1, TotalEmpty DEF StateLoads
<1>6. Solvent(account)
  BY <1>1, <1>2 DEF Solvent
<1>7. NeverRaises /\ RemainingAgrees /\ WholeOrNothing
  BY <1>1 DEF NeverRaises, RemainingAgrees, WholeOrNothing
<1> QED BY <1>4, <1>5, <1>6, <1>7 DEF IInv

LEMMA NextBooks ==
    ASSUME WholeDividends, IInv, [Next]_vars
    PROVE  IInv' /\ (FeesStep \/ UNCHANGED vars)
<1>1. ASSUME NEW at \in PrepareTimes, NEW price \in Prices, PrepareDay(at, << >>, price)
      PROVE  IInv' /\ FeesStep
  <2>1. IInv' /\ (account' = account \/ account'.kind # "close")
    BY <1>1, PrepareDayKeeps
  <2> QED BY <2>1 DEF FeesStep
<1>2. ASSUME NEW at \in PrepareTimes, NEW price \in Prices, NEW x \in Actions(DayOf(at)),
             PrepareDay(at, <<x>>, price)
      PROVE  IInv' /\ FeesStep
  <2>1. IInv' /\ (account' = account \/ account'.kind # "close")
    BY <1>2, PrepareDayKeeps
  <2> QED BY <2>1 DEF FeesStep
<1>3. ASSUME NEW at \in PrepareTimes, NEW price \in Prices, NEW host \in HostAccounts,
             Rebase(at, host, price)
      PROVE  IInv' /\ FeesStep
  <2>1. IInv' /\ account'.kind # "close"
    BY <1>3, RebaseKeeps
  <2> QED BY <2>1 DEF FeesStep
<1>4. ASSUME NEW day \in 0..LastDay, NEW orders \in Orders, NEW quotes \in [Symbols -> Quotes],
             ApplyDecision(day, orders, quotes, 0, FALSE, FALSE, TRUE)
      PROVE  IInv' /\ FeesStep
  <2>1. 0 \in Nat /\ FALSE \in BOOLEAN /\ TRUE \in BOOLEAN
    OBVIOUS
  <2> QED BY <1>4, <2>1, ApplyDecisionKeeps
<1>5. ASSUME NEW day \in 0..LastDay, NEW orders \in Orders, NEW quotes \in [Symbols -> Quotes],
             NEW lag \in Lags, NEW reuse \in BOOLEAN, NEW voidBatch \in BOOLEAN,
             ApplyDecision(day, orders, quotes, lag, reuse, voidBatch, FALSE)
      PROVE  IInv' /\ FeesStep
  <2>1. lag \in Nat /\ FALSE \in BOOLEAN
    BY LedgerAssumption
  <2> QED BY <1>5, <2>1, ApplyDecisionKeeps
<1>6. CASE UNCHANGED vars
  <2>1. account' = account /\ execution' = execution /\ raised' = raised
    BY <1>6 DEF vars
  <2>2. IInv'
    BY <2>1 DEF IInv, Books, StateLoads, Solvent, NeverRaises, RemainingAgrees, WholeOrNothing
  <2> QED BY <1>6, <2>2
<1>7. CASE Next
  BY <1>1, <1>2, <1>3, <1>4, <1>5, <1>7 DEF Next
<1> QED BY <1>6, <1>7

LEMMA BooksKept ==
    ASSUME WholeDividends
    PROVE  Spec => []IInv
<1>1. Init => IInv
  BY InitBooks
<1>2. IInv /\ [Next]_vars => IInv'
  BY NextBooks
<1> QED BY <1>1, <1>2, PTL DEF Spec

\* The ledger's receivables: a saved state can be loaded again whatever days,
\* orders, quotes and reports follow, as long as dividends pay whole coins for a
\* lot (account.py:88-119, service.py:703-704).
THEOREM AlwaysLoads ==
    ASSUME WholeDividends
    PROVE  Spec => []StateLoads
<1>1. IInv => StateLoads
  BY DEF IInv
<1>2. Spec => []IInv
  BY BooksKept
<1> QED BY <1>1, <1>2, PTL

\* No overdraft, no oversold position, no receivables short of a purchase, no
\* state without money: what the simulator fills is booked.
THEOREM AlwaysBooks ==
    ASSUME WholeDividends
    PROVE  Spec => []NeverRaises
<1>1. IInv => NeverRaises
  BY DEF IInv
<1>2. Spec => []IInv
  BY BooksKept
<1> QED BY <1>1, <1>2, PTL

\* Simulator and ledger, which count on their own, end with the same money.
THEOREM BothAgree ==
    ASSUME WholeDividends
    PROVE  Spec => []RemainingAgrees
<1>1. IInv => RemainingAgrees
  BY DEF IInv
<1>2. Spec => []IInv
  BY BooksKept
<1> QED BY <1>1, <1>2, PTL

\* Under void_batch a batch is filled as far as the market goes or not at all.
THEOREM AllOrNone ==
    ASSUME WholeDividends
    PROVE  Spec => []WholeOrNothing
<1>1. IInv => WholeOrNothing
  BY DEF IInv
<1>2. Spec => []IInv
  BY BooksKept
<1> QED BY <1>1, <1>2, PTL

\* A session costs its fees: worth in cash, receivables and positions at the
\* session's prices changes by nothing else.
THEOREM CostsAreFees ==
    ASSUME WholeDividends
    PROVE  Spec => FeesAreTheOnlyCost
<1>1. IInv /\ [Next]_vars => [FeesStep]_vars
  BY NextBooks
<1>2. Spec => []IInv
  BY BooksKept
<1>3. Spec => [][FeesStep]_vars
  BY <1>1, <1>2, PTL DEF Spec
<1> QED BY <1>3, PTL DEF FeesAreTheOnlyCost, FeesStep, PricesIn, FeeTotal
=============================================================================
