----------------------------- MODULE ClpProofs ------------------------------
(***************************************************************************)
(* Proofs about the liquidity pools: what rounding can change, then the    *)
(* type invariant with positive sides, then what every message does to the *)
(* books, to the units and to the shares of the other providers.           *)
(***************************************************************************)
EXTENDS Clp, WeightTheorems

----------------------------------------------------------------------------
(* Arithmetic.                                                              *)

LEMMA Product ==
  ASSUME NEW m \in Nat, NEW n \in Nat
  PROVE  m * n \in Nat
OBVIOUS

LEMMA PositiveProduct ==
  ASSUME NEW m \in Nat \ {0}, NEW n \in Nat \ {0}
  PROVE  m * n \in Nat \ {0}
OBVIOUS

\* A product grows with its first factor.
LEMMA Times ==
  ASSUME NEW m \in Int, NEW n \in Int, NEW k \in Nat, m <= n
  PROVE  m * k <= n * k
OBVIOUS

\* A positive factor can be cancelled.
LEMMA Cancel ==
  ASSUME NEW m \in Int, NEW n \in Int, NEW k \in Nat \ {0}, m * k <= n * k
  PROVE  m <= n
OBVIOUS

LEMMA Division ==
  ASSUME NEW n \in Nat, NEW d \in Nat \ {0}
  PROVE  /\ n \div d \in Nat
         /\ n % d \in 0 .. (d - 1)
         /\ n = (n \div d) * d + (n % d)
OBVIOUS

\* Quotient and remainder are determined by their equation.
LEMMA DivisionUnique ==
  ASSUME NEW q \in Int, NEW s \in Int, NEW d \in Nat \ {0},
         NEW r \in 0 .. (d - 1), NEW t \in 0 .. (d - 1), q * d + r = s * d + t
  PROVE  q = s /\ r = t
<1>1. ~ q >= s + 1
  <2> SUFFICES ASSUME s + 1 <= q PROVE FALSE
    BY Zenon
  <2>1. (s + 1) * d <= q * d
    BY Times
  <2>2. (s + 1) * d = s * d + d
    OBVIOUS
  <2>3. PICK a \in Int : a = q * d
    OBVIOUS
  <2>4. PICK b \in Int : b = s * d
    OBVIOUS
  <2> QED BY <2>1, <2>2, <2>3, <2>4
<1>2. ~ s >= q + 1
  <2> SUFFICES ASSUME q + 1 <= s PROVE FALSE
    BY Zenon
  <2>1. (q + 1) * d <= s * d
    BY Times
  <2>2. (q + 1) * d = q * d + d
    OBVIOUS
  <2>3. PICK a \in Int : a = q * d
    OBVIOUS
  <2>4. PICK b \in Int : b = s * d
    OBVIOUS
  <2> QED BY <2>1, <2>2, <2>3, <2>4
<1>3. q = s
  BY <1>1, <1>2
<1> QED BY <1>3

\* A rounded fraction is its integral part or one more.
LEMMA RoundIntRange ==
  ASSUME NEW n \in Nat, NEW d \in Nat \ {0}
  PROVE  /\ RoundInt(n, d) \in Nat
         /\ RoundInt(n, d) \in {n \div d, n \div d + 1}
BY Division DEF RoundInt

\* q is a nearest integer to n/d.
Near(q, n, d) == q \in Nat /\ 2 * n - d <= 2 * (q * d) /\ 2 * (q * d) <= 2 * n + d

\* RoundInt yields a nearest integer.
LEMMA RoundIntNear ==
  ASSUME NEW n \in Nat, NEW d \in Nat \ {0}
  PROVE  Near(RoundInt(n, d), n, d)
<1>1. PICK q \in Nat : q = n \div d
  BY Zenon, Division
<1>2. PICK r \in 0 .. (d - 1) : r = n % d
  BY Zenon, Division
<1>3. PICK t \in Int : t = q * d
  OBVIOUS
<1>4. n = t + r
  BY Zenon, <1>1, <1>2, <1>3, Division
<1>5. (q + 1) * d = t + d
  BY <1>3
<1>6. CASE 2 * r < d \/ (2 * r = d /\ q % 2 = 0)
  <2>1. RoundInt(n, d) = q
    BY Zenon, <1>1, <1>2, <1>6 DEF RoundInt
  <2> QED BY <2>1, <1>3, <1>4, <1>6 DEF Near
<1>7. CASE ~(2 * r < d \/ (2 * r = d /\ q % 2 = 0))
  <2>1. RoundInt(n, d) = q + 1
    BY Zenon, <1>1, <1>2, <1>7 DEF RoundInt
  <2>2. 2 * r >= d
    BY <1>7
  <2>3. q + 1 \in Nat
    OBVIOUS
  <2>4. 2 * n - d <= 2 * ((q + 1) * d) /\ 2 * ((q + 1) * d) <= 2 * n + d
    BY <2>2, <1>4, <1>5
  <2> QED BY Zenon, <2>1, <2>3, <2>4 DEF Near
<1> QED BY Zenon, <1>6, <1>7

LEMMA NearestNear ==
  ASSUME NEW n \in Nat, NEW d \in Nat \ {0}, NEW q \in Nearest(n, d)
  PROVE  Near(q, n, d) /\ q \in {n \div d, n \div d + 1}
<1>1. q \in {n \div d, n \div d + 1} /\ q \in Nat
  BY Division DEF Nearest
<1>2. 2 * q * d \in (2 * n - d) .. (2 * n + d)
  BY Zenon DEF Nearest
<1>3. 2 * q * d = 2 * (q * d)
  BY <1>1
<1> QED BY <1>1, <1>2, <1>3 DEF Near

\* A common factor of both terms does not matter to what is nearest.
LEMMA NearScaled ==
  ASSUME NEW q, NEW n \in Nat, NEW d \in Nat \ {0}, NEW k \in Nat \ {0}, Near(q, n * k, d * k)
  PROVE  Near(q, n, d)
<1>1. q \in Nat
  BY Zenon DEF Near
<1>2. PICK t \in Nat : t = q * d
  BY Zenon, <1>1, Product
<1>3. q * (d * k) = t * k
  BY <1>1, <1>2
<1>4. (2 * n - d) * k <= (2 * t) * k
  <2>1. (2 * n - d) * k = 2 * (n * k) - d * k
    OBVIOUS
  <2>2. (2 * t) * k = 2 * (t * k)
    OBVIOUS
  <2> QED BY Zenon, <2>1, <2>2, <1>3 DEF Near
<1>5. (2 * t) * k <= (2 * n + d) * k
  <2>1. (2 * n + d) * k = 2 * (n * k) + d * k
    OBVIOUS
  <2>2. (2 * t) * k = 2 * (t * k)
    OBVIOUS
  <2> QED BY Zenon, <2>1, <2>2, <1>3 DEF Near
<1>6. 2 * n - d <= 2 * t
  BY <1>4, Cancel
<1>7. 2 * t <= 2 * n + d
  BY <1>5, Cancel
<1> QED BY Zenon, <1>1, <1>2, <1>6, <1>7 DEF Near

----------------------------------------------------------------------------
(* The formulas.                                                            *)

\* The formulas of a swap divide by a positive number.
LEMMA NormalizedType ==
  ASSUME NEW toRowan \in BOOLEAN, NEW e \in Externals,
         NEW X \in Nat, NEW x \in Nat, NEW Y \in Nat
  PROVE  LET v == Normalized(toRowan, e, X, x, Y)
             d == (v.x + v.X) * (v.x + v.X)
         IN  /\ v.X \in Nat /\ v.x \in Nat /\ v.Y \in Nat
             /\ x # 0 => /\ d \in Nat \ {0}
                         /\ d * Factor[e] \in Nat \ {0}
<1> DEFINE v == Normalized(toRowan, e, X, x, Y)
<1>1. PICK F \in Nat \ {0} : F = Factor[e]
  BY Zenon, ClpAssumption
<1>2. v.X \in Nat /\ v.x \in Nat /\ v.Y \in Nat
  BY Zenon, <1>1, Product DEF Normalized
<1>3. x # 0 => v.x # 0
  BY Zenon, <1>1, PositiveProduct DEF Normalized
<1>4. x # 0 => v.x + v.X \in Nat \ {0}
  BY <1>2, <1>3
<1>5. x # 0 => (v.x + v.X) * (v.x + v.X) \in Nat \ {0}
  BY Zenon, <1>4, PositiveProduct
<1> HIDE DEF v
<1>6. x # 0 => ((v.x + v.X) * (v.x + v.X)) * Factor[e] \in Nat \ {0}
  BY Zenon, <1>1, <1>5, PositiveProduct
<1> QED BY Zenon, <1>2, <1>5, <1>6 DEF v

\* What a swap pays is a number of coins.
LEMMA SwapResultType ==
  ASSUME NEW toRowan \in BOOLEAN, NEW e \in Externals,
         NEW X \in Nat, NEW x \in Nat, NEW Y \in Nat
  PROVE  CalcSwapResult(toRowan, e, X, x, Y) \in Nat
<1> DEFINE v == Normalized(toRowan, e, X, x, Y)
           d == (v.x + v.X) * (v.x + v.X)
           D == IF toRowan THEN d ELSE d * Factor[e]
<1>1. CASE 0 \in {X, x, Y}
  BY Zenon, <1>1 DEF CalcSwapResult
<1>2. CASE 0 \notin {X, x, Y}
  <2>1. D \in Nat \ {0}
    BY Zenon, <1>2, NormalizedType
  <2>2. v.x * v.X * v.Y \in Nat
    BY Zenon, NormalizedType, Product
  <2>3. CalcSwapResult(toRowan, e, X, x, Y) = RoundInt(v.x * v.X * v.Y, D)
    BY Zenon, <1>2 DEF CalcSwapResult
  <2> HIDE DEF D, v
  <2> QED BY Zenon, <2>1, <2>2, <2>3, RoundIntRange
<1> QED BY Zenon, <1>1, <1>2

\* For an asset of at most 18 decimals the normalization cancels.
LEMMA RegularFormulas ==
  ASSUME NEW toRowan \in BOOLEAN, NEW e \in Regular,
         NEW X \in Nat \ {0}, NEW x \in Nat \ {0}, NEW Y \in Nat \ {0}
  PROVE  /\ Near(CalcSwapResult(toRowan, e, X, x, Y), x * X * Y, (x + X) * (x + X))
         /\ Near(CalcLiquidityFee(toRowan, e, X, x, Y), x * x * Y, (x + X) * (x + X))
<1> DEFINE v == Normalized(toRowan, e, X, x, Y)
           d == (v.x + v.X) * (v.x + v.X)
           D == IF toRowan THEN d ELSE d * Factor[e]
           n == x * X * Y
           m == x * x * Y
           s == (x + X) * (x + X)
<1>1. PICK F \in Nat \ {0} : F = Factor[e]
  BY Zenon, ClpAssumption DEF Regular
<1>2. PICK k \in Nat \ {0} : /\ v.x * v.X * v.Y = n * k
                             /\ v.x * v.x * v.Y = m * k
                             /\ D = s * k
  <2>1. CASE toRowan /\ Adjust[e]
    <3>1. v = [X |-> X * F, x |-> x * F, Y |-> Y]
      BY Zenon, <1>1, <2>1 DEF Normalized
    <3>2. F * F \in Nat \ {0}
      BY Zenon, PositiveProduct
    <3>3. /\ (x * F) * (X * F) * Y = n * (F * F)
          /\ (x * F) * (x * F) * Y = m * (F * F)
          /\ (x * F + X * F) * (x * F + X * F) = s * (F * F)
      OBVIOUS
    <3>4. v.x = x * F /\ v.X = X * F /\ v.Y = Y
      BY <3>1
    <3>5. D = d
      BY Zenon, <2>1
    <3>6. /\ v.x * v.X * v.Y = n * (F * F)
          /\ v.x * v.x * v.Y = m * (F * F)
          /\ d = s * (F * F)
      BY <3>3, <3>4, Zenon
    <3> QED BY Zenon, <3>2, <3>5, <3>6
  <2>2. CASE toRowan /\ ~Adjust[e]
    <3>1. F = 1
      BY Zenon, <1>1, <2>2 DEF Regular
    <3>2. v = [X |-> X, x |-> x, Y |-> Y * F]
      BY Zenon, <1>1, <2>2, ClpAssumption DEF Normalized, Regular
    <3>3. /\ v.x * v.X * v.Y = n * F
          /\ v.x * v.x * v.Y = m * F
          /\ d = s * F
      BY <3>1, <3>2
    <3>4. D = d
      BY Zenon, <2>2
    <3> QED BY Zenon, <3>3, <3>4
  <2>3. CASE ~toRowan /\ Adjust[e]
    <3>1. v = [X |-> X, x |-> x, Y |-> Y * F]
      BY Zenon, <1>1, <2>3 DEF Normalized
    <3>3. /\ v.x * v.X * v.Y = n * F
          /\ v.x * v.x * v.Y = m * F
          /\ D = s * F
      BY <1>1, <2>3, <3>1
    <3> QED BY Zenon, <3>3
  <2>4. CASE ~toRowan /\ ~Adjust[e]
    <3>1. F = 1
      BY Zenon, <1>1, <2>4 DEF Regular
    <3>2. v = [X |-> X * F, x |-> x * F, Y |-> Y]
      BY Zenon, <1>1, <2>4, ClpAssumption DEF Normalized, Regular
    <3>3. /\ v.x * v.X * v.Y = n * F
          /\ v.x * v.x * v.Y = m * F
          /\ D = s * F
      BY <1>1, <2>4, <3>1, <3>2
    <3> QED BY Zenon, <3>3
  <2> QED BY Zenon, <2>1, <2>2, <2>3, <2>4
<1>3. n \in Nat /\ m \in Nat /\ s \in Nat \ {0}
  BY Product, PositiveProduct
<1>4. 0 \notin {X, x, Y}
  BY Zenon
<1>5. /\ CalcSwapResult(toRowan, e, X, x, Y) = RoundInt(v.x * v.X * v.Y, D)
      /\ CalcLiquidityFee(toRowan, e, X, x, Y) = RoundInt(v.x * v.x * v.Y, D)
  BY Zenon, <1>4 DEF CalcSwapResult, CalcLiquidityFee
<1> HIDE DEF v, D, n, m, s
<1>6. n * k \in Nat /\ m * k \in Nat /\ s * k \in Nat \ {0}
  BY Zenon, <1>3, Product, PositiveProduct
<1>7. /\ Near(CalcSwapResult(toRowan, e, X, x, Y), n * k, s * k)
      /\ Near(CalcLiquidityFee(toRowan, e, X, x, Y), m * k, s * k)
  BY Zenon, <1>2, <1>5, <1>6, RoundIntNear
<1>8. /\ Near(CalcSwapResult(toRowan, e, X, x, Y), n, s)
      /\ Near(CalcLiquidityFee(toRowan, e, X, x, Y), m, s)
  BY Zenon, <1>3, <1>7, NearScaled
<1> QED BY Zenon, <1>8 DEF n, m, s

\* What is deducted for an uneven addition is at most what is multiplied.
LEMMA SlipBound ==
  ASSUME NEW R \in Nat, NEW A \in Nat, NEW r \in Nat, NEW a \in Nat
  PROVE  /\ Distance(R * a, r * A) \in Nat
         /\ Distance(R * a, r * A) <= a * R + A * r
         /\ (r + R) * (a + A) = r * a + (a * R + A * r) + R * A
         /\ (r + R) * (a + A) - Distance(R * a, r * A) \in Nat
<1>1. PICK m \in Nat : m = R * a
  BY Zenon, Product
<1>2. PICK n \in Nat : n = r * A
  BY Zenon, Product
<1>3. PICK s \in Nat : s = r * a
  BY Zenon, Product
<1>4. PICK t \in Nat : t = R * A
  BY Zenon, Product
<1>5. a * R = m /\ A * r = n
  BY <1>1, <1>2
<1>6. (r + R) * (a + A) = s + (m + n) + t
  BY <1>1, <1>2, <1>3, <1>4
<1>7. Distance(m, n) \in Nat /\ Distance(m, n) <= m + n
  BY DEF Distance
<1> QED BY <1>1, <1>2, <1>3, <1>4, <1>5, <1>6, <1>7

\* Rounding P + n/d gives P and one of the two integers around n/d.
LEMMA RoundSum ==
  ASSUME NEW P \in Nat, NEW n \in Nat, NEW d \in Nat \ {0}, NEW m \in Nat, m = P * d + n,
         NEW q \in Nat, q = n \div d
  PROVE  m \div d = P + q
<1>1. PICK r \in 0 .. (d - 1) : r = n % d
  BY Zenon, Division
<1>2. PICK s \in Nat : s = m \div d
  BY Zenon, Division
<1>3. PICK u \in 0 .. (d - 1) : u = m % d
  BY Zenon, Division
<1>4. m = s * d + u
  BY Zenon, <1>2, <1>3, Division
<1>5. n = q * d + r
  BY Zenon, <1>1, Division
<1>6. s * d + u = (P + q) * d + r
  <2>1. q * d \in Int /\ s * d \in Int /\ P * d \in Int
    OBVIOUS
  <2>2. (P + q) * d = P * d + q * d
    OBVIOUS
  <2> QED BY <2>1, <2>2, <1>4, <1>5
<1>7. s = P + q
  BY <1>6, DivisionUnique
<1> QED BY Zenon, <1>2, <1>7

\* The units after an addition: the pool never has fewer than before, and what it gains
\* differs by at most one from what the provider gets.
LEMMA UnitsRounded ==
  ASSUME NEW e \in Externals, NEW P \in Nat,
         NEW R \in Nat \ {0}, NEW A \in Nat \ {0}, NEW r \in Nat, NEW a \in Nat,
         NEW u \in CalculatePoolUnits(e, P, R, A, r, a)
  PROVE  LET both == (r + R) * (a + A)
             up   == P * (a * R + A * r) * (both - Distance(R * a, r * A))
             down == 2 * A * R * both
         IN  /\ up \in Nat /\ down \in Nat \ {0}
             /\ u.pool \in Nat /\ u.provider \in Nat
             /\ P <= u.pool
             /\ u.pool - P - u.provider \in {-1, 0, 1}
             /\ 2 * (u.pool * down) <= 2 * (P * down + up) + down
<1> DEFINE both == (r + R) * (a + A)
           up   == P * (a * R + A * r) * (both - Distance(R * a, r * A))
           down == 2 * A * R * both
<1>1. up \in Nat
  <2>1. both - Distance(R * a, r * A) \in Nat
    BY Zenon, SlipBound
  <2>2. a * R + A * r \in Nat
    BY Product
  <2> HIDE DEF both
  <2>3. P * (a * R + A * r) \in Nat
    BY Zenon, <2>2, Product
  <2> QED BY Zenon, <2>1, <2>3, Product
<1>2. down \in Nat \ {0}
  <2>1. both \in Nat \ {0}
    <3>1. r + R \in Nat \ {0} /\ a + A \in Nat \ {0}
      OBVIOUS
    <3> QED BY Zenon, <3>1, PositiveProduct
  <2>2. 2 * A * R \in Nat \ {0}
    BY PositiveProduct
  <2> HIDE DEF both
  <2> QED BY Zenon, <2>1, <2>2, PositiveProduct
<1>3. \/ u = [pool |-> RoundInt(P * down + up, down), provider |-> RoundInt(up, down)]
      \/ \E v \in Nearest(up, down) : u = [pool |-> P + v, provider |-> v]
  BY Zenon DEF CalculatePoolUnits
<1> HIDE DEF up, down
<1>4. PICK q \in Nat : q = up \div down
  BY Zenon, <1>1, <1>2, Division
<1>5. PICK t \in Nat : t = P * down
  BY Zenon, <1>2, Product
<1>6. t + up \in Nat /\ (t + up) \div down = P + q
  <2>1. PICK m \in Nat : m = t + up
    BY <1>1
  <2>2. m \div down = P + q
    BY <1>1, <1>2, <1>4, <1>5, <2>1, RoundSum
  <2> QED BY Zenon, <2>1, <2>2
<1>7. CASE u = [pool |-> RoundInt(P * down + up, down), provider |-> RoundInt(up, down)]
  <2>1. RoundInt(up, down) \in {q, q + 1}
    BY Zenon, <1>1, <1>2, <1>4, RoundIntRange
  <2>2. RoundInt(t + up, down) \in {P + q, P + q + 1}
    BY Zenon, <1>2, <1>6, RoundIntRange
  <2>3. Near(RoundInt(t + up, down), t + up, down)
    BY Zenon, <1>2, <1>6, RoundIntNear
  <2>4. u.pool = RoundInt(t + up, down) /\ u.provider = RoundInt(up, down)
    BY Zenon, <1>5, <1>7
  <2>5. 2 * (u.pool * down) <= 2 * (t + up) + down
    BY Zenon, <2>3, <2>4 DEF Near
  <2>6. /\ u.pool \in Nat /\ u.provider \in Nat /\ P <= u.pool
        /\ u.pool - P - u.provider \in {-1, 0, 1}
    BY <2>1, <2>2, <2>4
  <2> QED BY Zenon, <1>1, <1>2, <1>5, <2>5, <2>6 DEF up, down
<1>8. CASE \E v \in Nearest(up, down) : u = [pool |-> P + v, provider |-> v]
  <2>1. PICK v \in Nearest(up, down) : u = [pool |-> P + v, provider |-> v]
    BY Zenon, <1>8
  <2>2. Near(v, up, down)
    BY Zenon, <1>1, <1>2, NearestNear
  <2>3. v \in Nat /\ u.pool = P + v /\ u.provider = v
    BY Zenon, <2>1, <2>2 DEF Near
  <2>4. (P + v) * down = t + v * down
    BY <1>2, <1>5, <2>3
  <2>5. PICK s \in Nat : s = v * down
    BY Zenon, <1>2, <2>3, Product
  <2>6. 2 * (u.pool * down) <= 2 * (t + up) + down
    BY <1>1, <1>2, <2>2, <2>3, <2>4, <2>5 DEF Near
  <2>7. /\ u.pool \in Nat /\ u.provider \in Nat /\ P <= u.pool
        /\ u.pool - P - u.provider \in {-1, 0, 1}
    BY <2>3
  <2> QED BY Zenon, <1>1, <1>2, <1>5, <2>6, <2>7 DEF up, down
<1> QED BY Zenon, <1>3, <1>7, <1>8

----------------------------------------------------------------------------
(* The invariant: types, and no side of a pool is empty.                    *)

\* f is a function from some elements of D to R.
Partial(f, D, R) == DOMAIN f \subseteq D /\ f \in [DOMAIN f -> R]

\* f is a function on D.
Total(f, D) == f = [x \in D |-> f[x]]

\* h records the units of the providers of every external asset.
Providers(h) == Total(h, Externals) /\ \A e \in Externals : Partial(h[e], Accounts, Nat)

\* The pools that the formulas can be applied to.
GoodPool == {p \in Pool : p.native > 0 /\ p.external > 0}

ClpInv ==
  /\ Partial(pools, Externals, GoodPool)
  /\ Providers(lps)
  /\ module \in [Assets -> Nat]
  /\ accounts \in [Accounts -> [Assets -> Nat]]

LEMMA PartialEmpty ==
  ASSUME NEW D, NEW R
  PROVE  Partial(<<>>, D, R)
BY DEF Partial

LEMMA PartialPut ==
  ASSUME NEW f, NEW D, NEW R, Partial(f, D, R), NEW k \in D, NEW v \in R
  PROVE  /\ Partial(Put(f, k, v), D, R)
         /\ DOMAIN Put(f, k, v) = DOMAIN f \cup {k}
         /\ Put(f, k, v)[k] = v
         /\ \A x \in DOMAIN f \ {k} : Put(f, k, v)[x] = f[x]
BY Zenon DEF Partial, Put

LEMMA PartialDelete ==
  ASSUME NEW f, NEW D, NEW R, Partial(f, D, R), NEW k
  PROVE  /\ Partial(Delete(f, k), D, R)
         /\ DOMAIN Delete(f, k) = DOMAIN f \ {k}
         /\ \A x \in DOMAIN f \ {k} : Delete(f, k)[x] = f[x]
BY Zenon DEF Partial, Delete

LEMMA PartialExcept ==
  ASSUME NEW f, NEW D, NEW R, Partial(f, D, R), NEW k \in DOMAIN f, NEW v \in R
  PROVE  /\ Partial([f EXCEPT ![k] = v], D, R)
         /\ DOMAIN [f EXCEPT ![k] = v] = DOMAIN f
         /\ [f EXCEPT ![k] = v][k] = v
         /\ \A x \in DOMAIN f \ {k} : [f EXCEPT ![k] = v][x] = f[x]
BY Zenon DEF Partial

\* The records of providers stay well formed when those of one asset are replaced.
LEMMA ProvidersReplaced ==
  ASSUME ClpInv, NEW e \in Externals, NEW g, Partial(g, Accounts, Nat),
         NEW h, h = [lps EXCEPT ![e] = g]
  PROVE  Providers(h)
BY Zenon DEF ClpInv, Providers, Total

LEMMA ProvidersDomain ==
  ASSUME ClpInv
  PROVE  DOMAIN lps = Externals
BY Zenon DEF ClpInv, Providers, Total

\* A transfer keeps balances at or above zero.
LEMMA TransferType ==
  ASSUME ClpInv, NEW a \in Accounts, NEW sent \in [Assets -> Nat], NEW received \in [Assets -> Nat],
         Transfer(a, sent, received)
  PROVE  /\ module' \in [Assets -> Nat]
         /\ accounts' \in [Accounts -> [Assets -> Nat]]
         /\ \A s \in Assets : module'[s] = module[s] + sent[s] - received[s]
<1>1. module' = [s \in Assets |-> module[s] + sent[s] - received[s]]
  BY Zenon DEF Transfer
<1>2. \A s \in Assets : module[s] \in Nat /\ sent[s] \in Nat /\ received[s] \in Nat
                          /\ accounts[a][s] \in Nat
  BY Zenon DEF ClpInv
<1>3. \A s \in Assets : module[s] + sent[s] - received[s] \in Nat
  BY <1>2 DEF Transfer
<1>4. PICK row : row = [s \in Assets |-> accounts[a][s] - sent[s] + received[s]]
  BY Zenon
<1>5. row \in [Assets -> Nat]
  BY <1>2, <1>4 DEF Transfer
<1>6. accounts' = [accounts EXCEPT ![a] = row]
  BY Zenon, <1>4 DEF Transfer
<1>7. accounts' \in [Accounts -> [Assets -> Nat]]
  BY Zenon, <1>5, <1>6 DEF ClpInv
<1> QED BY Zenon, <1>1, <1>3, <1>7

LEMMA CoinsType ==
  ASSUME NEW e \in Externals, NEW m \in Nat, NEW n \in Nat
  PROVE  /\ Coins(e, m, n) \in [Assets -> Nat]
         /\ Coins(e, m, n)[Native] = m /\ Coins(e, m, n)[e] = n
         /\ \A t \in Assets \ {Native, e} : Coins(e, m, n)[t] = 0
<1>1. Native \in Assets /\ e \in Assets /\ e # Native
  BY Zenon, ClpAssumption DEF Assets
<1> QED BY Zenon, <1>1 DEF Coins

LEMMA CoinType ==
  ASSUME NEW s \in Assets, NEW m \in Nat
  PROVE  /\ Coin(s, m) \in [Assets -> Nat]
         /\ Coin(s, m)[s] = m
         /\ \A t \in Assets \ {s} : Coin(s, m)[t] = 0
BY Zenon DEF Coin

LEMMA NoCoinsType == NoCoins \in [Assets -> Nat] /\ \A t \in Assets : NoCoins[t] = 0
BY Zenon DEF NoCoins

\* A swap moves coins between the two sides and leaves the units alone; one that passes
\* its check empties no side.
Swapped(toRowan, e, x, p, s) ==
  /\ s.result \in Nat
  /\ s.pool.units = p.units
  /\ toRowan => /\ s.result = CalcSwapResult(TRUE, e, p.external, x, p.native)
                /\ s.pool.native = p.native - s.result /\ s.pool.external = p.external + x
                /\ s.ok => s.result < p.native
  /\ ~toRowan => /\ s.result = CalcSwapResult(FALSE, e, p.native, x, p.external)
                 /\ s.pool.native = p.native + x /\ s.pool.external = p.external - s.result
                 /\ s.ok => s.result < p.external
  /\ s.ok => s.pool \in Pool
  /\ s.ok /\ p \in GoodPool => s.pool \in GoodPool

LEMMA SwapOneFacts ==
  ASSUME NEW toRowan \in BOOLEAN, NEW e \in Externals, NEW x \in Nat, NEW p \in Pool
  PROVE  Swapped(toRowan, e, x, p, SwapOne(toRowan, e, x, p))
<1> DEFINE s == SwapOne(toRowan, e, x, p)
<1> HIDE DEF s
<1> SUFFICES Swapped(toRowan, e, x, p, s)
  BY Zenon DEF s
<1>1. PICK N \in Nat, X \in Nat, U \in Nat :
        /\ p = [native |-> N, external |-> X, units |-> U]
        /\ p.native = N /\ p.external = X /\ p.units = U
  BY Zenon DEF Pool
<1>2. CASE toRowan
  <2>1. PICK res \in Nat : res = CalcSwapResult(TRUE, e, X, x, N)
    BY Zenon, SwapResultType
  <2>2. PICK q : q = [p EXCEPT !.external = @ + x, !.native = @ - res]
    BY Zenon
  <2>3. s = [ok |-> res < N, result |-> res, pool |-> q]
    BY Zenon, <1>1, <1>2, <2>1, <2>2 DEF SwapOne, s
  <2>4. q = [native |-> N - res, external |-> X + x, units |-> U]
    BY Zenon, <1>1, <2>2
  <2>5. s.result = res /\ s.pool = q
    BY Zenon, <2>3
  <2>6. s.ok <=> res < N
    <3>1. PICK b \in BOOLEAN : b <=> res < N
      BY Zenon
    <3>2. b = (res < N)
      BY <3>1
    <3>3. s = [ok |-> b, result |-> res, pool |-> q]
      BY <2>3, <3>2, Zenon
    <3>4. s.ok = b
      BY Zenon, <3>3
    <3> QED BY <3>1, <3>4, Zenon
  <2>7. q.native = N - res /\ q.external = X + x /\ q.units = U
    BY Zenon, <2>4
  <2>8. res < N => q \in Pool
    BY <2>4 DEF Pool
  <2>9. res < N /\ N > 0 /\ X > 0 => q \in GoodPool
    BY <2>7, <2>8 DEF GoodPool
  <2>10. p \in GoodPool => N > 0 /\ X > 0
    BY Zenon, <1>1 DEF GoodPool
  <2>11. /\ s.result \in Nat /\ s.pool.units = p.units
         /\ s.result = CalcSwapResult(TRUE, e, p.external, x, p.native)
         /\ s.pool.native = p.native - s.result /\ s.pool.external = p.external + x
    BY Zenon, <1>1, <2>1, <2>5, <2>7
  <2>12. s.ok => s.result < p.native
    BY <1>1, <2>5, <2>6, Zenon
  <2>13. s.ok => s.pool \in Pool
    BY <2>5, <2>6, <2>8, Zenon
  <2>14. s.ok /\ p \in GoodPool => s.pool \in GoodPool
    BY <2>5, <2>6, <2>9, <2>10, Zenon
  <2> QED BY <1>2, <2>11, <2>12, <2>13, <2>14, Zenon DEF Swapped
<1>3. CASE ~toRowan
  <2>1. PICK res \in Nat : res = CalcSwapResult(FALSE, e, N, x, X)
    BY Zenon, SwapResultType
  <2>2. PICK q : q = [p EXCEPT !.native = @ + x, !.external = @ - res]
    BY Zenon
  <2>3. s = [ok |-> res < X, result |-> res, pool |-> q]
    BY Zenon, <1>1, <1>3, <2>1, <2>2 DEF SwapOne, s
  <2>4. q = [native |-> N + x, external |-> X - res, units |-> U]
    BY Zenon, <1>1, <2>2
  <2>5. s.result = res /\ s.pool = q
    BY Zenon, <2>3
  <2>6. s.ok <=> res < X
    <3>1. PICK b \in BOOLEAN : b <=> res < X
      BY Zenon
    <3>2. b = (res < X)
      BY <3>1
    <3>3. s = [ok |-> b, result |-> res, pool |-> q]
      BY <2>3, <3>2, Zenon
    <3>4. s.ok = b
      BY Zenon, <3>3
    <3> QED BY <3>1, <3>4, Zenon
  <2>7. q.native = N + x /\ q.external = X - res /\ q.units = U
    BY Zenon, <2>4
  <2>8. res < X => q \in Pool
    BY <2>4 DEF Pool
  <2>9. res < X /\ N > 0 /\ X > 0 => q \in GoodPool
    BY <2>7, <2>8 DEF GoodPool
  <2>10. p \in GoodPool => N > 0 /\ X > 0
    BY Zenon, <1>1 DEF GoodPool
  <2>11. /\ s.result \in Nat /\ s.pool.units = p.units
         /\ s.result = CalcSwapResult(FALSE, e, p.native, x, p.external)
         /\ s.pool.native = p.native + x /\ s.pool.external = p.external - s.result
    BY Zenon, <1>1, <2>1, <2>5, <2>7
  <2>12. s.ok => s.result < p.external
    BY <1>1, <2>5, <2>6, Zenon
  <2>13. s.ok => s.pool \in Pool
    BY <2>5, <2>6, <2>8, Zenon
  <2>14. s.ok /\ p \in GoodPool => s.pool \in GoodPool
    BY <2>5, <2>6, <2>9, <2>10, Zenon
  <2> QED BY <1>3, <2>11, <2>12, <2>13, <2>14, Zenon DEF Swapped
<1> QED BY Zenon, <1>2, <1>3

----------------------------------------------------------------------------
(* Sums over partial functions.                                             *)

\* The value of f at x, zero where f has none.
At(f, x) == IF x \in DOMAIN f THEN f[x] ELSE 0

LEMMA PartialWeight ==
  ASSUME NEW D, IsFiniteSet(D), NEW f, Partial(f, D, Nat)
  PROVE  /\ Weight(DOMAIN f, f) = Weight(D, [x \in D |-> At(f, x)])
         /\ Weight(DOMAIN f, f) \in Nat
         /\ \A x \in D : At(f, x) \in Nat
<1> DEFINE g == [x \in D |-> At(f, x)]
<1>1. \A x \in D : g[x] \in Nat /\ At(f, x) \in Nat
  BY Zenon DEF At, Partial
<1>2. UnitsOf(DOMAIN f, f) = UnitsOf(D, g)
  <2>1. \A x \in DOMAIN f : x \in D /\ f[x] = g[x]
    BY Zenon DEF At, Partial
  <2>2. \A x \in D \ DOMAIN f : {x} \X (1 .. g[x]) = {}
    BY DEF At
  <2> HIDE DEF g
  <2>3. ASSUME NEW y \in UnitsOf(DOMAIN f, f)
        PROVE  y \in UnitsOf(D, g)
    BY Zenon, <2>1 DEF UnitsOf
  <2>4. ASSUME NEW y \in UnitsOf(D, g)
        PROVE  y \in UnitsOf(DOMAIN f, f)
    <3>1. PICK x \in D : y \in {x} \X (1 .. g[x])
      BY Zenon DEF UnitsOf
    <3>2. x \in DOMAIN f
      BY Zenon, <2>2, <3>1
    <3> QED BY Zenon, <2>1, <3>1, <3>2 DEF UnitsOf
  <2> QED BY Zenon, <2>3, <2>4
<1>3. Weight(D, g) \in Nat
  BY Zenon, <1>1, WeightType
<1> QED BY Zenon, <1>1, <1>2, <1>3 DEF Weight

\* A sum changes by what changes at the only place that does.
LEMMA PartialChange ==
  ASSUME NEW D, IsFiniteSet(D), NEW f, Partial(f, D, Nat), NEW g, Partial(g, D, Nat),
         NEW k \in D, \A x \in D \ {k} : At(f, x) = At(g, x)
  PROVE  Weight(DOMAIN g, g) = Weight(DOMAIN f, f) - At(f, k) + At(g, k)
<1> DEFINE v == [x \in D |-> At(f, x)]
           w == [x \in D |-> At(g, x)]
<1>1. \A x \in D : v[x] = At(f, x) /\ w[x] = At(g, x)
  BY Zenon
<1>2. /\ Weight(DOMAIN f, f) = Weight(D, v) /\ Weight(DOMAIN g, g) = Weight(D, w)
      /\ \A x \in D : At(f, x) \in Nat /\ At(g, x) \in Nat
  BY Zenon, PartialWeight
<1> HIDE DEF v, w
<1>3. Weight(D, w) = Weight(D, v) - v[k] + w[k]
  BY <1>1, <1>2, WeightUpdate
<1> QED BY Zenon, <1>1, <1>2, <1>3

\* What the providers hold after one of them is recorded with v units, or deleted.
LEMMA HoldingsPut ==
  ASSUME NEW g, Partial(g, Accounts, Nat), NEW a \in Accounts, NEW v \in Nat
  PROVE  Weight(DOMAIN Put(g, a, v), Put(g, a, v)) = Weight(DOMAIN g, g) - At(g, a) + v
<1>1. PICK h : h = Put(g, a, v)
  BY Zenon
<1>2. /\ Partial(h, Accounts, Nat)
      /\ DOMAIN h = DOMAIN g \cup {a} /\ h[a] = v
      /\ \A x \in DOMAIN g \ {a} : h[x] = g[x]
  BY <1>1, PartialPut
<1>3. At(h, a) = v /\ \A x \in Accounts \ {a} : At(g, x) = At(h, x)
  BY Zenon, <1>2 DEF At
<1> QED BY <1>1, <1>2, <1>3, PartialChange, ClpAssumption

LEMMA HoldingsDelete ==
  ASSUME NEW g, Partial(g, Accounts, Nat), NEW a \in Accounts
  PROVE  Weight(DOMAIN Delete(g, a), Delete(g, a)) = Weight(DOMAIN g, g) - At(g, a)
<1>1. PICK h : h = Delete(g, a)
  BY Zenon
<1>2. /\ Partial(h, Accounts, Nat)
      /\ DOMAIN h = DOMAIN g \ {a}
      /\ \A x \in DOMAIN g \ {a} : h[x] = g[x]
  BY Zenon, <1>1, PartialDelete
<1>3. At(h, a) = 0 /\ \A x \in Accounts \ {a} : At(g, x) = At(h, x)
  BY Zenon, <1>2 DEF At
<1>4. Weight(DOMAIN h, h) = Weight(DOMAIN g, g) - At(g, a) + 0
  BY <1>2, <1>3, PartialChange, ClpAssumption
<1>5. Weight(DOMAIN g, g) \in Nat /\ At(g, a) \in Nat
  BY Zenon, PartialWeight, ClpAssumption
<1> QED BY <1>1, <1>4, <1>5

\* The native sides of the pools f.
NativeSides(f) == [e \in DOMAIN f |-> f[e].native]

NativeSum(f) == Weight(DOMAIN f, NativeSides(f))

\* The native side and the external side of asset e in the pools f.
NativeOf(f, e) == IF e \in DOMAIN f THEN f[e].native ELSE 0

ExternalOf(f, e) == IF e \in DOMAIN f THEN f[e].external ELSE 0

\* A change of one pool changes the sum of the native sides by as much.
SumFollows(f, g, e) ==
  /\ NativeSum(f) \in Nat
  /\ NativeOf(f, e) \in Nat /\ NativeOf(g, e) \in Nat
  /\ NativeSum(g) = NativeSum(f) - NativeOf(f, e) + NativeOf(g, e)

LEMMA NativeSumChange ==
  ASSUME NEW f, Partial(f, Externals, GoodPool), NEW g, Partial(g, Externals, GoodPool),
         NEW e \in Externals, DOMAIN f \cup {e} = DOMAIN g \cup {e},
         \A x \in DOMAIN f \ {e} : f[x] = g[x]
  PROVE  SumFollows(f, g, e)
<1>1. PICK v : v = NativeSides(f)
  BY Zenon
<1>2. PICK w : w = NativeSides(g)
  BY Zenon
<1>3. DOMAIN v = DOMAIN f /\ DOMAIN w = DOMAIN g
  BY Zenon, <1>1, <1>2 DEF NativeSides
<1>4. Partial(v, Externals, Nat)
  BY Zenon, <1>1 DEF NativeSides, Partial, GoodPool, Pool
<1>5. Partial(w, Externals, Nat)
  BY Zenon, <1>2 DEF NativeSides, Partial, GoodPool, Pool
<1>6. /\ \A x \in Externals : At(v, x) = NativeOf(f, x)
      /\ \A x \in Externals : At(w, x) = NativeOf(g, x)
  BY Zenon, <1>1, <1>2 DEF NativeSides, At, NativeOf
<1>7. \A x \in Externals \ {e} : At(v, x) = At(w, x)
  BY Zenon, <1>6 DEF NativeOf
<1>8. Weight(DOMAIN w, w) = Weight(DOMAIN v, v) - At(v, e) + At(w, e)
  BY <1>4, <1>5, <1>7, PartialChange, ClpAssumption
<1>9. Weight(DOMAIN v, v) \in Nat /\ At(v, e) \in Nat /\ At(w, e) \in Nat
  BY Zenon, <1>4, <1>5, PartialWeight, ClpAssumption
<1> QED BY Zenon, <1>1, <1>2, <1>3, <1>6, <1>8, <1>9 DEF NativeSum, SumFollows

----------------------------------------------------------------------------
(* What each message does.                                                  *)

\* The step concerns the pool of e and its providers only.
Changed(e) ==
  /\ DOMAIN pools' = DOMAIN pools \cup {e}
  /\ \A f \in DOMAIN pools \ {e} : pools'[f] = pools[f]
  /\ \A f \in Externals \ {e} : lps'[f] = lps[f]

\* The units that the providers of e hold.
Held(e) == Weight(DOMAIN lps[e], lps[e])

\* The invariant after a step is about the pools, the providers and the balances.
LEMMA InvFromParts ==
  ASSUME Partial(pools', Externals, GoodPool),
         Providers(lps'),
         module' \in [Assets -> Nat],
         accounts' \in [Accounts -> [Assets -> Nat]]
  PROVE  ClpInv'
BY Zenon DEF ClpInv

\* A pool that the invariant speaks about.
LEMMA PoolFacts ==
  ASSUME ClpInv, NEW e \in DOMAIN pools
  PROVE  /\ e \in Externals
         /\ pools[e] \in GoodPool /\ pools[e] \in Pool
         /\ pools[e].native \in Nat \ {0} /\ pools[e].external \in Nat \ {0}
         /\ pools[e].units \in Nat
BY DEF ClpInv, Partial, GoodPool, Pool

LEMMA HeldType ==
  ASSUME ClpInv, NEW e \in Externals
  PROVE  Held(e) \in Nat
BY Zenon, PartialWeight, ClpAssumption DEF ClpInv, Providers, Held

LEMMA CreateEffect ==
  ASSUME ClpInv, NEW a \in Accounts, NEW e \in Externals, NEW r \in Nat, NEW x \in Nat,
         CreatePool(a, e, r, x)
  PROVE  /\ ClpInv'
         /\ Changed(e)
         /\ e \notin DOMAIN pools
         /\ pools'[e].native = r /\ pools'[e].external = x
         /\ module'[Native] = module[Native] + r /\ module'[e] = module[e] + x
         /\ \A s \in Assets \ {Native, e} : module'[s] = module[s]
<1>1. /\ r > 0 /\ x > 0 /\ e \notin DOMAIN pools
      /\ Transfer(a, Coins(e, r, x), NoCoins)
  BY Zenon DEF CreatePool
<1>2. PICK u \in CalculatePoolUnits(e, 0, 0, 0, r, x) :
        /\ pools' = Put(pools, e, [native |-> r, external |-> x, units |-> u.pool])
        /\ lps' = [lps EXCEPT ![e] = Put(@, a, u.provider)]
  BY Zenon DEF CreatePool
<1>3. u.pool \in Nat /\ u.provider \in Nat
  <2>1. Factor[e] \in Nat
    BY Zenon, ClpAssumption
  <2>2. r * Factor[e] \in Nat
    BY Zenon, <2>1, Product
  <2>3. u.pool \in {r, r * Factor[e]} /\ u.provider \in {r, r * Factor[e]}
    BY DEF CalculatePoolUnits
  <2> QED BY Zenon, <2>2, <2>3
<1>4. PICK q \in GoodPool : q = [native |-> r, external |-> x, units |-> u.pool]
  BY Zenon, <1>1, <1>3 DEF GoodPool, Pool
<1>5. /\ Partial(pools', Externals, GoodPool)
      /\ DOMAIN pools' = DOMAIN pools \cup {e}
      /\ pools'[e] = q
      /\ \A f \in DOMAIN pools \ {e} : pools'[f] = pools[f]
  <2>1. Partial(pools, Externals, GoodPool)
    BY Zenon DEF ClpInv
  <2>2. pools' = Put(pools, e, q)
    BY Zenon, <1>2, <1>4
  <2>3. PICK h : h = Put(pools, e, q)
    BY Zenon
  <2>4. /\ Partial(h, Externals, GoodPool)
        /\ DOMAIN h = DOMAIN pools \cup {e}
        /\ h[e] = q
        /\ \A f \in DOMAIN pools \ {e} : h[f] = pools[f]
    BY <2>1, <2>3, PartialPut
  <2> QED BY Zenon, <2>2, <2>3, <2>4
<1>6. PICK g : g = Put(lps[e], a, u.provider)
  BY Zenon
<1>7. lps' = [lps EXCEPT ![e] = g]
  BY Zenon, <1>2, <1>6 DEF ClpInv, Providers, Total
<1>8. Partial(g, Accounts, Nat)
  BY Zenon, <1>3, <1>6, PartialPut DEF ClpInv, Providers
<1>9. /\ Providers(lps')
      /\ \A f \in Externals \ {e} : lps'[f] = lps[f]
  <2>1. PICK h : h = [lps EXCEPT ![e] = g]
    BY Zenon
  <2>2. Providers(h)
    BY Zenon, <2>1, <1>8, ProvidersReplaced
  <2>3. h[e] = g /\ \A f \in Externals \ {e} : h[f] = lps[f]
    BY Zenon, <2>1, ProvidersDomain
  <2>4. h = lps'
    BY Zenon, <2>1, <1>7
  <2> QED BY Zenon, <2>2, <2>3, <2>4
<1>10. e \in Assets /\ Native \in Assets /\ e # Native
  BY Zenon, ClpAssumption DEF Assets
<1>11. Coins(e, r, x) \in [Assets -> Nat] /\ NoCoins \in [Assets -> Nat]
  BY Zenon, CoinsType, NoCoinsType
<1>12. /\ module' \in [Assets -> Nat]
       /\ accounts' \in [Accounts -> [Assets -> Nat]]
       /\ \A s \in Assets : module'[s] = module[s] + Coins(e, r, x)[s] - NoCoins[s]
  BY Zenon, <1>1, <1>11, TransferType
<1>13. \A s \in Assets : module[s] \in Nat
  BY Zenon DEF ClpInv
<1>14. /\ module'[Native] = module[Native] + r /\ module'[e] = module[e] + x
       /\ \A s \in Assets \ {Native, e} : module'[s] = module[s]
  BY <1>10, <1>12, <1>13, CoinsType, NoCoinsType
<1>15. ClpInv'
  BY Zenon, <1>5, <1>9, <1>12, InvFromParts
<1> QED BY <1>1, <1>4, <1>5, <1>9, <1>14, <1>15 DEF Changed

LEMMA AddEffect ==
  ASSUME ClpInv, NEW a \in Accounts, NEW e \in Externals, NEW r \in Nat, NEW x \in Nat,
         AddLiquidity(a, e, r, x)
  PROVE  /\ ClpInv'
         /\ Changed(e)
         /\ e \in DOMAIN pools
         /\ r + x > 0
         /\ pools'[e].native = pools[e].native + r /\ pools'[e].external = pools[e].external + x
         /\ \E u \in CalculatePoolUnits(e, pools[e].units, pools[e].native, pools[e].external, r, x) :
              /\ pools'[e].units = u.pool
              /\ Held(e)' = Held(e) + u.provider
         /\ module'[Native] = module[Native] + r /\ module'[e] = module[e] + x
         /\ \A s \in Assets \ {Native, e} : module'[s] = module[s]
<1>1. /\ r + x > 0 /\ e \in DOMAIN pools
      /\ Transfer(a, Coins(e, r, x), NoCoins)
  BY Zenon DEF AddLiquidity
<1>2. PICK p \in GoodPool : p = pools[e]
  BY Zenon, <1>1, PoolFacts
<1>3. /\ p.native \in Nat \ {0} /\ p.external \in Nat \ {0} /\ p.units \in Nat
  BY Zenon, <1>1, <1>2, PoolFacts
<1>4. PICK u \in CalculatePoolUnits(e, p.units, p.native, p.external, r, x) :
        /\ pools' = [pools EXCEPT ![e] = [native |-> p.native + r, external |-> p.external + x,
                                          units |-> u.pool]]
        /\ lps' = [lps EXCEPT ![e] = Put(@, a, u.provider + IF a \in DOMAIN @ THEN @[a] ELSE 0)]
  BY Zenon, <1>2 DEF AddLiquidity
<1>5. u.pool \in Nat /\ u.provider \in Nat
  BY Zenon, <1>3, UnitsRounded
<1>6. PICK q \in GoodPool : q = [native |-> p.native + r, external |-> p.external + x,
                                 units |-> u.pool]
  <2>1. PICK n \in Nat \ {0} : n = p.native + r
    BY <1>3
  <2>2. PICK m \in Nat \ {0} : m = p.external + x
    BY <1>3
  <2>3. [native |-> n, external |-> m, units |-> u.pool] \in GoodPool
    BY <1>5 DEF GoodPool, Pool
  <2> QED BY Zenon, <2>1, <2>2, <2>3
<1>7. /\ Partial(pools', Externals, GoodPool)
      /\ DOMAIN pools' = DOMAIN pools
      /\ pools'[e] = q
      /\ \A f \in DOMAIN pools \ {e} : pools'[f] = pools[f]
  <2>1. Partial(pools, Externals, GoodPool)
    BY Zenon DEF ClpInv
  <2>2. pools' = [pools EXCEPT ![e] = q]
    BY Zenon, <1>4, <1>6
  <2> QED BY <1>1, <2>1, <2>2, PartialExcept, Zenon
<1>8. PICK old \in Nat : old = At(lps[e], a)
  BY Zenon DEF At, ClpInv, Providers, Partial
<1>9. PICK g : g = Put(lps[e], a, u.provider + old)
  BY Zenon
<1>10. lps' = [lps EXCEPT ![e] = g]
  BY Zenon, <1>4, <1>8, <1>9 DEF ClpInv, Providers, Total, At
<1>11. Partial(lps[e], Accounts, Nat)
  BY Zenon DEF ClpInv, Providers
<1>12. Partial(g, Accounts, Nat)
  <2>1. u.provider + old \in Nat
    BY <1>5, <1>8
  <2> QED BY <2>1, <1>9, <1>11, PartialPut, Zenon
<1>13. /\ Providers(lps')
       /\ lps'[e] = g
       /\ \A f \in Externals \ {e} : lps'[f] = lps[f]
  <2>1. PICK h : h = [lps EXCEPT ![e] = g]
    BY Zenon
  <2>2. Providers(h)
    BY Zenon, <2>1, <1>12, ProvidersReplaced
  <2>3. h[e] = g /\ \A f \in Externals \ {e} : h[f] = lps[f]
    BY Zenon, <2>1, ProvidersDomain
  <2>4. h = lps'
    BY Zenon, <2>1, <1>10
  <2> QED BY Zenon, <2>2, <2>3, <2>4
<1>14. Held(e)' = Held(e) + u.provider
  <2>1. Weight(DOMAIN g, g) = Held(e) - old + (u.provider + old)
    BY <1>5, <1>8, <1>9, <1>11, HoldingsPut DEF Held
  <2>2. Held(e)' = Weight(DOMAIN g, g)
    BY Zenon, <1>13 DEF Held
  <2> QED BY <1>5, <1>8, <2>1, <2>2, HeldType
<1>15. e \in Assets /\ Native \in Assets /\ e # Native
  BY Zenon, ClpAssumption DEF Assets
<1>16. Coins(e, r, x) \in [Assets -> Nat] /\ NoCoins \in [Assets -> Nat]
  BY Zenon, CoinsType, NoCoinsType
<1>17. /\ module' \in [Assets -> Nat]
       /\ accounts' \in [Accounts -> [Assets -> Nat]]
       /\ \A s \in Assets : module'[s] = module[s] + Coins(e, r, x)[s] - NoCoins[s]
  BY Zenon, <1>1, <1>16, TransferType
<1>18. \A s \in Assets : module[s] \in Nat
  BY Zenon DEF ClpInv
<1>19. /\ module'[Native] = module[Native] + r /\ module'[e] = module[e] + x
       /\ \A s \in Assets \ {Native, e} : module'[s] = module[s]
  BY <1>15, <1>17, <1>18, CoinsType, NoCoinsType
<1>20. ClpInv'
  BY ZenonT(40), <1>7, <1>13, <1>17, InvFromParts
<1>21. pools'[e].native = p.native + r /\ pools'[e].external = p.external + x
       /\ pools'[e].units = u.pool
  BY <1>6, <1>7
<1> QED BY Zenon, <1>1, <1>2, <1>7, <1>13, <1>14, <1>19, <1>20, <1>21 DEF Changed

\* The coins of s that the module gains in the step.
Gain(s) == module'[s] - module[s]

LEMMA SingleSwapEffect ==
  ASSUME ClpInv, NEW a \in Accounts, NEW toRowan \in BOOLEAN, NEW e \in Externals,
         NEW amount \in Nat, NEW min, SingleSwap(a, toRowan, e, amount, min)
  PROVE  /\ ClpInv'
         /\ Changed(e)
         /\ e \in DOMAIN pools
         /\ pools'[e].units = pools[e].units /\ lps' = lps
         /\ Gain(Native) = pools'[e].native - pools[e].native
         /\ Gain(e) = pools'[e].external - pools[e].external
         /\ \A s \in Assets \ {Native, e} : Gain(s) = 0
<1>1. e \in DOMAIN pools /\ lps' = lps
  BY Zenon DEF SingleSwap
<1>2. PICK p \in GoodPool : p = pools[e] /\ p \in Pool
  BY Zenon, <1>1, PoolFacts
<1>3. /\ p.native \in Nat \ {0} /\ p.external \in Nat \ {0} /\ p.units \in Nat
  BY Zenon, <1>1, <1>2, PoolFacts
<1>4. PICK swap : swap = SwapOne(toRowan, e, amount, p)
  BY Zenon
<1>5. /\ swap.ok
      /\ pools' = [pools EXCEPT ![e] = swap.pool]
      /\ Transfer(a, Coin(IF toRowan THEN e ELSE Native, amount),
                     Coin(IF toRowan THEN Native ELSE e, swap.result))
  BY Zenon, <1>2, <1>4 DEF SingleSwap
<1>6. /\ swap.result \in Nat
      /\ swap.pool \in GoodPool
      /\ swap.pool.units = p.units
      /\ swap.pool.native = IF toRowan THEN p.native - swap.result ELSE p.native + amount
      /\ swap.pool.external = IF toRowan THEN p.external + amount ELSE p.external - swap.result
  <2>1. Swapped(toRowan, e, amount, p, swap)
    BY Zenon, <1>2, <1>4, SwapOneFacts
  <2> QED BY Zenon, <1>2, <1>5, <2>1 DEF Swapped
<1>7. PICK q \in GoodPool : q = swap.pool
  BY Zenon, <1>6
<1>8. /\ Partial(pools', Externals, GoodPool)
      /\ DOMAIN pools' = DOMAIN pools
      /\ pools'[e] = q
      /\ \A f \in DOMAIN pools \ {e} : pools'[f] = pools[f]
  <2>1. Partial(pools, Externals, GoodPool)
    BY Zenon DEF ClpInv
  <2>2. pools' = [pools EXCEPT ![e] = q]
    BY Zenon, <1>5, <1>7
  <2> QED BY <1>1, <2>1, <2>2, PartialExcept, Zenon
<1>9. e \in Assets /\ Native \in Assets /\ e # Native
  BY Zenon, ClpAssumption DEF Assets
<1>10. PICK s \in Assets, t \in Assets : /\ s = IF toRowan THEN e ELSE Native
                                         /\ t = IF toRowan THEN Native ELSE e
  BY Zenon, <1>9
<1>11. s # t /\ {s, t} = {Native, e}
  BY Zenon, <1>9, <1>10
<1>12. PICK sent \in [Assets -> Nat] :
         /\ sent = Coin(s, amount)
         /\ sent[s] = amount /\ \A c \in Assets \ {s} : sent[c] = 0
  BY CoinType
<1>13. PICK received \in [Assets -> Nat] :
         /\ received = Coin(t, swap.result)
         /\ received[t] = swap.result /\ \A c \in Assets \ {t} : received[c] = 0
  <2>1. PICK res \in Nat : res = swap.result
    BY Zenon, <1>6
  <2>2. /\ Coin(t, res) \in [Assets -> Nat]
        /\ Coin(t, res)[t] = res /\ \A c \in Assets \ {t} : Coin(t, res)[c] = 0
    BY Zenon, CoinType
  <2> QED BY Zenon, <2>1, <2>2
<1>14. Transfer(a, sent, received)
  BY Zenon, <1>5, <1>10, <1>12, <1>13
<1>15. /\ module' \in [Assets -> Nat]
       /\ accounts' \in [Accounts -> [Assets -> Nat]]
       /\ \A c \in Assets : module'[c] = module[c] + sent[c] - received[c]
  BY Zenon, <1>14, TransferType
<1>16. \A c \in Assets : module[c] \in Nat
  BY Zenon DEF ClpInv
<1>17. /\ Gain(s) = amount /\ Gain(t) = 0 - swap.result
       /\ \A c \in Assets \ {s, t} : Gain(c) = 0
  BY <1>6, <1>11, <1>12, <1>13, <1>15, <1>16 DEF Gain
<1>18. ClpInv'
  <2>1. Providers(lps')
    BY Zenon, <1>1 DEF ClpInv
  <2> QED BY Zenon, <2>1, <1>8, <1>15, InvFromParts
<1>19. q.native - p.native = Gain(Native) /\ q.external - p.external = Gain(e)
  <2>1. CASE toRowan
    BY <2>1, <1>3, <1>6, <1>7, <1>10, <1>17
  <2>2. CASE ~toRowan
    BY <2>2, <1>3, <1>6, <1>7, <1>10, <1>17
  <2> QED BY Zenon, <2>1, <2>2
<1> QED BY Zenon, <1>1, <1>2, <1>6, <1>7, <1>8, <1>11, <1>17, <1>18, <1>19 DEF Changed

\* One swap, on the pools f before it and g after it.
SwappedIn(f, g, toRowan, e, x, res) ==
  /\ res \in Nat
  /\ Partial(g, Externals, GoodPool)
  /\ DOMAIN g = DOMAIN f
  /\ \A d \in DOMAIN f : g[d].units = f[d].units
  /\ NativeSum(f) \in Nat
  /\ NativeSum(g) = IF toRowan THEN NativeSum(f) - res ELSE NativeSum(f) + x
  /\ \A d \in Externals : /\ ExternalOf(f, d) \in Nat
                          /\ d # e => ExternalOf(g, d) = ExternalOf(f, d)
  /\ ExternalOf(g, e) = IF toRowan THEN ExternalOf(f, e) + x ELSE ExternalOf(f, e) - res

LEMMA SwapInPools ==
  ASSUME NEW f, Partial(f, Externals, GoodPool), NEW toRowan \in BOOLEAN, NEW e \in DOMAIN f,
         NEW x \in Nat, NEW s, s = SwapOne(toRowan, e, x, f[e]), s.ok,
         NEW g, g = [f EXCEPT ![e] = s.pool]
  PROVE  SwappedIn(f, g, toRowan, e, x, s.result)
<1>1. e \in Externals
  BY Zenon DEF Partial
<1>2. PICK p \in GoodPool : p = f[e]
  BY Zenon DEF Partial
<1>3. p \in Pool /\ p.native \in Nat /\ p.external \in Nat
  BY Zenon DEF GoodPool, Pool
<1>4. Swapped(toRowan, e, x, p, s)
  BY Zenon, <1>1, <1>2, <1>3, SwapOneFacts
<1>5. PICK res \in Nat : res = s.result
  BY Zenon, <1>4 DEF Swapped
<1>6. PICK q \in GoodPool : q = s.pool
  BY Zenon, <1>4 DEF Swapped
<1>7. /\ q.units = p.units
      /\ q.native = IF toRowan THEN p.native - res ELSE p.native + x
      /\ q.external = IF toRowan THEN p.external + x ELSE p.external - res
  BY Zenon, <1>4, <1>5, <1>6 DEF Swapped
<1>8. /\ Partial(g, Externals, GoodPool)
      /\ DOMAIN g = DOMAIN f
      /\ g[e] = q
      /\ \A d \in DOMAIN f \ {e} : g[d] = f[d]
  <2>1. g = [f EXCEPT ![e] = q]
    BY Zenon, <1>6
  <2> QED BY Zenon, <1>1, <2>1 DEF Partial
<1>9. /\ NativeSum(f) \in Nat
      /\ NativeSum(g) = NativeSum(f) - NativeOf(f, e) + NativeOf(g, e)
  <2>1. DOMAIN f \cup {e} = DOMAIN g \cup {e}
    BY Zenon, <1>8
  <2>2. \A d \in DOMAIN f \ {e} : f[d] = g[d]
    BY Zenon, <1>8
  <2>3. SumFollows(f, g, e)
    BY <1>1, <1>8, <2>1, <2>2, NativeSumChange, Zenon
  <2> QED BY Zenon, <2>3 DEF SumFollows
<1>10. NativeOf(f, e) = p.native /\ NativeOf(g, e) = q.native
  BY Zenon, <1>2, <1>8 DEF NativeOf
<1>11. NativeSum(g) = IF toRowan THEN NativeSum(f) - res ELSE NativeSum(f) + x
  BY <1>3, <1>7, <1>9, <1>10
<1>12. ExternalOf(f, e) = p.external /\ ExternalOf(g, e) = q.external
  BY Zenon, <1>2, <1>8 DEF ExternalOf
<1>13. \A d \in Externals : /\ ExternalOf(f, d) \in Nat
                            /\ d # e => ExternalOf(g, d) = ExternalOf(f, d)
  BY Zenon, <1>8 DEF ExternalOf, Partial, GoodPool, Pool
<1>14. \A d \in DOMAIN f : g[d].units = f[d].units
  BY Zenon, <1>2, <1>7, <1>8
<1> QED BY Zenon, <1>1, <1>5, <1>7, <1>8, <1>9, <1>11, <1>12, <1>13, <1>14 DEF SwappedIn

LEMMA DoubleSwapEffect ==
  ASSUME ClpInv, NEW a \in Accounts, NEW from \in Externals, NEW to \in Externals,
         NEW amount \in Nat, NEW min, DoubleSwap(a, from, to, amount, min)
  PROVE  /\ ClpInv'
         /\ DOMAIN pools' = DOMAIN pools
         /\ \A e \in DOMAIN pools : pools'[e].units = pools[e].units
         /\ lps' = lps
         /\ NativeSum(pools') - NativeSum(pools) = Gain(Native)
         /\ \A s \in Externals : ExternalOf(pools', s) - ExternalOf(pools, s) = Gain(s)
<1>1. PICK first : first = SwapOne(TRUE, from, amount, pools[from])
  BY Zenon
<1>2. PICK after : after = [pools EXCEPT ![from] = first.pool]
  BY Zenon
<1>3. PICK second : second = SwapOne(FALSE, to, first.result, after[to])
  BY Zenon
<1>4. /\ from \in DOMAIN pools /\ to \in DOMAIN pools
      /\ first.ok /\ second.ok
      /\ pools' = [after EXCEPT ![to] = second.pool]
      /\ Transfer(a, Coin(from, amount), Coin(to, second.result))
      /\ lps' = lps
  BY Zenon, <1>1, <1>2, <1>3 DEF DoubleSwap
<1>5. Partial(pools, Externals, GoodPool)
  BY Zenon DEF ClpInv
<1>6. /\ first.result \in Nat
      /\ Partial(after, Externals, GoodPool)
      /\ DOMAIN after = DOMAIN pools
      /\ \A d \in DOMAIN pools : after[d].units = pools[d].units
      /\ NativeSum(pools) \in Nat
      /\ NativeSum(after) = NativeSum(pools) - first.result
      /\ \A d \in Externals : /\ ExternalOf(pools, d) \in Nat
                              /\ d # from => ExternalOf(after, d) = ExternalOf(pools, d)
      /\ ExternalOf(after, from) = ExternalOf(pools, from) + amount
  <2>1. SwappedIn(pools, after, TRUE, from, amount, first.result)
    BY Zenon, <1>1, <1>2, <1>4, <1>5, SwapInPools
  <2> QED BY Zenon, <2>1 DEF SwappedIn
<1>7. PICK h : h = [after EXCEPT ![to] = second.pool]
  BY Zenon
<1>8. /\ second.result \in Nat
      /\ Partial(h, Externals, GoodPool)
      /\ DOMAIN h = DOMAIN after
      /\ \A d \in DOMAIN after : h[d].units = after[d].units
      /\ NativeSum(h) = NativeSum(after) + first.result
      /\ \A d \in Externals : /\ ExternalOf(after, d) \in Nat
                              /\ d # to => ExternalOf(h, d) = ExternalOf(after, d)
      /\ ExternalOf(h, to) = ExternalOf(after, to) - second.result
  <2>1. PICK x \in Nat : x = first.result
    BY Zenon, <1>6
  <2>2. SwappedIn(after, h, FALSE, to, x, second.result)
    BY Zenon, <1>3, <1>4, <1>6, <1>7, <2>1, SwapInPools
  <2> QED BY Zenon, <2>1, <2>2 DEF SwappedIn
<1>9. from \in Assets /\ to \in Assets /\ Native \in Assets /\ Native \notin Externals
  BY Zenon, ClpAssumption DEF Assets
<1>10. PICK sent \in [Assets -> Nat] :
         /\ sent = Coin(from, amount)
         /\ sent[from] = amount /\ \A c \in Assets \ {from} : sent[c] = 0
  <2>1. /\ Coin(from, amount) \in [Assets -> Nat]
        /\ Coin(from, amount)[from] = amount
        /\ \A c \in Assets \ {from} : Coin(from, amount)[c] = 0
    BY Zenon, <1>9, CoinType
  <2> QED BY Zenon, <2>1
<1>11. PICK res \in Nat : res = second.result
  BY Zenon, <1>8
<1>12. PICK received \in [Assets -> Nat] :
         /\ received = Coin(to, res)
         /\ received[to] = res /\ \A c \in Assets \ {to} : received[c] = 0
  <2>1. /\ Coin(to, res) \in [Assets -> Nat]
        /\ Coin(to, res)[to] = res
        /\ \A c \in Assets \ {to} : Coin(to, res)[c] = 0
    BY Zenon, <1>9, CoinType
  <2> QED BY Zenon, <2>1
<1>13. Transfer(a, sent, received)
  BY Zenon, <1>4, <1>10, <1>11, <1>12
<1>14. /\ module' \in [Assets -> Nat]
       /\ accounts' \in [Accounts -> [Assets -> Nat]]
       /\ \A c \in Assets : module'[c] = module[c] + sent[c] - received[c]
  BY Zenon, <1>13, TransferType
<1>15. \A c \in Assets : module[c] \in Nat
  BY Zenon DEF ClpInv
<1>16. \A c \in Assets : Gain(c) = sent[c] - received[c]
  BY <1>14, <1>15 DEF Gain
<1>17. h = pools'
  BY Zenon, <1>4, <1>7
<1>18. ClpInv'
  <2>1. Providers(lps')
    BY Zenon, <1>4 DEF ClpInv
  <2>2. Partial(pools', Externals, GoodPool)
    BY Zenon, <1>8, <1>17
  <2> QED BY Zenon, <2>1, <2>2, <1>14, InvFromParts
<1>19. NativeSum(h) - NativeSum(pools) = Gain(Native)
  <2>1. Gain(Native) = 0
    BY <1>9, <1>10, <1>12, <1>16
  <2> QED BY <2>1, <1>6, <1>8
<1>20. ASSUME NEW s \in Externals
       PROVE  ExternalOf(h, s) - ExternalOf(pools, s) = Gain(s)
  <2>1. PICK m \in Nat : m = ExternalOf(pools, s)
    BY Zenon, <1>6
  <2>2. s \in Assets
    BY Zenon DEF Assets
  <2>3. ExternalOf(after, s) = m + sent[s]
    BY <1>6, <1>10, <2>1, <2>2
  <2>4. ExternalOf(h, s) = m + sent[s] - received[s]
    BY <1>8, <1>11, <1>12, <2>2, <2>3
  <2> QED BY <1>16, <2>1, <2>2, <2>4
<1>21. /\ DOMAIN pools' = DOMAIN pools
       /\ \A e \in DOMAIN pools : pools'[e].units = pools[e].units
  BY Zenon, <1>6, <1>8, <1>17
<1>22. /\ NativeSum(pools') - NativeSum(pools) = Gain(Native)
       /\ \A s \in Externals : ExternalOf(pools', s) - ExternalOf(pools, s) = Gain(s)
  BY Zenon, <1>17, <1>19, <1>20
<1> QED BY Zenon, <1>4, <1>18, <1>21, <1>22

\* A withdrawal takes whole coins and leaves the provider no more units than before.
Withdrawn(lp, w) ==
  /\ w.native \in Nat /\ w.external \in Nat /\ w.swap \in Nat
  /\ w.left \in Nat /\ w.left <= lp

LEMMA WithdrawalFacts ==
  ASSUME NEW p \in Pool, NEW lp \in Nat \ {0}, lp <= p.units, NEW wBasisPoints \in BasisPoints,
         NEW asymmetry \in Int, NEW w \in CalculateWithdrawal(p, lp, wBasisPoints, asymmetry)
  PROVE  Withdrawn(lp, w)
<1>1. PICK M \in Nat \ {0} : M = MaxWbasis
  BY Zenon, ClpAssumption
<1>2. PICK b \in 1 .. M : b = wBasisPoints
  BY Zenon, <1>1, ClpAssumption
<1>3. PICK N \in Nat, X \in Nat, U \in Nat \ {0} : p.native = N /\ p.external = X /\ p.units = U
  BY DEF Pool
<1>4. PICK claim \in Nat : claim = lp * b
  BY Product
<1>5. PICK down \in Nat \ {0} : down = U * M
  BY Zenon, PositiveProduct
<1>6. PICK dist \in Nat : dist = Distance(asymmetry, 0)
  BY DEF Distance
<1>7. PICK side \in Nat : side = IF asymmetry > 0 THEN p.native ELSE p.external
  BY Zenon, <1>3
<1>8. /\ w.native \in Nearest(N * claim, down)
      /\ w.external \in Nearest(X * claim, down)
      /\ w.left \in Nearest(lp * (M - b), M)
      /\ w.swap \in Nearest(side * claim * dist, down * M)
  BY Zenon, <1>1, <1>2, <1>3, <1>4, <1>5, <1>6, <1>7 DEF CalculateWithdrawal
<1>9. w.native \in Nat
  <2>1. N * claim \in Nat
    BY Zenon, Product
  <2> QED BY Zenon, <1>8, <2>1, NearestNear DEF Near
<1>10. w.external \in Nat
  <2>1. X * claim \in Nat
    BY Zenon, Product
  <2> QED BY Zenon, <1>8, <2>1, NearestNear DEF Near
<1>11. w.swap \in Nat
  <2>1. PICK n \in Nat : n = side * claim
    BY Zenon, Product
  <2>2. PICK m \in Nat : m = n * dist
    BY Zenon, Product
  <2>3. PICK d \in Nat \ {0} : d = down * M
    BY Zenon, PositiveProduct
  <2>4. w.swap \in Nearest(m, d)
    BY Zenon, <1>8, <2>1, <2>2, <2>3
  <2> QED BY Zenon, <2>4, NearestNear DEF Near
<1>12. w.left \in Nat /\ w.left <= lp
  <2>1. PICK c \in Nat : c = M - b
    BY <1>2
  <2>2. PICK n \in Nat : n = lp * c
    BY Zenon, Product
  <2>3. Near(w.left, n, M)
    BY Zenon, <1>8, <2>1, <2>2, NearestNear
  <2>4. PICK l \in Nat : l = w.left
    BY Zenon, <2>3 DEF Near
  <2>5. 2 * (l * M) <= 2 * n + M
    BY Zenon, <2>3, <2>4 DEF Near
  <2>6. ASSUME lp + 1 <= l PROVE FALSE
    <3>1. (lp + 1) * M <= l * M
      BY <2>6, Times
    <3>2. (lp + 1) * M = lp * M + M
      OBVIOUS
    <3>3. n = lp * M - lp * b
      BY <2>1, <2>2
    <3>4. lp * b \in Nat /\ lp * M \in Nat /\ l * M \in Nat
      BY Product
    <3> QED BY <2>5, <3>1, <3>2, <3>3, <3>4
  <2> QED BY <2>4, <2>6
<1> QED BY Zenon, <1>9, <1>10, <1>11, <1>12 DEF Withdrawn

\* What the pool q records beyond the books, where dn native and dx external coins are too
\* many: nothing, or what was swapped on one side for a result of nothing.
Unbooked(e, q, dn, dx) ==
  \/ dn = 0 /\ dx = 0
  \/ dn > 0 /\ dx = 0 /\ CalcSwapResult(FALSE, e, q.native - dn, dn, q.external) = 0
  \/ dn = 0 /\ dx > 0 /\ CalcSwapResult(TRUE, e, q.external - dx, dx, q.native) = 0

AdjustedTo(e, rest, w, asymmetry, paid) ==
  /\ paid.native \in Int /\ paid.external \in Int
  /\ paid.pool \in Pool
  /\ paid.pool.units = rest.units
  /\ asymmetry # 0 => paid.pool \in GoodPool
  /\ asymmetry = 0 => paid.pool = rest /\ paid.native = w.native /\ paid.external = w.external
  /\ \E dn, dx \in Int :
       /\ dn = paid.pool.native - rest.native + paid.native - w.native
       /\ dx = paid.pool.external - rest.external + paid.external - w.external
       /\ Unbooked(e, paid.pool, dn, dx)
LEMMA AdjustedFacts ==
  ASSUME NEW e \in Externals, NEW rest \in Pool, NEW lp, NEW w, Withdrawn(lp, w),
         NEW asymmetry \in Int, NEW paid, paid = Adjusted(e, rest, w, asymmetry), paid.ok
  PROVE  AdjustedTo(e, rest, w, asymmetry, paid)
<1>1. PICK N \in Nat, X \in Nat, x \in Nat, n \in Nat, m \in Nat :
        /\ rest.native = N /\ rest.external = X
        /\ w.swap = x /\ w.native = n /\ w.external = m
  BY Zenon DEF Pool, Withdrawn
<1>2. CASE asymmetry = 0
  <2>1. paid = [ok |-> TRUE, pool |-> rest, native |-> w.native, external |-> w.external]
    BY Zenon, <1>2 DEF Adjusted
  <2>2. paid.pool = rest /\ paid.native = n /\ paid.external = m
    BY <1>1, <2>1
  <2>3. Unbooked(e, paid.pool, 0, 0)
    BY Zenon DEF Unbooked
  <2>4. N - N + n - n = 0 /\ X - X + m - m = 0
    OBVIOUS
  <2> QED BY <1>1, <1>2, <2>2, <2>3, <2>4 DEF AdjustedTo
<1>3. CASE asymmetry > 0
  <2>1. PICK s : s = SwapOne(FALSE, e, x, rest)
    BY Zenon
  <2>2. Swapped(FALSE, e, x, rest, s)
    BY Zenon, <2>1, SwapOneFacts
  <2>3. PICK res \in Nat : res = s.result
    BY Zenon, <2>2 DEF Swapped
  <2>4. PICK g \in Nat : g = IF res = 0 THEN 0 ELSE x
    BY Zenon
  <2>5. paid = [ok       |-> s.ok /\ rest.native # 0 /\ rest.external # 0,
                pool     |-> s.pool,
                native   |-> w.native + (0 - g),
                external |-> w.external + res]
    <3>1. (asymmetry < 0) = FALSE /\ asymmetry # 0
      BY <1>3
    <3>2. SwapOne(asymmetry < 0, e, w.swap, rest) = s
      BY <1>1, <2>1, <3>1, Zenon
    <3>3. (IF s.result = 0 THEN 0 ELSE w.swap) = g
      BY Zenon, <1>1, <2>3, <2>4
    <3>4. ~(asymmetry < 0)
      BY <1>3
    <3> QED BY <1>1, <2>3, <3>1, <3>2, <3>3, <3>4, Zenon DEF Adjusted
  <2>6. paid.pool = s.pool /\ paid.native = n + (0 - g) /\ paid.external = m + res
    BY <1>1, <2>5
  <2>7. s.ok /\ N # 0 /\ X # 0
    <3>1. PICK b \in BOOLEAN : b <=> s.ok /\ rest.native # 0 /\ rest.external # 0
      BY Zenon
    <3>2. b = (s.ok /\ rest.native # 0 /\ rest.external # 0)
      BY <3>1, Zenon
    <3>3. PICK c, d, f : paid = [ok |-> b, pool |-> c, native |-> d, external |-> f]
      BY <2>5, <3>2, Zenon
    <3>4. paid.ok = b
      BY <3>3
    <3> QED BY <1>1, <3>1, <3>4, Zenon
  <2>8. rest \in GoodPool
    BY <1>1, <2>7 DEF GoodPool
  <2>9. PICK q \in GoodPool : q = paid.pool
    BY Zenon, <2>2, <2>6, <2>7, <2>8 DEF Swapped
  <2>10. q \in Pool /\ q.units = rest.units
    BY Zenon, <2>2, <2>6, <2>9 DEF Swapped, GoodPool
  <2>11. q.native = N + x /\ q.external = X - res
    BY Zenon, <1>1, <2>2, <2>3, <2>6, <2>9 DEF Swapped
  <2>12. res = CalcSwapResult(FALSE, e, N, x, X)
    BY Zenon, <1>1, <2>2, <2>3 DEF Swapped
  <2>13. PICK dn \in Int, dx \in Int :
           /\ dn = q.native - N + paid.native - n
           /\ dx = q.external - X + paid.external - m
           /\ dn = x - g /\ dx = 0
    BY <2>6, <2>11
  <2>14. Unbooked(e, q, dn, dx)
    <3>1. CASE x - g = 0
      BY Zenon, <2>13, <3>1 DEF Unbooked
    <3>2. CASE x - g # 0
      <4>1. res = 0 /\ dn = x /\ dx = 0 /\ dn > 0
        BY <2>4, <2>13, <3>2
      <4>2. q.native - dn = N /\ q.external = X
        BY <2>11, <4>1
      <4>3. CalcSwapResult(FALSE, e, N, dn, X) = 0
        BY <2>12, <4>1, Zenon
      <4>4. CalcSwapResult(FALSE, e, q.native - dn, dn, q.external) = 0
        BY <4>2, <4>3, Zenon
      <4> QED BY Zenon, <4>1, <4>4 DEF Unbooked
    <3> QED BY Zenon, <3>1, <3>2
  <2>15. asymmetry # 0
    BY <1>3
  <2>16. paid.native \in Int /\ paid.external \in Int
    BY <2>6
  <2> QED BY Zenon, <1>1, <2>9, <2>10, <2>13, <2>14, <2>15, <2>16 DEF AdjustedTo
<1>4. CASE asymmetry < 0
  <2>1. PICK s : s = SwapOne(TRUE, e, x, rest)
    BY Zenon
  <2>2. Swapped(TRUE, e, x, rest, s)
    BY Zenon, <2>1, SwapOneFacts
  <2>3. PICK res \in Nat : res = s.result
    BY Zenon, <2>2 DEF Swapped
  <2>4. PICK g \in Nat : g = IF res = 0 THEN 0 ELSE x
    BY Zenon
  <2>5. paid = [ok       |-> s.ok /\ rest.native # 0 /\ rest.external # 0,
                pool     |-> s.pool,
                native   |-> w.native + res,
                external |-> w.external + (0 - g)]
    <3>1. (asymmetry < 0) = TRUE /\ asymmetry # 0
      BY <1>4
    <3>2. SwapOne(asymmetry < 0, e, w.swap, rest) = s
      BY <1>1, <2>1, <3>1, Zenon
    <3>3. (IF s.result = 0 THEN 0 ELSE w.swap) = g
      BY Zenon, <1>1, <2>3, <2>4
    <3>4. (asymmetry < 0)
      BY Zenon, <1>4
    <3> QED BY <1>1, <2>3, <3>1, <3>2, <3>3, <3>4, Zenon DEF Adjusted
  <2>6. paid.pool = s.pool /\ paid.native = n + res /\ paid.external = m + (0 - g)
    BY <1>1, <2>5
  <2>7. s.ok /\ N # 0 /\ X # 0
    <3>1. PICK b \in BOOLEAN : b <=> s.ok /\ rest.native # 0 /\ rest.external # 0
      BY Zenon
    <3>2. b = (s.ok /\ rest.native # 0 /\ rest.external # 0)
      BY <3>1, Zenon
    <3>3. PICK c, d, f : paid = [ok |-> b, pool |-> c, native |-> d, external |-> f]
      BY <2>5, <3>2, Zenon
    <3>4. paid.ok = b
      BY <3>3
    <3> QED BY <1>1, <3>1, <3>4, Zenon
  <2>8. rest \in GoodPool
    BY <1>1, <2>7 DEF GoodPool
  <2>9. PICK q \in GoodPool : q = paid.pool
    BY ZenonT(40), <2>2, <2>6, <2>7, <2>8 DEF Swapped
  <2>10. q \in Pool /\ q.units = rest.units
    BY ZenonT(40), <2>2, <2>6, <2>9 DEF Swapped, GoodPool
  <2>11. q.native = N - res /\ q.external = X + x
    BY Zenon, <1>1, <2>2, <2>3, <2>6, <2>9 DEF Swapped
  <2>12. res = CalcSwapResult(TRUE, e, X, x, N)
    BY ZenonT(40), <1>1, <2>2, <2>3 DEF Swapped
  <2>13. PICK dn \in Int, dx \in Int :
           /\ dn = q.native - N + paid.native - n
           /\ dx = q.external - X + paid.external - m
           /\ dn = 0 /\ dx = x - g
    BY <2>6, <2>11
  <2>14. Unbooked(e, q, dn, dx)
    <3>1. CASE x - g = 0
      BY Zenon, <2>13, <3>1 DEF Unbooked
    <3>2. CASE x - g # 0
      <4>1. res = 0 /\ dx = x /\ dn = 0 /\ dx > 0
        BY <2>4, <2>13, <3>2
      <4>2. q.external - dx = X /\ q.native = N
        BY <2>11, <4>1
      <4>3. CalcSwapResult(TRUE, e, X, dx, N) = 0
        BY <2>12, <4>1, Zenon
      <4>4. CalcSwapResult(TRUE, e, q.external - dx, dx, q.native) = 0
        BY <4>2, <4>3, Zenon
      <4> QED BY Zenon, <4>1, <4>4 DEF Unbooked
    <3> QED BY Zenon, <3>1, <3>2
  <2>15. asymmetry # 0
    BY <1>4
  <2>16. paid.native \in Int /\ paid.external \in Int
    BY <2>6
  <2> QED BY Zenon, <1>1, <2>9, <2>10, <2>13, <2>14, <2>15, <2>16 DEF AdjustedTo
<1> QED BY <1>2, <1>3, <1>4

\* What a withdrawal from the pool of e does.
Removed(e) ==
  /\ Changed(e)
  /\ e \in DOMAIN pools
  /\ pools'[e].units <= pools[e].units
  /\ pools'[e].units - Held(e)' = pools[e].units - Held(e)
  /\ \A s \in Assets \ {Native, e} : Gain(s) = 0
  /\ \E dn, dx \in Int :
       /\ dn = pools'[e].native - pools[e].native - Gain(Native)
       /\ dx = pools'[e].external - pools[e].external - Gain(e)
       /\ Unbooked(e, pools'[e], dn, dx)

LEMMA RemoveEffect ==
  ASSUME ClpInv, NEW a \in Accounts, NEW e \in Externals, NEW wBasisPoints \in BasisPoints,
         NEW asymmetry \in Asymmetries, RemoveLiquidity(a, e, wBasisPoints, asymmetry)
  PROVE  ClpInv' /\ Removed(e)
<1>1. e \in DOMAIN pools /\ a \in DOMAIN lps[e]
  BY ZenonT(40) DEF RemoveLiquidity
<1>2. PICK p \in GoodPool : p = pools[e] /\ p \in Pool
  BY Zenon, <1>1, PoolFacts
<1>3. PICK N \in Nat, X \in Nat, U \in Nat : p.native = N /\ p.external = X /\ p.units = U
  BY Zenon, <1>2 DEF Pool
<1>4. Partial(lps[e], Accounts, Nat)
  BY Zenon DEF ClpInv, Providers
<1>5. PICK lp \in Nat \ {0} : lp = lps[e][a] /\ lp <= p.units
  BY <1>1, <1>2, <1>4 DEF RemoveLiquidity, Partial
<1>6. PICK w \in CalculateWithdrawal(p, lp, wBasisPoints, asymmetry) :
        LET rest == [native |-> p.native - w.native, external |-> p.external - w.external,
                     units |-> p.units - lp + w.left]
            paid == Adjusted(e, rest, w, asymmetry)
        IN  /\ w.native <= p.native /\ w.external <= p.external
            /\ paid.ok
            /\ paid.native >= 0 /\ paid.external >= 0 /\ ~TooShallow(p, paid)
            /\ pools' = [pools EXCEPT ![e] = paid.pool]
            /\ lps' = [lps EXCEPT ![e] = IF w.left = 0 THEN Delete(@, a) ELSE Put(@, a, w.left)]
            /\ Transfer(a, NoCoins, Coins(e, paid.native, paid.external))
  BY Zenon, <1>2, <1>5 DEF RemoveLiquidity
<1>7. asymmetry \in Int
  BY ClpAssumption
<1>8. Withdrawn(lp, w)
  BY ZenonT(40), <1>2, <1>5, <1>7, WithdrawalFacts
<1>9. PICK n \in Nat, m \in Nat, left \in Nat :
        w.native = n /\ w.external = m /\ w.left = left /\ left <= lp
  BY Zenon, <1>8 DEF Withdrawn
<1>10. PICK rest : rest = [native |-> p.native - w.native, external |-> p.external - w.external,
                           units |-> p.units - lp + w.left]
  BY ZenonT(40)
<1>11. PICK paid : paid = Adjusted(e, rest, w, asymmetry)
  BY Zenon
<1>12. /\ n <= N /\ m <= X
       /\ paid.ok
       /\ paid.native >= 0 /\ paid.external >= 0 /\ ~TooShallow(p, paid)
       /\ pools' = [pools EXCEPT ![e] = paid.pool]
       /\ lps' = [lps EXCEPT ![e] = IF w.left = 0 THEN Delete(@, a) ELSE Put(@, a, w.left)]
       /\ Transfer(a, NoCoins, Coins(e, paid.native, paid.external))
  BY Zenon, <1>3, <1>6, <1>9, <1>10, <1>11
<1>13. /\ rest = [native |-> N - n, external |-> X - m, units |-> U - lp + left]
       /\ rest \in Pool
       /\ rest.native = N - n /\ rest.external = X - m /\ rest.units = U - lp + left
  <2>1. rest = [native |-> N - n, external |-> X - m, units |-> U - lp + left]
    BY Zenon, <1>3, <1>9, <1>10
  <2>2. N - n \in Nat /\ X - m \in Nat /\ U - lp + left \in Nat
    BY <1>3, <1>5, <1>12
  <2> QED BY Zenon, <2>1, <2>2 DEF Pool
<1>14. AdjustedTo(e, rest, w, asymmetry, paid)
  BY Zenon, <1>7, <1>8, <1>11, <1>12, <1>13, AdjustedFacts
<1>15. PICK pn \in Nat, px \in Nat : paid.native = pn /\ paid.external = px
  BY <1>12, <1>14 DEF AdjustedTo
<1>16. paid.pool \in GoodPool
  <2>1. CASE asymmetry # 0
    BY Zenon, <1>14, <2>1 DEF AdjustedTo
  <2>2. CASE asymmetry = 0
    <3>1. paid.pool = rest /\ pn = n /\ px = m
      BY ZenonT(40), <1>9, <1>14, <1>15, <2>2 DEF AdjustedTo
    <3>2. n < N /\ m < X
      BY <1>3, <1>12, <1>15, <3>1 DEF TooShallow
    <3> QED BY <1>13, <3>1, <3>2 DEF GoodPool
  <2> QED BY Zenon, <2>1, <2>2
<1>17. PICK q \in GoodPool : q = paid.pool
  BY Zenon, <1>16
<1>18. PICK qn \in Nat, qx \in Nat : q.native = qn /\ q.external = qx
  BY Zenon DEF GoodPool, Pool
<1>19. q.units = U - lp + left
  BY ZenonT(40), <1>13, <1>14, <1>17 DEF AdjustedTo
<1>20. PICK dn \in Int, dx \in Int : /\ dn = qn - (N - n) + pn - n
                                     /\ dx = qx - (X - m) + px - m
                                     /\ Unbooked(e, q, dn, dx)
  BY ZenonT(40), <1>9, <1>13, <1>14, <1>15, <1>17, <1>18 DEF AdjustedTo
<1>21. /\ Partial(pools', Externals, GoodPool)
       /\ DOMAIN pools' = DOMAIN pools
       /\ pools'[e] = q
       /\ \A f \in DOMAIN pools \ {e} : pools'[f] = pools[f]
  <2>1. Partial(pools, Externals, GoodPool)
    BY Zenon DEF ClpInv
  <2>2. pools' = [pools EXCEPT ![e] = q]
    BY Zenon, <1>12, <1>17
  <2> QED BY <1>1, <2>1, <2>2, PartialExcept, Zenon
<1>22. PICK g : g = IF left = 0 THEN Delete(lps[e], a) ELSE Put(lps[e], a, left)
  BY Zenon
<1>23. Partial(g, Accounts, Nat)
  BY Zenon, <1>4, <1>22, PartialDelete, PartialPut
<1>24. Weight(DOMAIN g, g) = Held(e) - lp + left
  <2>1. At(lps[e], a) = lp
    BY Zenon, <1>1, <1>5 DEF At
  <2>2. PICK k \in Nat : k = Held(e)
    BY Zenon, HeldType
  <2>3. CASE left = 0
    BY <1>4, <1>22, <2>1, <2>2, <2>3, HoldingsDelete DEF Held
  <2>4. CASE left # 0
    BY Zenon, <1>4, <1>22, <2>1, <2>2, <2>4, HoldingsPut DEF Held
  <2> QED BY Zenon, <2>3, <2>4
<1>25. lps' = [lps EXCEPT ![e] = g]
  BY Zenon, <1>9, <1>12, <1>22, ProvidersDomain
<1>26. Providers(lps') /\ lps'[e] = g /\ \A f \in Externals \ {e} : lps'[f] = lps[f]
  <2>1. PICK h : h = [lps EXCEPT ![e] = g]
    BY Zenon
  <2>2. Providers(h)
    BY Zenon, <2>1, <1>23, ProvidersReplaced
  <2>3. h[e] = g /\ \A f \in Externals \ {e} : h[f] = lps[f]
    BY Zenon, <2>1, ProvidersDomain
  <2>4. h = lps'
    BY Zenon, <2>1, <1>25
  <2> QED BY Zenon, <2>2, <2>3, <2>4
<1>27. q.units - Held(e)' = U - Held(e)
  <2>1. Held(e)' = Weight(DOMAIN g, g)
    BY Zenon, <1>26 DEF Held
  <2> QED BY <2>1, <1>19, <1>24, HeldType
<1>28. /\ module' \in [Assets -> Nat]
       /\ accounts' \in [Accounts -> [Assets -> Nat]]
       /\ \A c \in Assets : module'[c] = module[c] + NoCoins[c] - Coins(e, pn, px)[c]
  <2>1. Transfer(a, NoCoins, Coins(e, pn, px))
    BY Zenon, <1>12, <1>15
  <2>2. Coins(e, pn, px) \in [Assets -> Nat] /\ NoCoins \in [Assets -> Nat]
    BY Zenon, CoinsType, NoCoinsType
  <2> QED BY ZenonT(40), <2>1, <2>2, TransferType
<1>29. \A c \in Assets : module[c] \in Nat
  BY Zenon DEF ClpInv
<1>30. e \in Assets /\ Native \in Assets
  BY Zenon DEF Assets
<1>31. /\ Gain(Native) = 0 - pn /\ Gain(e) = 0 - px
       /\ \A s \in Assets \ {Native, e} : Gain(s) = 0
  BY <1>28, <1>29, <1>30, CoinsType, NoCoinsType DEF Gain
<1>32. ClpInv'
  BY ZenonT(40), <1>21, <1>26, <1>28, InvFromParts
<1>33. /\ dn = q.native - p.native - Gain(Native)
       /\ dx = q.external - p.external - Gain(e)
  BY <1>3, <1>18, <1>20, <1>31
<1>34. q.units <= U
  BY <1>9, <1>5, <1>19
<1>35. Changed(e)
  BY ZenonT(40), <1>1, <1>21, <1>26 DEF Changed
<1>36. Removed(e)
  BY Zenon, <1>1, <1>2, <1>3, <1>20, <1>21, <1>27, <1>31, <1>33, <1>34, <1>35 DEF Removed
<1> QED BY Zenon, <1>32, <1>36

\* Decommissioning the pool of e deletes it and leaves the other pools alone.
LEMMA DecommissionEffect ==
  ASSUME ClpInv, NEW a \in Accounts, NEW e \in Externals, DecommissionPool(a, e)
  PROVE  /\ ClpInv'
         /\ e \in DOMAIN pools
         /\ DOMAIN pools' = DOMAIN pools \ {e}
         /\ \A f \in DOMAIN pools' : pools'[f] = pools[f] /\ lps'[f] = lps[f]
<1> DEFINE D == DOMAIN lps[e]
<1>1. /\ e \in DOMAIN pools
      /\ 0 \notin {lps[e][l] : l \in D}
      /\ Weight(D, lps[e]) <= pools[e].units
      /\ pools' = Delete(pools, e)
      /\ lps' = [lps EXCEPT ![e] = <<>>]
  BY ZenonT(40) DEF DecommissionPool
<1>2. PICK natives \in Shares(e, pools[e].native), externals \in Shares(e, pools[e].external) :
        LET paid == Coins(e, Weight(D, natives), Weight(D, externals))
        IN  /\ \A s \in Assets : paid[s] <= module[s]
            /\ module' = [s \in Assets |-> module[s] - paid[s]]
            /\ accounts' = [l \in Accounts |->
                 IF l \in D
                   THEN [accounts[l] EXCEPT ![Native] = @ + natives[l], ![e] = @ + externals[l]]
                   ELSE accounts[l]]
  BY ZenonT(40) DEF DecommissionPool
<1>3. PICK p \in Pool : p = pools[e] /\ p.native \in Nat /\ p.external \in Nat /\ p.units \in Nat
  BY ZenonT(40), <1>1, PoolFacts
<1>4. Partial(lps[e], Accounts, Nat)
  BY ZenonT(40) DEF ClpInv, Providers
<1>5. D \subseteq Accounts /\ IsFiniteSet(D) /\ \A l \in D : lps[e][l] \in Nat \ {0}
  <2>1. D \subseteq Accounts /\ \A l \in D : lps[e][l] \in Nat
    BY Zenon, <1>4 DEF Partial
  <2> QED BY ZenonT(40), <1>1, <2>1, FS_Subset, ClpAssumption
<1>6. ASSUME NEW balance \in Nat, NEW f \in Shares(e, balance)
      PROVE  (\A l \in D : f[l] \in Nat) /\ Weight(D, f) \in Nat
  <2>1. ASSUME NEW l \in D PROVE f[l] \in Nat
    <3>1. Weight({l}, lps[e]) = lps[e][l]
      BY ZenonT(40), <1>5, WeightSingleton
    <3>2. Weight({l}, lps[e]) <= Weight(D, lps[e])
      BY Zenon, <1>5, WeightMonotone
    <3>3. Weight(D, lps[e]) \in Nat
      BY Zenon, <1>5, WeightType
    <3>4. PICK k \in Nat \ {0} : k = lps[e][l]
      BY Zenon, <1>5
    <3>5. PICK U \in Nat \ {0} : U = pools[e].units
      BY <1>1, <1>3, <3>1, <3>2, <3>3, <3>4
    <3>6. balance * k \in Nat
      BY Zenon, Product
    <3>7. f[l] \in Nearest(balance * k, U)
      BY Zenon, <3>4, <3>5 DEF Shares
    <3> QED BY ZenonT(40), <3>6, <3>7, NearestNear DEF Near
  <2> QED BY ZenonT(40), <1>5, <2>1, WeightType
<1>7. /\ \A l \in D : natives[l] \in Nat /\ externals[l] \in Nat
      /\ Weight(D, natives) \in Nat /\ Weight(D, externals) \in Nat
  BY ZenonT(40), <1>2, <1>3, <1>6
<1>8. PICK m \in Nat, n \in Nat : m = Weight(D, natives) /\ n = Weight(D, externals)
  BY Zenon, <1>7
<1>9. PICK paid \in [Assets -> Nat] : paid = Coins(e, m, n)
  BY Zenon, CoinsType
<1>10. \A s \in Assets : paid[s] <= module[s]
  BY ZenonT(40), <1>2, <1>8, <1>9
<1>11. module' = [s \in Assets |-> module[s] - paid[s]]
  BY ZenonT(40), <1>2, <1>8, <1>9
<1>12. module' \in [Assets -> Nat]
  BY <1>10, <1>11 DEF ClpInv
<1>13. accounts' \in [Accounts -> [Assets -> Nat]]
  <2>1. ASSUME NEW l \in D
        PROVE  [accounts[l] EXCEPT ![Native] = @ + natives[l], ![e] = @ + externals[l]]
                 \in [Assets -> Nat]
    <3>1. accounts[l] \in [Assets -> Nat]
      BY ZenonT(40), <1>5 DEF ClpInv
    <3>2. PICK u \in Nat, v \in Nat : u = natives[l] /\ v = externals[l]
      BY ZenonT(40), <1>7
    <3>3. e \in Assets /\ Native \in Assets
      BY Zenon DEF Assets
    <3>4. PICK i \in Nat : i = accounts[l][Native] + u
      BY <3>1, <3>3
    <3>5. PICK row \in [Assets -> Nat] : row = [accounts[l] EXCEPT ![Native] = i]
      BY Zenon, <3>1
    <3>6. PICK k \in Nat : k = row[e] + v
      BY <3>3
    <3>7. [row EXCEPT ![e] = k] \in [Assets -> Nat]
      BY Zenon
    <3>8. [accounts[l] EXCEPT ![Native] = @ + u, ![e] = @ + v] = [row EXCEPT ![e] = k]
      BY <3>1, <3>3, <3>4, <3>5, <3>6
    <3> QED BY ZenonT(40), <3>2, <3>7, <3>8
  <2>2. \A l \in Accounts : accounts[l] \in [Assets -> Nat]
    BY Zenon DEF ClpInv
  <2> QED BY ZenonT(40), <1>2, <2>1, <2>2
<1>14. /\ Partial(pools', Externals, GoodPool)
       /\ DOMAIN pools' = DOMAIN pools \ {e}
       /\ \A f \in DOMAIN pools \ {e} : pools'[f] = pools[f]
  <2>1. Partial(pools, Externals, GoodPool)
    BY Zenon DEF ClpInv
  <2> QED BY Zenon, <1>1, <2>1 DEF Delete, Partial
<1>15. Providers(lps') /\ \A f \in Externals \ {e} : lps'[f] = lps[f]
  <2>1. PICK g : g = <<>>
    BY Zenon
  <2>2. Partial(g, Accounts, Nat)
    BY Zenon, <2>1, PartialEmpty
  <2>3. PICK h : h = [lps EXCEPT ![e] = g]
    BY Zenon
  <2>4. Providers(h)
    BY ZenonT(40), <2>2, <2>3, ProvidersReplaced
  <2>5. \A f \in Externals \ {e} : h[f] = lps[f]
    BY Zenon, <2>3, ProvidersDomain
  <2>6. h = lps'
    BY Zenon, <1>1, <2>1, <2>3
  <2> QED BY Zenon, <2>4, <2>5, <2>6
<1>16. ClpInv'
  BY Zenon, <1>12, <1>13, <1>14, <1>15, InvFromParts
<1>17. DOMAIN pools' \subseteq Externals
  BY Zenon, <1>14 DEF Partial
<1> QED BY ZenonT(40), <1>1, <1>14, <1>15, <1>16, <1>17

----------------------------------------------------------------------------
(* The invariant holds.                                                     *)

LEMMA ClpInitInv == ClpInit => ClpInv
<1> SUFFICES ASSUME ClpInit PROVE ClpInv
  BY Zenon
<1>1. Partial(pools, Externals, GoodPool)
  BY Zenon, PartialEmpty DEF ClpInit
<1>2. \A e \in Externals : Partial(lps[e], Accounts, Nat)
  BY Zenon, PartialEmpty DEF ClpInit
<1>3. Providers(lps)
  BY Zenon, <1>2 DEF ClpInit, Providers, Total
<1>4. module \in [Assets -> Nat] /\ accounts \in [Accounts -> [Assets -> Nat]]
  BY Zenon, ClpAssumption DEF ClpInit
<1> QED BY Zenon, <1>1, <1>3, <1>4 DEF ClpInv

LEMMA ClpStepInv ==
  ASSUME ClpInv, ClpNext
  PROVE  ClpInv'
<1>1. Amounts \subseteq Nat
  BY Zenon, ClpAssumption
<1>2. CASE Create
  BY Zenon, <1>1, <1>2, CreateEffect DEF Create
<1>3. CASE Add
  BY ZenonT(40), <1>1, <1>3, AddEffect DEF Add
<1>4. CASE Swap
  BY Zenon, <1>1, <1>4, SingleSwapEffect, DoubleSwapEffect DEF Swap
<1>5. CASE Remove
  BY Zenon, <1>5, RemoveEffect DEF Remove
<1>6. CASE Decommission
  BY Zenon, <1>6, DecommissionEffect DEF Decommission
<1> QED BY Zenon, <1>2, <1>3, <1>4, <1>5, <1>6 DEF ClpNext

LEMMA ClpInvariant == ClpSpec => []ClpInv
<1>1. ClpInv /\ [ClpNext]_clpVars => ClpInv'
  <2>1. ASSUME ClpInv, UNCHANGED clpVars
        PROVE  ClpInv'
    BY Zenon, <2>1 DEF clpVars, ClpInv
  <2> QED BY Zenon, <2>1, ClpStepInv
<1> QED BY <1>1, ClpInitInv, PTL DEF ClpSpec

\* No sequence of additions, swaps and withdrawals empties a side of a pool, with any
\* amounts, thresholds and decimals (the checks of SwapOne and RemoveLiquidity).
THEOREM SidesStayPositive == ClpSpec => []SidesPositive
<1>1. ClpInv => SidesPositive
  BY PoolFacts DEF SidesPositive
<1> QED BY <1>1, ClpInvariant, PTL

----------------------------------------------------------------------------
(* The books.                                                               *)

\* What a step on one pool records beyond what came into the module.
LEMMA OnePoolBooks ==
  ASSUME ClpInv, ClpInv', NEW e \in Externals, Changed(e)
  PROVE  /\ Excess(Native) = NativeOf(pools', e) - NativeOf(pools, e) - Gain(Native)
         /\ Excess(e) = ExternalOf(pools', e) - ExternalOf(pools, e) - Gain(e)
         /\ \A s \in Assets \ {Native, e} : Excess(s) = 0 - Gain(s)
<1>1. PICK h : h = pools'
  BY Zenon
<1>2. Partial(pools, Externals, GoodPool) /\ Partial(h, Externals, GoodPool)
  BY Zenon, <1>1 DEF ClpInv
<1>3. /\ DOMAIN pools \cup {e} = DOMAIN h \cup {e}
      /\ \A f \in DOMAIN pools \ {e} : pools[f] = h[f]
  BY Zenon, <1>1 DEF Changed
<1>4. SumFollows(pools, h, e)
  BY <1>2, <1>3, NativeSumChange, Zenon
<1>5. Recorded(Native) = NativeSum(pools) /\ Recorded(Native)' = NativeSum(h)
  BY Zenon, <1>1 DEF Recorded, NativeSum, NativeSides
<1>6. Native \in Assets /\ \A s \in Assets : module[s] \in Nat /\ module'[s] \in Nat
  BY Zenon DEF ClpInv, Assets
<1>7. Excess(Native) = NativeOf(h, e) - NativeOf(pools, e) - Gain(Native)
  BY <1>4, <1>5, <1>6 DEF SumFollows, Excess, Gain
<1>8. e # Native /\ Recorded(e) = ExternalOf(pools, e) /\ Recorded(e)' = ExternalOf(h, e)
  BY Zenon, <1>1, ClpAssumption DEF Recorded, ExternalOf
<1>9. Excess(e) = ExternalOf(h, e) - ExternalOf(pools, e) - Gain(e)
  BY Zenon, <1>8 DEF Excess, Gain
<1>10. ASSUME NEW s \in Assets \ {Native, e}
       PROVE  Excess(s) = 0 - Gain(s)
  <2>1. Recorded(s)' = Recorded(s)
    BY <1>1, <1>3 DEF Recorded
  <2>2. Recorded(s) \in Nat
    BY Zenon, <1>2 DEF Recorded, Partial, GoodPool, Pool
  <2> QED BY <1>6, <2>1, <2>2 DEF Excess, Gain
<1> QED BY Zenon, <1>1, <1>7, <1>9, <1>10

\* What BooksKept asks of a step for asset s.
Booked(s) ==
  \/ Excess(s) = 0
  \/ \E e \in DOMAIN pools : e \notin DOMAIN pools'
  \/ SwapForNothing(s)

\* A step on one pool is booked when both sides change by what the module gains.
LEMMA BalancedBooks ==
  ASSUME ClpInv, ClpInv', NEW e \in Externals, Changed(e),
         NativeOf(pools', e) - NativeOf(pools, e) = Gain(Native),
         ExternalOf(pools', e) - ExternalOf(pools, e) = Gain(e),
         \A s \in Assets \ {Native, e} : Gain(s) = 0
  PROVE  \A s \in Assets : Booked(s)
<1>1. Native \in Assets /\ e \in Assets
  BY Zenon DEF Assets
<1>2. \A s \in Assets : module[s] \in Nat /\ module'[s] \in Nat
  BY Zenon DEF ClpInv
<1>3. Gain(Native) \in Int /\ Gain(e) \in Int
  BY <1>1, <1>2 DEF Gain
<1>4. Excess(Native) = 0 /\ Excess(e) = 0 /\ \A s \in Assets \ {Native, e} : Excess(s) = 0
  BY <1>3, OnePoolBooks
<1> QED BY Zenon, <1>4 DEF Booked

LEMMA CreateBooks ==
  ASSUME ClpInv, NEW a \in Accounts, NEW e \in Externals, NEW r \in Nat, NEW x \in Nat,
         CreatePool(a, e, r, x)
  PROVE  \A s \in Assets : Booked(s)
<1>1. /\ ClpInv' /\ Changed(e) /\ e \notin DOMAIN pools
      /\ pools'[e].native = r /\ pools'[e].external = x
      /\ module'[Native] = module[Native] + r /\ module'[e] = module[e] + x
      /\ \A s \in Assets \ {Native, e} : module'[s] = module[s]
  BY CreateEffect
<1>2. /\ NativeOf(pools, e) = 0 /\ ExternalOf(pools, e) = 0
      /\ NativeOf(pools', e) = r /\ ExternalOf(pools', e) = x
  BY Zenon, <1>1 DEF NativeOf, ExternalOf, Changed
<1>3. Native \in Assets /\ e \in Assets /\ \A s \in Assets : module[s] \in Nat
  BY Zenon DEF ClpInv, Assets
<1>4. Gain(Native) = r /\ Gain(e) = x /\ \A s \in Assets \ {Native, e} : Gain(s) = 0
  BY <1>1, <1>3 DEF Gain
<1> QED BY <1>1, <1>2, <1>4, BalancedBooks

LEMMA AddBooks ==
  ASSUME ClpInv, NEW a \in Accounts, NEW e \in Externals, NEW r \in Nat, NEW x \in Nat,
         AddLiquidity(a, e, r, x)
  PROVE  \A s \in Assets : Booked(s)
<1>1. /\ ClpInv' /\ Changed(e) /\ e \in DOMAIN pools
      /\ pools'[e].native = pools[e].native + r /\ pools'[e].external = pools[e].external + x
      /\ module'[Native] = module[Native] + r /\ module'[e] = module[e] + x
      /\ \A s \in Assets \ {Native, e} : module'[s] = module[s]
  BY AddEffect
<1>2. pools[e].native \in Nat /\ pools[e].external \in Nat
  BY Zenon, <1>1, PoolFacts
<1>3. /\ NativeOf(pools, e) = pools[e].native /\ ExternalOf(pools, e) = pools[e].external
      /\ NativeOf(pools', e) = pools'[e].native /\ ExternalOf(pools', e) = pools'[e].external
  BY ZenonT(40), <1>1 DEF NativeOf, ExternalOf, Changed
<1>4. Native \in Assets /\ e \in Assets /\ \A s \in Assets : module[s] \in Nat
  BY Zenon DEF ClpInv, Assets
<1>5. Gain(Native) = r /\ Gain(e) = x /\ \A s \in Assets \ {Native, e} : Gain(s) = 0
  BY <1>1, <1>4 DEF Gain
<1> QED BY <1>1, <1>2, <1>3, <1>5, BalancedBooks

LEMMA SingleSwapBooks ==
  ASSUME ClpInv, NEW a \in Accounts, NEW toRowan \in BOOLEAN, NEW e \in Externals,
         NEW amount \in Nat, NEW min, SingleSwap(a, toRowan, e, amount, min)
  PROVE  \A s \in Assets : Booked(s)
<1>1. /\ ClpInv' /\ Changed(e) /\ e \in DOMAIN pools
      /\ Gain(Native) = pools'[e].native - pools[e].native
      /\ Gain(e) = pools'[e].external - pools[e].external
      /\ \A s \in Assets \ {Native, e} : Gain(s) = 0
  BY SingleSwapEffect
<1>2. /\ NativeOf(pools, e) = pools[e].native /\ ExternalOf(pools, e) = pools[e].external
      /\ NativeOf(pools', e) = pools'[e].native /\ ExternalOf(pools', e) = pools'[e].external
  BY Zenon, <1>1 DEF NativeOf, ExternalOf, Changed
<1> QED BY ZenonT(40), <1>1, <1>2, BalancedBooks

LEMMA DoubleSwapBooks ==
  ASSUME ClpInv, NEW a \in Accounts, NEW from \in Externals, NEW to \in Externals,
         NEW amount \in Nat, NEW min, DoubleSwap(a, from, to, amount, min)
  PROVE  \A s \in Assets : Booked(s)
<1>1. /\ ClpInv'
      /\ NativeSum(pools') - NativeSum(pools) = Gain(Native)
      /\ \A s \in Externals : ExternalOf(pools', s) - ExternalOf(pools, s) = Gain(s)
  BY Zenon, DoubleSwapEffect
<1>2. \A s \in Assets : module[s] \in Nat /\ module'[s] \in Nat
  BY Zenon, <1>1 DEF ClpInv
<1>3. \A s \in Assets : Gain(s) \in Int /\ Gain(s) = module'[s] - module[s]
  BY <1>2 DEF Gain
<1>4. ASSUME NEW s \in Assets PROVE Excess(s) = 0
  <2>1. CASE s = Native
    <3>1. Recorded(s) = NativeSum(pools) /\ Recorded(s)' = NativeSum(pools')
      BY Zenon, <2>1 DEF Recorded, NativeSum, NativeSides
    <3> QED BY <1>1, <1>3, <2>1, <3>1 DEF Excess
  <2>2. CASE s \in Externals
    <3>1. Recorded(s) = ExternalOf(pools, s) /\ Recorded(s)' = ExternalOf(pools', s)
      BY Zenon, <2>2, ClpAssumption DEF Recorded, ExternalOf
    <3> QED BY <1>1, <1>3, <2>2, <3>1 DEF Excess
  <2> QED BY Zenon, <2>1, <2>2 DEF Assets
<1> QED BY Zenon, <1>4 DEF Booked

LEMMA RemoveBooks ==
  ASSUME ClpInv, NEW a \in Accounts, NEW e \in Externals, NEW wBasisPoints \in BasisPoints,
         NEW asymmetry \in Asymmetries, RemoveLiquidity(a, e, wBasisPoints, asymmetry)
  PROVE  \A s \in Assets : Booked(s)
<1>1. ClpInv' /\ Removed(e)
  BY Zenon, RemoveEffect
<1>2. Changed(e) /\ e \in DOMAIN pools /\ \A s \in Assets \ {Native, e} : Gain(s) = 0
  BY ZenonT(40), <1>1 DEF Removed
<1>3. PICK dn \in Int, dx \in Int :
        /\ dn = pools'[e].native - pools[e].native - Gain(Native)
        /\ dx = pools'[e].external - pools[e].external - Gain(e)
        /\ Unbooked(e, pools'[e], dn, dx)
  BY ZenonT(40), <1>1 DEF Removed
<1>4. /\ NativeOf(pools, e) = pools[e].native /\ ExternalOf(pools, e) = pools[e].external
      /\ NativeOf(pools', e) = pools'[e].native /\ ExternalOf(pools', e) = pools'[e].external
  BY ZenonT(40), <1>2 DEF NativeOf, ExternalOf, Changed
<1>5. /\ Excess(Native) = dn /\ Excess(e) = dx
      /\ \A s \in Assets \ {Native, e} : Excess(s) = 0
  BY <1>1, <1>2, <1>3, <1>4, OnePoolBooks
<1>6. CASE dn = 0 /\ dx = 0
  BY Zenon, <1>5, <1>6 DEF Booked
<1>7. CASE /\ dn > 0 /\ dx = 0
           /\ CalcSwapResult(FALSE, e, pools'[e].native - dn, dn, pools'[e].external) = 0
  <2>1. SwapForNothing(Native)
    BY ZenonT(40), <1>2, <1>5, <1>7 DEF SwapForNothing
  <2> QED BY Zenon, <1>5, <1>7, <2>1 DEF Booked
<1>8. CASE /\ dn = 0 /\ dx > 0
           /\ CalcSwapResult(TRUE, e, pools'[e].external - dx, dx, pools'[e].native) = 0
  <2>1. e # Native
    BY Zenon, ClpAssumption
  <2>2. SwapForNothing(e)
    BY Zenon, <1>2, <1>5, <1>8, <2>1 DEF SwapForNothing
  <2> QED BY Zenon, <1>5, <1>8, <2>2 DEF Booked
<1> QED BY Zenon, <1>3, <1>6, <1>7, <1>8 DEF Unbooked

\* Every message books what it moves, for any amounts and decimals, but for the remainder
\* of a decommissioning and for a withdrawal whose swap yields nothing (RemoveLiquidity
\* computes the payment from the result of the swap).
THEOREM BooksAreKept == ClpSpec => BooksKept
<1>1. ASSUME ClpInv, ClpNext PROVE \A s \in Assets : Booked(s)
  <2>1. Amounts \subseteq Nat
    BY Zenon, ClpAssumption
  <2>2. CASE Create
    BY Zenon, <1>1, <2>1, <2>2, CreateBooks DEF Create
  <2>3. CASE Add
    BY Zenon, <1>1, <2>1, <2>3, AddBooks DEF Add
  <2>4. CASE Swap
    BY Zenon, <1>1, <2>1, <2>4, SingleSwapBooks, DoubleSwapBooks DEF Swap
  <2>5. CASE Remove
    BY Zenon, <1>1, <2>5, RemoveBooks DEF Remove
  <2>6. CASE Decommission
    <3>1. PICK a \in Accounts, e \in Externals : DecommissionPool(a, e)
      BY Zenon, <2>6 DEF Decommission
    <3>2. e \in DOMAIN pools /\ DOMAIN pools' = DOMAIN pools \ {e}
      BY Zenon, <1>1, <3>1, DecommissionEffect
    <3> QED BY Zenon, <3>2 DEF Booked
  <2> QED BY Zenon, <1>1, <2>2, <2>3, <2>4, <2>5, <2>6 DEF ClpNext
<1>2. ClpInv /\ [ClpNext]_clpVars
        => [\A s \in Assets :
              \/ Excess(s) = 0
              \/ \E e \in DOMAIN pools : e \notin DOMAIN pools'
              \/ SwapForNothing(s)]_clpVars
  BY Zenon, <1>1 DEF Booked
<1> QED BY <1>2, ClpInvariant, PTL DEF ClpSpec, BooksKept

----------------------------------------------------------------------------
(* The units.                                                               *)

\* What UnitsKept asks of a step for the pool of e.
UnitsFollow(e) ==
  \/ Drift(e)' = Drift(e)
  \/ /\ pools'[e].units >= pools[e].units
     /\ pools'[e].native + pools'[e].external > pools[e].native + pools[e].external
     /\ Drift(e)' - Drift(e) \in {-1, 1}

LEMMA DriftIs ==
  ASSUME NEW e
  PROVE  Drift(e) = pools[e].units - Held(e) /\ Drift(e)' = pools'[e].units - Held(e)'
BY Zenon DEF Drift, Held

\* The drift of a pool changes only where its units or its providers do.
LEMMA SameDrift ==
  ASSUME NEW e, pools'[e].units = pools[e].units, lps'[e] = lps[e]
  PROVE  UnitsFollow(e)
BY Zenon DEF UnitsFollow, Drift

LEMMA AddUnits ==
  ASSUME ClpInv, NEW a \in Accounts, NEW e \in Externals, NEW r \in Nat, NEW x \in Nat,
         AddLiquidity(a, e, r, x)
  PROVE  UnitsFollow(e)
<1>1. /\ e \in DOMAIN pools /\ r + x > 0
      /\ pools'[e].native = pools[e].native + r /\ pools'[e].external = pools[e].external + x
  BY AddEffect
<1>2. PICK N \in Nat \ {0}, X \in Nat \ {0}, P \in Nat :
        pools[e].native = N /\ pools[e].external = X /\ pools[e].units = P
  BY Zenon, <1>1, PoolFacts
<1>3. PICK u \in CalculatePoolUnits(e, P, N, X, r, x) :
        pools'[e].units = u.pool /\ Held(e)' = Held(e) + u.provider
  <2>1. \E u \in CalculatePoolUnits(e, pools[e].units, pools[e].native, pools[e].external, r, x) :
          pools'[e].units = u.pool /\ Held(e)' = Held(e) + u.provider
    BY AddEffect
  <2> QED BY ZenonT(40), <1>2, <2>1
<1>4. u.pool \in Nat /\ u.provider \in Nat /\ P <= u.pool /\ u.pool - P - u.provider \in {-1, 0, 1}
  BY Zenon, UnitsRounded
<1>5. PICK k \in Nat : k = Held(e)
  BY Zenon, HeldType
<1>6. Drift(e) = P - k /\ Drift(e)' = u.pool - (k + u.provider)
  BY Zenon, <1>2, <1>3, <1>5, DriftIs
<1>7. Drift(e)' = Drift(e) \/ Drift(e)' - Drift(e) \in {-1, 1}
  BY <1>4, <1>6
<1>8. pools'[e].native + pools'[e].external > pools[e].native + pools[e].external
  BY <1>1, <1>2
<1> QED BY Zenon, <1>2, <1>3, <1>4, <1>7, <1>8 DEF UnitsFollow

\* The units of a pool and those that its providers hold move apart only in an addition, by
\* one unit at most (CalculatePoolUnits rounds the two sums separately).
THEOREM UnitsAreKept == ClpSpec => UnitsKept
<1>1. ASSUME ClpInv, ClpNext, NEW e \in DOMAIN pools \cap DOMAIN pools'
      PROVE  UnitsFollow(e)
  <2>1. Amounts \subseteq Nat /\ e \in Externals
    BY Zenon, <1>1, ClpAssumption, PoolFacts
  <2>2. CASE Create
    <3>1. PICK a \in Accounts, f \in Externals, r \in Amounts, x \in Amounts : CreatePool(a, f, r, x)
      BY Zenon, <2>2 DEF Create
    <3>2. Changed(f) /\ f \notin DOMAIN pools
      BY ZenonT(40), <1>1, <2>1, <3>1, CreateEffect
    <3> QED BY Zenon, <1>1, <2>1, <3>2, SameDrift DEF Changed
  <2>3. CASE Add
    <3>1. PICK a \in Accounts, f \in Externals, r \in Amounts \cup {0}, x \in Amounts \cup {0} :
            AddLiquidity(a, f, r, x)
      BY Zenon, <2>3 DEF Add
    <3>2. Changed(f) /\ UnitsFollow(f)
      BY Zenon, <1>1, <2>1, <3>1, AddEffect, AddUnits
    <3>3. CASE e = f
      BY Zenon, <3>2, <3>3
    <3>4. CASE e # f
      BY ZenonT(40), <1>1, <2>1, <3>2, <3>4, SameDrift DEF Changed
    <3> QED BY Zenon, <3>3, <3>4
  <2>4. CASE Swap
    <3>1. PICK a \in Accounts, amount \in Amounts, min \in MinReceived :
            \/ \E f \in Externals, toRowan \in BOOLEAN : SingleSwap(a, toRowan, f, amount, min)
            \/ \E from, to \in Externals : DoubleSwap(a, from, to, amount, min)
      BY Zenon, <2>4 DEF Swap
    <3>2. CASE \E f \in Externals, toRowan \in BOOLEAN : SingleSwap(a, toRowan, f, amount, min)
      <4>1. PICK f \in Externals : /\ Changed(f) /\ lps' = lps
                                   /\ pools'[f].units = pools[f].units
        BY Zenon, <1>1, <2>1, <3>2, SingleSwapEffect
      <4>2. pools'[e].units = pools[e].units
        BY Zenon, <1>1, <4>1 DEF Changed
      <4> QED BY ZenonT(40), <4>1, <4>2, SameDrift
    <3>3. CASE \E from, to \in Externals : DoubleSwap(a, from, to, amount, min)
      <4>1. lps' = lps /\ pools'[e].units = pools[e].units
        BY Zenon, <1>1, <2>1, <3>3, DoubleSwapEffect
      <4> QED BY Zenon, <4>1, SameDrift
    <3> QED BY ZenonT(40), <3>1, <3>2, <3>3
  <2>5. CASE Remove
    <3>1. PICK f \in Externals : Removed(f)
      BY Zenon, <1>1, <2>5, RemoveEffect DEF Remove
    <3>2. CASE e = f
      BY ZenonT(40), <3>1, <3>2, DriftIs DEF Removed, UnitsFollow
    <3>3. CASE e # f
      BY ZenonT(40), <1>1, <2>1, <3>1, <3>3, SameDrift DEF Removed, Changed
    <3> QED BY Zenon, <3>2, <3>3
  <2>6. CASE Decommission
    <3>1. pools'[e] = pools[e] /\ lps'[e] = lps[e]
      BY Zenon, <1>1, <2>6, DecommissionEffect DEF Decommission
    <3> QED BY Zenon, <3>1, SameDrift
  <2> QED BY Zenon, <1>1, <2>2, <2>3, <2>4, <2>5, <2>6 DEF ClpNext
<1>2. ClpInv /\ [ClpNext]_clpVars
        => [\A e \in DOMAIN pools \cap DOMAIN pools' :
              \/ Drift(e)' = Drift(e)
              \/ /\ pools'[e].units >= pools[e].units
                 /\ pools'[e].native + pools'[e].external > pools[e].native + pools[e].external
                 /\ Drift(e)' - Drift(e) \in {-1, 1}]_clpVars
  BY Zenon, <1>1 DEF UnitsFollow
<1> QED BY <1>2, ClpInvariant, PTL DEF ClpSpec, UnitsKept

----------------------------------------------------------------------------
(* The shares.                                                              *)

LEMMA Square ==
  ASSUME NEW m \in Nat, NEW n \in Nat, m <= n
  PROVE  m * m <= n * n
<1>1. m * m <= n * m
  BY Times
<1>2. m * n <= n * n
  BY Times
<1>3. m * n = n * m
  OBVIOUS
<1>4. PICK i \in Int, j \in Int, k \in Int : i = m * m /\ j = n * m /\ k = n * n
  OBVIOUS
<1> QED BY <1>1, <1>2, <1>3, <1>4

\* The slip: with M the amounts added crosswise, E their difference, T the product of the
\* balances and s that of the amounts, units never outgrow the pool while s is at most 3 T.
LEMMA SlipInequality ==
  ASSUME NEW M \in Nat, NEW E \in Nat, NEW T \in Nat \ {0}, NEW s \in Nat,
         E <= M, s <= 3 * T, M * M - E * E = 4 * (s * T),
         NEW S \in Nat, S = 2 * T + M, NEW B \in Nat, B = s + M + T
  PROVE  /\ S * B - M * E \in Nat
         /\ (S * B - M * E) * (S * B - M * E) <= 4 * T * (B * B * B)
<1>1. M <= B /\ M <= S /\ E <= B
  OBVIOUS
<1>2. 4 * (T * B) = S * S - E * E
  <2>1. S * S = 4 * (T * T) + 4 * (T * M) + M * M
    OBVIOUS
  <2>2. T * B = s * T + T * M + T * T
    OBVIOUS
  <2>3. PICK i \in Int, j \in Int, k \in Int, l \in Int, n \in Int :
          i = T * T /\ j = T * M /\ k = M * M /\ l = E * E /\ n = s * T
    OBVIOUS
  <2> QED BY <2>1, <2>2, <2>3
<1>3. E * (M + B) <= 2 * (S * M)
  <2>1. M + B <= 2 * S
    OBVIOUS
  <2>2. (M + B) * E <= (2 * S) * E
    BY <2>1, Times
  <2>3. E * (2 * S) <= M * (2 * S)
    BY Times
  <2>4. PICK i \in Int, j \in Int : i = S * E /\ j = S * M
    OBVIOUS
  <2>5. (2 * S) * E = 2 * i /\ E * (2 * S) = 2 * i /\ M * (2 * S) = 2 * j
    BY <2>4
  <2>6. (M + B) * E = E * (M + B)
    OBVIOUS
  <2>7. PICK k \in Int : k = E * (M + B)
    OBVIOUS
  <2>8. k <= 2 * i
    BY Zenon, <2>2, <2>5, <2>6, <2>7
  <2>9. 2 * i <= 2 * j
    BY Zenon, <2>3, <2>5
  <2>10. k <= 2 * j
    BY <2>8, <2>9
  <2> QED BY Zenon, <2>4, <2>7, <2>10
<1>4. PICK V \in Nat : V = S * B
  BY Zenon, Product
<1>5. PICK Y \in Nat : Y = M * E
  BY Zenon, Product
<1>6. PICK C \in Nat : C = E * B
  BY Zenon, Product
<1>7. Y <= V
  <2>1. M * E <= S * E
    BY <1>1, Times
  <2>2. E * S <= B * S
    BY <1>1, Times
  <2>3. S * E = E * S /\ S * B = B * S
    OBVIOUS
  <2>4. PICK i \in Int : i = S * E
    OBVIOUS
  <2>5. PICK j \in Int : j = B * S
    OBVIOUS
  <2> QED BY SMTT(15), <1>4, <1>5, <2>1, <2>2, <2>3, <2>4, <2>5
<1>8. Y * Y + C * C <= 2 * (V * Y)
  <2>1. Y <= C
    <3>1. M * E <= B * E
      BY <1>1, Times
    <3>2. B * E = E * B
      OBVIOUS
    <3> QED BY Zenon, <1>5, <1>6, <3>1, <3>2
  <2>2. Y * Y <= C * Y
    BY <2>1, Times
  <2>3. C * Y + C * C = (E * (M + B)) * C
    <3>1. E * (M + B) = Y + C
      BY <1>5, <1>6
    <3>2. (Y + C) * C = C * Y + C * C
      OBVIOUS
    <3> QED BY Zenon, <3>1, <3>2
  <2>4. (E * (M + B)) * C <= (2 * (S * M)) * C
    BY <1>3, Times
  <2>5. (2 * (S * M)) * C = 2 * (V * Y)
    BY <1>4, <1>5, <1>6
  <2>6. PICK i \in Int, j \in Int, k \in Int, l \in Int, n \in Int :
          i = Y * Y /\ j = C * Y /\ k = C * C /\ l = (E * (M + B)) * C /\ n = V * Y
    OBVIOUS
  <2>7. i <= j
    BY Zenon, <2>2, <2>6
  <2>8. j + k = l
    BY Zenon, <2>3, <2>6
  <2>9. l <= 2 * n
    BY Zenon, <2>4, <2>5, <2>6
  <2>10. i + k <= 2 * n
    BY <2>7, <2>8, <2>9
  <2> QED BY Zenon, <2>6, <2>10
<1>9. 4 * T * (B * B * B) = V * V - C * C
  <2>1. 4 * T * (B * B * B) = (4 * (T * B)) * (B * B)
    OBVIOUS
  <2>2. (S * S - E * E) * (B * B) = V * V - C * C
    BY <1>4, <1>6
  <2> QED BY Zenon, <1>2, <2>1, <2>2
<1>10. (V - Y) * (V - Y) <= V * V - C * C
  <2>1. (V - Y) * (V - Y) = V * V - 2 * (V * Y) + Y * Y
    OBVIOUS
  <2>2. PICK i \in Int, j \in Int, k \in Int, l \in Int :
          i = V * V /\ j = V * Y /\ k = Y * Y /\ l = C * C
    OBVIOUS
  <2> QED BY <1>8, <2>1, <2>2
<1> QED BY <1>4, <1>5, <1>7, <1>9, <1>10

\* An addition gives no more units than the square root of the product of the balances
\* grows by, up to half a unit.
LEMMA UnitsKeepShares ==
  ASSUME NEW e \in Externals, NEW P \in Nat,
         NEW R \in Nat \ {0}, NEW A \in Nat \ {0}, NEW r \in Nat, NEW a \in Nat,
         NEW u \in CalculatePoolUnits(e, P, R, A, r, a), r * a <= 3 * R * A, P < u.pool
  PROVE  4 * (R + r) * (A + a) * P * P >= R * A * (2 * u.pool - 1) * (2 * u.pool - 1)
<1>1. PICK m \in Nat, n \in Nat : m = R * a /\ n = r * A
  BY Zenon, Product
<1>2. PICK M \in Nat : M = m + n
  OBVIOUS
<1>3. PICK E \in Nat : E = Distance(m, n) /\ E <= M
  <2>1. Distance(m, n) \in Nat /\ Distance(m, n) <= m + n
    BY DEF Distance
  <2> QED BY Zenon, <1>2, <2>1
<1>4. PICK T \in Nat \ {0} : T = R * A
  BY Zenon, PositiveProduct
<1>5. PICK s \in Nat : s = r * a
  BY Zenon, Product
<1>6. PICK S \in Nat : S = 2 * T + M
  OBVIOUS
<1>7. PICK B \in Nat \ {0} : B = s + M + T
  OBVIOUS
<1>8. (r + R) * (a + A) = B /\ (R + r) * (A + a) = B
  BY <1>1, <1>2, <1>4, <1>5, <1>7
<1>9. s <= 3 * T
  BY <1>4, <1>5
<1>10. M * M - E * E = 4 * (s * T)
  <2>1. E * E = (m - n) * (m - n)
    BY <1>3 DEF Distance
  <2>2. (m + n) * (m + n) - (m - n) * (m - n) = 4 * (m * n)
    OBVIOUS
  <2>3. m * n = s * T
    BY <1>1, <1>4, <1>5
  <2> QED BY Zenon, <1>2, <2>1, <2>2, <2>3
<1>11. PICK Z \in Nat : Z = S * B - M * E /\ Z * Z <= 4 * T * (B * B * B)
  BY Zenon, <1>3, <1>6, <1>7, <1>9, <1>10, SlipInequality
<1>12. PICK U \in Nat \ {0} : U = u.pool
  BY UnitsRounded
<1>13. PICK W \in Nat : W = 2 * U - 1
  OBVIOUS
<1>14. W * (T * B) <= P * Z
  <2> DEFINE both == (r + R) * (a + A)
             up   == P * (a * R + A * r) * (both - Distance(R * a, r * A))
             down == 2 * A * R * both
  <2>1. 2 * (u.pool * down) <= 2 * (P * down + up) + down
    BY Zenon, UnitsRounded
  <2>2. PICK D \in Nat : D = T * B
    BY Zenon, Product
  <2>3. down = 2 * D
    BY <1>4, <1>8, <2>2
  <2>4. up = P * (M * (B - E))
    <3>1. a * R + A * r = M
      BY <1>1, <1>2
    <3>2. both - Distance(R * a, r * A) = B - E
      BY Zenon, <1>1, <1>3, <1>8
    <3>3. up = P * M * (B - E)
      BY ZenonT(40), <3>1, <3>2
    <3> QED BY <3>3
  <2>5. P * (2 * D) + P * (M * (B - E)) = P * Z
    <3>1. 2 * D + M * (B - E) = Z
      <4>1. S * B = 2 * (T * B) + M * B
        BY <1>6
      <4>2. M * (B - E) = M * B - M * E
        OBVIOUS
      <4>3. PICK i \in Int, j \in Int : i = M * B /\ j = M * E
        OBVIOUS
      <4> QED BY <1>11, <2>2, <4>1, <4>2, <4>3
    <3>2. PICK k \in Int : k = M * (B - E)
      OBVIOUS
    <3>3. P * (2 * D) + P * k = P * (2 * D + k)
      OBVIOUS
    <3> QED BY Zenon, <3>1, <3>2, <3>3
  <2> HIDE DEF both, up, down
  <2>6. P * down + up = P * Z
    BY Zenon, <2>3, <2>4, <2>5
  <2>7. 2 * (U * (2 * D)) <= 2 * (P * Z) + 2 * D
    BY Zenon, <1>12, <2>1, <2>3, <2>6
  <2>8. U * (2 * D) = 2 * (U * D) /\ W * D = 2 * (U * D) - D
    BY <1>13
  <2>9. PICK i \in Int, j \in Int, k \in Int : i = U * D /\ j = P * Z /\ k = W * D
    OBVIOUS
  <2>10. k <= j
    BY <2>7, <2>8, <2>9
  <2> QED BY Zenon, <2>2, <2>9, <2>10
<1>15. (W * (T * B)) * (W * (T * B)) <= (P * Z) * (P * Z)
  <2>1. PICK i \in Nat : i = T * B
    BY Zenon, Product
  <2>2. PICK j \in Nat, k \in Nat : j = W * i /\ k = P * Z
    BY Zenon, Product
  <2> QED BY Zenon, <1>14, <2>1, <2>2, Square
<1>16. (P * Z) * (P * Z) <= (4 * T * (B * B * B)) * (P * P)
  <2>1. (P * Z) * (P * Z) = (Z * Z) * (P * P)
    OBVIOUS
  <2>2. PICK i \in Nat, j \in Nat, k \in Nat : i = Z * Z /\ j = P * P /\ k = 4 * T * (B * B * B)
    BY Zenon, Product
  <2>3. i <= k
    BY Zenon, <1>11, <2>2
  <2>4. i * j <= k * j
    BY <2>3, Times
  <2> QED BY Zenon, <2>1, <2>2, <2>4
<1>17. T * (W * W) <= 4 * (B * (P * P))
  <2>1. PICK k \in Nat \ {0} : k = T * (B * B)
    BY Zenon, PositiveProduct
  <2>2. (W * (T * B)) * (W * (T * B)) = (T * (W * W)) * (T * (B * B))
    OBVIOUS
  <2>3. (4 * T * (B * B * B)) * (P * P) = (4 * (B * (P * P))) * (T * (B * B))
    OBVIOUS
  <2>4. PICK i \in Int, j \in Int : i = T * (W * W) /\ j = 4 * (B * (P * P))
    OBVIOUS
  <2>5. i * k <= j * k
    <3>1. PICK l \in Int, g \in Int, h \in Int :
            l = (W * (T * B)) * (W * (T * B)) /\ g = (P * Z) * (P * Z)
              /\ h = (4 * T * (B * B * B)) * (P * P)
      OBVIOUS
    <3>2. l = i * k /\ h = j * k
      BY Zenon, <2>1, <2>2, <2>3, <2>4, <3>1
    <3>3. l <= g /\ g <= h
      BY Zenon, <1>15, <1>16, <3>1
    <3> QED BY <3>2, <3>3
  <2>6. i <= j
    BY Zenon, <2>5, Cancel
  <2> QED BY Zenon, <2>4, <2>6
<1>18. R * A * W * W = T * (W * W)
  BY <1>4
<1>19. 4 * (R + r) * (A + a) * P * P = 4 * (B * (P * P))
  <2>1. 4 * (R + r) * (A + a) * P * P = 4 * (((R + r) * (A + a)) * (P * P))
    OBVIOUS
  <2> QED BY Zenon, <1>8, <2>1
<1> QED BY Zenon, <1>12, <1>13, <1>17, <1>18, <1>19

\* What AddKeepsShares asks of a step for the pool of e.
SharesKept(e) ==
  LET p == pools[e]
      q == pools'[e]
  IN  (/\ p.native <= q.native /\ p.external <= q.external /\ q.units > p.units
       /\ (q.native - p.native) * (q.external - p.external) <= 3 * p.native * p.external)
        => 4 * q.native * q.external * p.units * p.units
             >= p.native * p.external * (2 * q.units - 1) * (2 * q.units - 1)

LEMMA AddShares ==
  ASSUME ClpInv, NEW a \in Accounts, NEW e \in Externals, NEW r \in Nat, NEW x \in Nat,
         AddLiquidity(a, e, r, x)
  PROVE  SharesKept(e)
<1>1. /\ e \in DOMAIN pools
      /\ pools'[e].native = pools[e].native + r /\ pools'[e].external = pools[e].external + x
  BY AddEffect
<1>2. PICK N \in Nat \ {0}, X \in Nat \ {0}, P \in Nat :
        pools[e].native = N /\ pools[e].external = X /\ pools[e].units = P
  BY Zenon, <1>1, PoolFacts
<1>3. PICK u \in CalculatePoolUnits(e, P, N, X, r, x) : pools'[e].units = u.pool
  <2>1. \E u \in CalculatePoolUnits(e, pools[e].units, pools[e].native, pools[e].external, r, x) :
          pools'[e].units = u.pool
    BY AddEffect
  <2> QED BY Zenon, <1>2, <2>1
<1>4. (N + r) - N = r /\ (X + x) - X = x
  OBVIOUS
<1>5. P < u.pool /\ r * x <= 3 * N * X
        => 4 * (N + r) * (X + x) * P * P >= N * X * (2 * u.pool - 1) * (2 * u.pool - 1)
  BY Zenon, UnitsKeepShares
<1>6. u.pool \in Nat
  BY Zenon, UnitsRounded
<1>7. u.pool > P => P < u.pool
  BY Zenon, <1>6
<1> QED BY ZenonT(40), <1>1, <1>2, <1>3, <1>4, <1>5, <1>7 DEF SharesKept

LEMMA NoMoreUnits ==
  ASSUME ClpInv, ClpInv', NEW e \in DOMAIN pools \cap DOMAIN pools',
         pools'[e].units <= pools[e].units
  PROVE  SharesKept(e)
<1>1. PICK P \in Nat : P = pools[e].units
  BY Zenon, PoolFacts
<1>2. ~(pools'[e].units > P)
  <2>1. pools'[e].units \in Nat
    BY Zenon DEF ClpInv, Partial, GoodPool, Pool
  <2> QED BY <1>1, <2>1
<1> QED BY Zenon, <1>1, <1>2 DEF SharesKept

\* Additions do not dilute the other providers, for any balances, units and amounts within
\* the bound of AddKeepsShares (the slip adjustment of CalculatePoolUnits); no other message
\* creates units.
THEOREM SharesAreKept == ClpSpec => AddKeepsShares
<1>1. ASSUME ClpInv, ClpNext, NEW e \in DOMAIN pools \cap DOMAIN pools'
      PROVE  SharesKept(e)
  <2>1. Amounts \subseteq Nat /\ e \in Externals /\ pools[e].units \in Nat
    BY Zenon, <1>1, ClpAssumption, PoolFacts
  <2>2. ASSUME pools'[e].units = pools[e].units PROVE SharesKept(e)
    BY <1>1, <2>1, <2>2, ClpStepInv, NoMoreUnits
  <2>3. CASE Create
    <3>1. PICK a \in Accounts, f \in Externals, r \in Amounts, x \in Amounts : CreatePool(a, f, r, x)
      BY Zenon, <2>3 DEF Create
    <3>2. Changed(f) /\ f \notin DOMAIN pools
      BY Zenon, <1>1, <2>1, <3>1, CreateEffect
    <3> QED BY Zenon, <1>1, <2>2, <3>2 DEF Changed
  <2>4. CASE Add
    <3>1. PICK a \in Accounts, f \in Externals, r \in Amounts \cup {0}, x \in Amounts \cup {0} :
            AddLiquidity(a, f, r, x)
      BY Zenon, <2>4 DEF Add
    <3>2. Changed(f) /\ SharesKept(f)
      BY <1>1, <2>1, <3>1, AddEffect, AddShares
    <3>3. CASE e = f
      BY Zenon, <3>2, <3>3
    <3>4. CASE e # f
      BY Zenon, <1>1, <2>2, <3>2, <3>4 DEF Changed
    <3> QED BY Zenon, <3>3, <3>4
  <2>5. CASE Swap
    <3>1. PICK a \in Accounts, amount \in Amounts, min \in MinReceived :
            \/ \E f \in Externals, toRowan \in BOOLEAN : SingleSwap(a, toRowan, f, amount, min)
            \/ \E from, to \in Externals : DoubleSwap(a, from, to, amount, min)
      BY Zenon, <2>5 DEF Swap
    <3>2. CASE \E f \in Externals, toRowan \in BOOLEAN : SingleSwap(a, toRowan, f, amount, min)
      <4>1. PICK f \in Externals : Changed(f) /\ pools'[f].units = pools[f].units
        BY Zenon, <1>1, <2>1, <3>2, SingleSwapEffect
      <4>2. pools'[e].units = pools[e].units
        BY Zenon, <1>1, <4>1 DEF Changed
      <4> QED BY ZenonT(40), <2>2, <4>2
    <3>3. CASE \E from, to \in Externals : DoubleSwap(a, from, to, amount, min)
      <4>1. pools'[e].units = pools[e].units
        BY Zenon, <1>1, <2>1, <3>3, DoubleSwapEffect
      <4> QED BY Zenon, <2>2, <4>1
    <3> QED BY Zenon, <3>1, <3>2, <3>3
  <2>6. CASE Remove
    <3>1. PICK f \in Externals : Removed(f)
      BY Zenon, <1>1, <2>6, RemoveEffect DEF Remove
    <3>2. CASE e = f
      BY ZenonT(40), <1>1, <3>1, <3>2, ClpStepInv, NoMoreUnits DEF Removed
    <3>3. CASE e # f
      BY ZenonT(40), <1>1, <2>2, <3>1, <3>3 DEF Removed, Changed
    <3> QED BY Zenon, <3>2, <3>3
  <2>7. CASE Decommission
    <3>1. pools'[e] = pools[e]
      BY Zenon, <1>1, <2>7, DecommissionEffect DEF Decommission
    <3> QED BY Zenon, <2>2, <3>1
  <2> QED BY Zenon, <1>1, <2>3, <2>4, <2>5, <2>6, <2>7 DEF ClpNext
<1>2. ClpInv /\ [ClpNext]_clpVars
        => [\A e \in DOMAIN pools \cap DOMAIN pools' : SharesKept(e)]_clpVars
  BY Zenon, <1>1
<1> QED BY <1>2, ClpInvariant, PTL DEF ClpSpec, AddKeepsShares, SharesKept

----------------------------------------------------------------------------
(* What a swap pays.                                                        *)

LEMMA SplitBound ==
  ASSUME NEW X \in Nat \ {0}, NEW x \in Nat \ {0}, NEW Y \in Nat \ {0},
         NEW pay, Near(pay, x * X * Y, (x + X) * (x + X)),
         NEW fee, Near(fee, x * x * Y, (x + X) * (x + X))
  PROVE  Distance((pay + fee) * (x + X), x * Y) <= x + X
<1>1. PICK s \in Nat \ {0} : s = x + X
  OBVIOUS
<1>2. PICK t \in Nat : t = pay + fee /\ pay \in Nat /\ fee \in Nat
  BY DEF Near
<1>3. PICK i \in Nat, j \in Nat, d \in Nat : i = x * X * Y /\ j = x * x * Y /\ d = s * s
  BY Zenon, Product
<1>4. i + j = (x * Y) * s
  BY <1>1, <1>3
<1>5. /\ 2 * i - d <= 2 * (pay * d) /\ 2 * (pay * d) <= 2 * i + d
      /\ 2 * j - d <= 2 * (fee * d) /\ 2 * (fee * d) <= 2 * j + d
  BY Zenon, <1>1, <1>3 DEF Near
<1>6. t * d = pay * d + fee * d
  BY <1>2
<1>7. PICK v \in Int : v = t * d
  BY <1>2
<1>8. v <= (i + j) + d /\ (i + j) - d <= v
  <2>1. PICK k \in Int, l \in Int : k = pay * d /\ l = fee * d
    BY <1>2
  <2> QED BY <1>5, <1>6, <1>7, <2>1
<1>9. PICK a \in Int, b \in Int : a = t * s /\ b = x * Y
  OBVIOUS
<1>10. v = a * s /\ i + j = b * s /\ d = s * s
  BY <1>3, <1>4, <1>7, <1>9
<1>11. a * s <= (b + s) * s /\ (b - s) * s <= a * s
  <2>1. (b + s) * s = b * s + s * s /\ (b - s) * s = b * s - s * s
    OBVIOUS
  <2> QED BY Zenon, <1>8, <1>10, <2>1
<1>12. a <= b + s /\ b - s <= a
  BY <1>11, Cancel
<1>13. Distance(a, b) <= s
  BY <1>12 DEF Distance
<1> QED BY Zenon, <1>1, <1>2, <1>9, <1>13

\* For assets of at most 18 decimals payment and fee of every swap add up to the value
\* without a fee, within one coin (CalcSwapResult, CalcLiquidityFee).
THEOREM FeeIsSplit == ClpSpec => []FeeAndResultSplit
<1>1. ASSUME ClpInv PROVE FeeAndResultSplit
  <2> SUFFICES ASSUME NEW e \in DOMAIN pools \cap Regular, NEW toRowan \in BOOLEAN,
                      NEW x \in Amounts \ {0},
                      NEW X, X = IF toRowan THEN pools[e].external ELSE pools[e].native,
                      NEW Y, Y = IF toRowan THEN pools[e].native ELSE pools[e].external
               PROVE  Distance((CalcSwapResult(toRowan, e, X, x, Y)
                                  + CalcLiquidityFee(toRowan, e, X, x, Y)) * (x + X), x * Y) <= x + X
    BY DEF FeeAndResultSplit
  <2>1. X \in Nat \ {0} /\ Y \in Nat \ {0} /\ x \in Nat \ {0}
    BY Zenon, <1>1, PoolFacts, ClpAssumption
  <2>2. /\ Near(CalcSwapResult(toRowan, e, X, x, Y), x * X * Y, (x + X) * (x + X))
        /\ Near(CalcLiquidityFee(toRowan, e, X, x, Y), x * x * Y, (x + X) * (x + X))
    BY Zenon, <2>1, RegularFormulas
  <2> QED BY Zenon, <2>1, <2>2, SplitBound
<1> QED BY <1>1, ClpInvariant, PTL

\* Two roundings to the nearest coin: back is what y brings in a pool of Y - y and x + X.
LEMMA RoundTripBound ==
  ASSUME NEW X \in Nat \ {0}, NEW x \in Nat \ {0}, NEW Y \in Nat \ {0},
         NEW y, Near(y, x * X * Y, (x + X) * (x + X)), y <= Y,
         NEW back, Near(back, y * (Y - y) * (x + X), Y * Y)
  PROVE  2 * Y * (x + X) * back <= 2 * x * X * Y + (x + X) * (x + X) + (x + X) * Y
<1>1. PICK s \in Nat \ {0} : s = x + X
  OBVIOUS
<1>2. y \in Nat /\ back \in Nat
  BY Zenon DEF Near
<1>3. PICK i \in Nat, d \in Nat \ {0} : i = x * X * Y /\ d = s * s
  BY Zenon, Product, PositiveProduct
<1>4. 2 * (y * d) <= 2 * i + d
  BY Zenon, <1>1, <1>3 DEF Near
<1>5. PICK b \in Nat : b = y * s
  BY Zenon, <1>2, Product
<1>6. PICK j \in Nat : j = b * (Y - y)
  <2>1. Y - y \in Nat
    BY <1>2
  <2> QED BY Zenon, <2>1, Product
<1>7. j <= Y * b
  <2>1. Y - y <= Y
    BY <1>2
  <2>2. (Y - y) * b <= Y * b
    BY <1>2, <2>1, Times
  <2>3. (Y - y) * b = b * (Y - y)
    BY <1>2
  <2> QED BY Zenon, <1>6, <2>2, <2>3
<1>8. 2 * (back * (Y * Y)) <= 2 * j + Y * Y
  <2>1. y * (Y - y) * (x + X) = j
    BY <1>1, <1>2, <1>5, <1>6
  <2> QED BY Zenon, <2>1 DEF Near
<1>9. (2 * (back * Y)) * Y <= (2 * b + Y) * Y
  <2>1. (2 * (back * Y)) * Y = 2 * (back * (Y * Y))
    BY <1>2
  <2>2. (2 * b + Y) * Y = 2 * (Y * b) + Y * Y
    OBVIOUS
  <2>3. PICK k \in Int, l \in Int, m \in Int : k = back * (Y * Y) /\ l = Y * b /\ m = Y * Y
    BY <1>2
  <2>4. 2 * k <= 2 * l + m
    BY <1>7, <1>8, <2>3
  <2> QED BY Zenon, <2>1, <2>2, <2>3, <2>4
<1>10. PICK c \in Nat : c = back * Y
  BY Zenon, <1>2, Product
<1>11. 2 * c <= 2 * b + Y
  BY <1>9, <1>10, Cancel
<1>12. (2 * c) * s <= (2 * b + Y) * s
  BY <1>11, Times
<1>13. (2 * b + Y) * s <= 2 * i + d + s * Y
  <2>1. (2 * b + Y) * s = 2 * (y * d) + s * Y
    BY <1>2, <1>3, <1>5
  <2>2. PICK k \in Int, l \in Int : k = y * d /\ l = s * Y
    BY <1>2
  <2> QED BY <1>4, <2>1, <2>2
<1>14. 2 * Y * s * back = (2 * c) * s
  BY <1>2, <1>10
<1>15. 2 * x * X * Y = 2 * i
  BY <1>3
<1>16. 2 * Y * s * back <= 2 * x * X * Y + s * s + s * Y
  <2>1. PICK k \in Int, l \in Int, m \in Int : k = (2 * c) * s /\ l = (2 * b + Y) * s /\ m = s * Y
    OBVIOUS
  <2>2. k <= 2 * i + d + m
    BY <1>12, <1>13, <2>1
  <2> QED BY Zenon, <1>3, <1>14, <1>15, <2>1, <2>2
<1> QED BY Zenon, <1>1, <1>16

\* A swap there and back leaves the fee of the first swap in the pool, up to the rounding of
\* the two results, for any amount and any pool of an asset of at most 18 decimals (SwapOne).
THEOREM RoundTripsPay == ClpSpec => []RoundTripPaysFee
<1>1. ASSUME ClpInv PROVE RoundTripPaysFee
  <2> SUFFICES ASSUME NEW e \in DOMAIN pools \cap Regular, NEW toRowan \in BOOLEAN,
                      NEW x \in Amounts \ {0},
                      NEW X, X = IF toRowan THEN pools[e].external ELSE pools[e].native,
                      NEW Y, Y = IF toRowan THEN pools[e].native ELSE pools[e].external,
                      NEW there, there = SwapOne(toRowan, e, x, pools[e]),
                      NEW back, back = SwapOne(~toRowan, e, there.result, there.pool),
                      there.ok, back.ok
               PROVE  2 * Y * (x + X) * back.result
                        <= 2 * x * X * Y + (x + X) * (x + X) + (x + X) * Y
    BY DEF RoundTripPaysFee
  <2>1. X \in Nat \ {0} /\ Y \in Nat \ {0} /\ x \in Nat \ {0}
    BY Zenon, <1>1, PoolFacts, ClpAssumption
  <2>2. e \in Externals /\ e \in Regular /\ pools[e] \in GoodPool /\ pools[e] \in Pool
    BY ZenonT(40), <1>1, PoolFacts
  <2>3. Swapped(toRowan, e, x, pools[e], there)
    BY ZenonT(40), <2>1, <2>2, SwapOneFacts
  <2>4. PICK y \in Nat : y = there.result
    BY ZenonT(40), <2>3 DEF Swapped
  <2>5. there.pool \in GoodPool /\ there.pool \in Pool
    BY Zenon, <2>2, <2>3 DEF Swapped, GoodPool
  <2>6. Swapped(~toRowan, e, y, there.pool, back)
    <3>1. (~toRowan) \in BOOLEAN
      BY Zenon
    <3> QED BY <2>2, <2>4, <2>5, <3>1, SwapOneFacts, Zenon
  <2>7. PICK z \in Nat : z = back.result
    BY ZenonT(40), <2>6 DEF Swapped
  <2>8. /\ y = CalcSwapResult(toRowan, e, X, x, Y)
        /\ y < Y
        /\ z = CalcSwapResult(~toRowan, e, Y - y, y, x + X)
    <3>1. CASE toRowan
      <4>1. /\ y = CalcSwapResult(TRUE, e, pools[e].external, x, pools[e].native)
            /\ there.pool.native = pools[e].native - y /\ there.pool.external = pools[e].external + x
            /\ y < pools[e].native
        BY ZenonT(40), <2>3, <2>4, <3>1 DEF Swapped
      <4>2. z = CalcSwapResult(FALSE, e, there.pool.native, y, there.pool.external)
        BY ZenonT(40), <2>6, <2>7, <3>1 DEF Swapped
      <4>3. X = pools[e].external /\ Y = pools[e].native /\ X + x = x + X
        BY <2>1, <3>1
      <4> QED BY ZenonT(40), <3>1, <4>1, <4>2, <4>3
    <3>2. CASE ~toRowan
      <4>1. /\ y = CalcSwapResult(FALSE, e, pools[e].native, x, pools[e].external)
            /\ there.pool.native = pools[e].native + x /\ there.pool.external = pools[e].external - y
            /\ y < pools[e].external
        BY ZenonT(40), <2>3, <2>4, <3>2 DEF Swapped
      <4>2. z = CalcSwapResult(TRUE, e, there.pool.external, y, there.pool.native)
        BY ZenonT(40), <2>6, <2>7, <3>2 DEF Swapped
      <4>3. X = pools[e].native /\ Y = pools[e].external /\ X + x = x + X
        BY <2>1, <3>2
      <4> QED BY ZenonT(40), <3>2, <4>1, <4>2, <4>3
    <3> QED BY ZenonT(40), <3>1, <3>2
  <2>9. Near(y, x * X * Y, (x + X) * (x + X))
    BY ZenonT(40), <2>1, <2>2, <2>8, RegularFormulas
  <2>10. PICK s \in Nat \ {0}, rest \in Nat \ {0} : s = x + X /\ rest = Y - y
    BY <2>1, <2>8
  <2>11. Near(z, y * rest * s, Y * Y)
    <3>1. CASE y = 0
      <4>1. z = 0
        BY ZenonT(40), <2>8, <3>1 DEF CalcSwapResult
      <4>2. y * rest * s = 0 /\ Y * Y \in Nat /\ 0 * (Y * Y) = 0
        BY <2>1, <3>1
      <4> QED BY <4>1, <4>2 DEF Near
    <3>2. CASE y # 0
      <4>1. Near(z, y * rest * s, (y + rest) * (y + rest))
        <5>1. PICK b \in BOOLEAN : b = ~toRowan
          BY Zenon
        <5>2. z = CalcSwapResult(b, e, rest, y, s)
          BY ZenonT(40), <2>8, <2>10, <5>1
        <5>3. y \in Nat \ {0} /\ e \in Regular
          BY Zenon, <2>2, <3>2
        <5>4. Near(CalcSwapResult(b, e, rest, y, s), y * rest * s, (y + rest) * (y + rest))
          BY ZenonT(40), <5>3, RegularFormulas
        <5> QED BY ZenonT(40), <5>2, <5>4
      <4>2. y + rest = Y
        BY <2>1, <2>10
      <4> QED BY Zenon, <4>1, <4>2
    <3> QED BY Zenon, <3>1, <3>2
  <2>12. Near(z, y * (Y - y) * (x + X), Y * Y) /\ y <= Y
    BY <2>1, <2>8, <2>10, <2>11
  <2>13. 2 * Y * (x + X) * z <= 2 * x * X * Y + (x + X) * (x + X) + (x + X) * Y
    BY Zenon, <2>1, <2>9, <2>12, RoundTripBound
  <2> QED BY Zenon, <2>7, <2>13
<1> QED BY <1>1, ClpInvariant, PTL
=============================================================================
