-------------------------------- MODULE Clp ---------------------------------
(***************************************************************************)
(* The liquidity pools of the chain (x/clp).  Each pool pairs an external  *)
(* asset with the native one.  Providers hold units of a pool; the coins   *)
(* of all pools lie together in the account of the module.                 *)
(*                                                                         *)
(* The code computes with decimals of 18 places that are rounded to whole  *)
(* coins at the end.  Here the values are exact fractions, rounded the way *)
(* the code does; where a chain of divisions may land on either side of a  *)
(* half, both roundings are possible.  A message that fails changes        *)
(* nothing, so failures are the guards.                                    *)
(***************************************************************************)
EXTENDS Weights, Sequences

CONSTANTS
  Accounts,       \* users
  Admins,         \* accounts that may decommission pools
  Externals,      \* external assets that the registry lists with permission CLP
  Native,         \* the settlement asset
  Factor,         \* normalization factor of each external asset, and
  Adjust,         \* whether it has fewer than 18 decimals (true) or more
  PoolThreshold,  \* PoolThrehold, 10^18 in the code
  MaxWbasis,      \* 10000 in the code
  BasisPoints,    \* basis points and asymmetries, amounts and minimal results of
  Asymmetries,    \* the messages
  Amounts,
  MinReceived,
  Funds,          \* coins that every account has of every asset at first
  MaxMessages     \* bound on the messages

Assets == Externals \cup {Native}

ASSUME ClpAssumption ==
  /\ Native \notin Externals
  /\ IsFiniteSet(Accounts) /\ IsFiniteSet(Externals)
  /\ Factor \in [Externals -> Nat \ {0}] /\ Adjust \in [Externals -> BOOLEAN]
  /\ {PoolThreshold, MaxWbasis} \subseteq Nat \ {0}
  /\ BasisPoints \subseteq 1 .. MaxWbasis
  /\ Asymmetries \subseteq (0 - MaxWbasis) .. MaxWbasis
  /\ Amounts \cup MinReceived \cup {Funds, MaxMessages} \subseteq Nat

VARIABLES
  pools,     \* the pool of each external asset that has one
  lps,       \* the units of the providers of each external asset
  accounts,  \* balances of the users
  module,    \* balance of the module account
  messages   \* successful messages so far

clpVars == <<pools, lps, accounts, module, messages>>

Pool == [native : Nat, external : Nat, units : Nat]

\* f with the value v at k, which may be new.
Put(f, k, v) == [x \in DOMAIN f \cup {k} |-> IF x = k THEN v ELSE f[x]]

Delete(f, k) == [x \in DOMAIN f \ {k} |-> f[x]]

----------------------------------------------------------------------------
(* Rounding.                                                                *)

\* RoundInt of n/d: to the nearest integer, a half to the even one.
RoundInt(n, d) ==
  LET q == n \div d
      r == 2 * (n % d)
  IN  IF r < d \/ (r = d /\ q % 2 = 0) THEN q ELSE q + 1

\* The integers that are nearest to n/d.
Nearest(n, d) == {q \in {n \div d, n \div d + 1} : 2 * q * d \in (2 * n - d) .. (2 * n + d)}

----------------------------------------------------------------------------
(* The formulas of calculations.go.                                         *)

\* X, x and Y of a swap in a pool of e, brought to the same number of decimals.
Normalized(toRowan, e, X, x, Y) ==
  IF toRowan = Adjust[e]
    THEN [X |-> X * Factor[e], x |-> x * Factor[e], Y |-> Y]
    ELSE [X |-> X, x |-> x, Y |-> Y * Factor[e]]

\* Mutant: the fee is not left in the pool.
CalcSwapResult_NoFee(toRowan, e, X, x, Y) ==
  IF 0 \in {X, x, Y} THEN 0 ELSE RoundInt(x * Y, x + X)

\* Mutant: the result is rounded up.
CalcSwapResult_Up(toRowan, e, X, x, Y) ==
  LET v == Normalized(toRowan, e, X, x, Y)
      d == (v.x + v.X) * (v.x + v.X) * IF toRowan THEN 1 ELSE Factor[e]
  IN  IF 0 \in {X, x, Y} THEN 0 ELSE (v.x * v.X * v.Y + d - 1) \div d

CalcSwapResult(toRowan, e, X, x, Y) ==
  LET v == Normalized(toRowan, e, X, x, Y)
      d == (v.x + v.X) * (v.x + v.X)
  IN  IF 0 \in {X, x, Y}
        THEN 0
        ELSE RoundInt(v.x * v.X * v.Y, IF toRowan THEN d ELSE d * Factor[e])

CalcLiquidityFee(toRowan, e, X, x, Y) ==
  LET v == Normalized(toRowan, e, X, x, Y)
      d == (v.x + v.X) * (v.x + v.X)
  IN  IF 0 \in {X, x, Y}
        THEN 0
        ELSE RoundInt(v.x * v.x * v.Y, IF toRowan THEN d ELSE d * Factor[e])

SwapOne(toRowan, e, x, p) ==
  LET result == CalcSwapResult(toRowan, e, IF toRowan THEN p.external ELSE p.native, x,
                               IF toRowan THEN p.native ELSE p.external)
  IN  [ok     |-> result < IF toRowan THEN p.native ELSE p.external,
       result |-> result,
       pool   |-> IF toRowan
                    THEN [p EXCEPT !.external = @ + x, !.native = @ - result]
                    ELSE [p EXCEPT !.native = @ + x, !.external = @ - result]]

Distance(m, n) == IF m > n THEN m - n ELSE n - m

\* Mutant: no adjustment for what is added on one side only.
CalculatePoolUnits_NoSlip(e, P, R, A, r, a) ==
  LET up    == P * (a * R + A * r)
      down  == 2 * A * R
  IN  IF 0 \in {R, A}
        THEN {[pool |-> r, provider |-> r]}
        ELSE {[pool |-> RoundInt(P * down + up, down), provider |-> RoundInt(up, down)]}

\* The units of the pool and of the provider after r native and a external coins are
\* added to R and A.  Both are rounded on their own: at a half the rounding of the sum
\* depends on P.  The normalization factor cancels except in a new pool.
CalculatePoolUnits(e, P, R, A, r, a) ==
  LET first == IF Adjust[e] THEN r ELSE r * Factor[e]
      both  == (r + R) * (a + A)
      up    == P * (a * R + A * r) * (both - Distance(R * a, r * A))
      down  == 2 * A * R * both
  IN  IF 0 \in {R, A}
        THEN {[pool |-> first, provider |-> first]}
        ELSE {[pool |-> RoundInt(P * down + up, down), provider |-> RoundInt(up, down)]}
               \cup {[pool |-> P + u, provider |-> u] : u \in Nearest(up, down)}

\* What a provider with lp units withdraws, the units it keeps and what it swaps.
CalculateWithdrawal(p, lp, wBasisPoints, asymmetry) ==
  LET claim == lp * wBasisPoints
      down  == p.units * MaxWbasis
  IN  [native   : Nearest(p.native * claim, down),
       external : Nearest(p.external * claim, down),
       left     : Nearest(lp * (MaxWbasis - wBasisPoints), MaxWbasis),
       swap     : Nearest((IF asymmetry > 0 THEN p.native ELSE p.external)
                            * claim * Distance(asymmetry, 0), down * MaxWbasis)]

----------------------------------------------------------------------------
(* The messages.                                                            *)

\* Account a sends and receives coins of the module.
Transfer(a, sent, received) ==
  /\ \A s \in Assets : sent[s] <= accounts[a][s] /\ received[s] <= module[s] + sent[s]
  /\ accounts' = [accounts EXCEPT ![a] = [s \in Assets |-> @[s] - sent[s] + received[s]]]
  /\ module' = [s \in Assets |-> module[s] + sent[s] - received[s]]
  /\ messages' = messages + 1

Coins(e, native, external) ==
  [s \in Assets |-> CASE s = Native -> native [] s = e -> external [] OTHER -> 0]

Coin(asset, amount) == [s \in Assets |-> IF s = asset THEN amount ELSE 0]

NoCoins == [s \in Assets |-> 0]

CreatePool(a, e, r, x) ==
  /\ r > 0 /\ x > 0
  /\ r >= PoolThreshold
  /\ e \notin DOMAIN pools
  /\ \E u \in CalculatePoolUnits(e, 0, 0, 0, r, x) :
       /\ pools' = Put(pools, e, [native |-> r, external |-> x, units |-> u.pool])
       /\ lps' = [lps EXCEPT ![e] = Put(@, a, u.provider)]
  /\ Transfer(a, Coins(e, r, x), NoCoins)

\* Mutant: the units that a provider has already are overwritten.
AddLiquidity_Overwrite(a, e, r, x) ==
  /\ r + x > 0
  /\ e \in DOMAIN pools
  /\ LET p == pools[e]
     IN  \E u \in CalculatePoolUnits(e, p.units, p.native, p.external, r, x) :
           /\ pools' = [pools EXCEPT ![e] = [native |-> p.native + r, external |-> p.external + x,
                                             units |-> u.pool]]
           /\ lps' = [lps EXCEPT ![e] = Put(@, a, u.provider)]
  /\ Transfer(a, Coins(e, r, x), NoCoins)

AddLiquidity(a, e, r, x) ==
  /\ r + x > 0
  /\ e \in DOMAIN pools
  /\ LET p == pools[e]
     IN  \E u \in CalculatePoolUnits(e, p.units, p.native, p.external, r, x) :
           /\ pools' = [pools EXCEPT ![e] = [native |-> p.native + r, external |-> p.external + x,
                                             units |-> u.pool]]
           /\ lps' = [lps EXCEPT ![e] = Put(@, a, u.provider + IF a \in DOMAIN @ THEN @[a] ELSE 0)]
  /\ Transfer(a, Coins(e, r, x), NoCoins)

\* Between the native asset and an external one.
SingleSwap(a, toRowan, e, amount, min) ==
  /\ amount > 0
  /\ e \in DOMAIN pools
  /\ LET swap == SwapOne(toRowan, e, amount, pools[e])
     IN  /\ swap.ok
         /\ swap.result >= min
         /\ pools' = [pools EXCEPT ![e] = swap.pool]
         /\ Transfer(a, Coin(IF toRowan THEN e ELSE Native, amount),
                        Coin(IF toRowan THEN Native ELSE e, swap.result))
  /\ UNCHANGED lps

\* From one external asset to another, or to the same: the second pool is read after
\* the first is stored.
DoubleSwap(a, from, to, amount, min) ==
  /\ amount > 0
  /\ {from, to} \subseteq DOMAIN pools
  /\ LET first  == SwapOne(TRUE, from, amount, pools[from])
         after  == [pools EXCEPT ![from] = first.pool]
         second == SwapOne(FALSE, to, first.result, after[to])
     IN  /\ first.ok /\ second.ok
         /\ second.result >= min
         /\ pools' = [after EXCEPT ![to] = second.pool]
         /\ Transfer(a, Coin(from, amount), Coin(to, second.result))
  /\ UNCHANGED lps

\* Mutant: what the swap takes is not deducted from the payment.
Adjusted_Undeducted(e, p, w, asymmetry) ==
  LET toRowan == asymmetry < 0
      swap    == SwapOne(toRowan, e, w.swap, p)
  IN  IF asymmetry = 0
        THEN [ok |-> TRUE, pool |-> p, native |-> w.native, external |-> w.external]
        ELSE [ok       |-> swap.ok /\ p.native # 0 /\ p.external # 0,
              pool     |-> swap.pool,
              native   |-> w.native + IF toRowan THEN swap.result ELSE 0,
              external |-> w.external + IF toRowan THEN 0 ELSE swap.result]

\* What remains of pool p and what is paid when the withdrawal w is swapped.  A swap that
\* gives nothing leaves the payment as it is.
Adjusted(e, p, w, asymmetry) ==
  LET toRowan == asymmetry < 0
      swap    == SwapOne(toRowan, e, w.swap, p)
      given   == IF swap.result = 0 THEN 0 ELSE w.swap
  IN  IF asymmetry = 0
        THEN [ok |-> TRUE, pool |-> p, native |-> w.native, external |-> w.external]
        ELSE [ok       |-> swap.ok /\ p.native # 0 /\ p.external # 0,
              pool     |-> swap.pool,
              native   |-> w.native + IF toRowan THEN swap.result ELSE 0 - given,
              external |-> w.external + IF toRowan THEN 0 - given ELSE swap.result]

\* Mutant: a withdrawal of a whole side passes.
TooShallow_Over(p, paid) == paid.native > p.native \/ paid.external > p.external

TooShallow(p, paid) == paid.native >= p.native \/ paid.external >= p.external

\* An unsigned subtraction that would go below zero fails, and a provider without units
\* makes the formula divide by zero.
RemoveLiquidity(a, e, wBasisPoints, asymmetry) ==
  /\ e \in DOMAIN pools /\ a \in DOMAIN lps[e]
  /\ LET p  == pools[e]
         lp == lps[e][a]
     IN  /\ 0 < lp /\ lp <= p.units
         /\ \E w \in CalculateWithdrawal(p, lp, wBasisPoints, asymmetry) :
              LET rest == [native |-> p.native - w.native, external |-> p.external - w.external,
                           units |-> p.units - lp + w.left]
                  paid == Adjusted(e, rest, w, asymmetry)
              IN  /\ w.native <= p.native /\ w.external <= p.external
                  /\ paid.ok
                  /\ paid.native >= 0 /\ paid.external >= 0 /\ ~TooShallow(p, paid)
                  /\ pools' = [pools EXCEPT ![e] = paid.pool]
                  /\ lps' = [lps EXCEPT ![e] = IF w.left = 0 THEN Delete(@, a) ELSE Put(@, a, w.left)]
                  /\ Transfer(a, NoCoins, Coins(e, paid.native, paid.external))

\* The providers' shares of a balance of the pool of e.  They are computed from the
\* balance before and deducted one after the other, which fails below zero.
Shares(e, balance) ==
  LET P == pools[e].units
      nearest(l) == Nearest(balance * lps[e][l], P)
      providers  == DOMAIN lps[e]
  IN  {f \in [providers -> UNION {nearest(l) : l \in providers}] :
         /\ \A l \in providers : f[l] \in nearest(l)
         /\ Weight(providers, f) <= balance}

\* The admin a pays every provider of e its share and destroys the pool.
DecommissionPool(a, e) ==
  /\ a \in Admins
  /\ e \in DOMAIN pools
  /\ pools[e].native < PoolThreshold
  /\ 0 \notin {lps[e][l] : l \in DOMAIN lps[e]}
  /\ Weight(DOMAIN lps[e], lps[e]) <= pools[e].units
  /\ \E natives \in Shares(e, pools[e].native),
        externals \in Shares(e, pools[e].external) :
       LET paid == Coins(e, Weight(DOMAIN lps[e], natives), Weight(DOMAIN lps[e], externals))
       IN  /\ \A s \in Assets : paid[s] <= module[s]
           /\ module' = [s \in Assets |-> module[s] - paid[s]]
           /\ accounts' = [l \in Accounts |->
                IF l \in DOMAIN lps[e]
                  THEN [accounts[l] EXCEPT ![Native] = @ + natives[l], ![e] = @ + externals[l]]
                  ELSE accounts[l]]
  /\ pools' = Delete(pools, e)
  /\ lps' = [lps EXCEPT ![e] = <<>>]
  /\ messages' = messages + 1

----------------------------------------------------------------------------

ClpInit ==
  /\ pools = <<>>
  /\ lps = [e \in Externals |-> <<>>]
  /\ accounts = [a \in Accounts |-> [s \in Assets |-> Funds]]
  /\ module = [s \in Assets |-> 0]
  /\ messages = 0

Create ==
  /\ messages < MaxMessages
  /\ \E a \in Accounts, e \in Externals, r, x \in Amounts : CreatePool(a, e, r, x)

Add ==
  /\ messages < MaxMessages
  /\ \E a \in Accounts, e \in Externals, r, x \in Amounts \cup {0} : AddLiquidity(a, e, r, x)

Swap ==
  /\ messages < MaxMessages
  /\ \E a \in Accounts, amount \in Amounts, min \in MinReceived :
       \/ \E e \in Externals, toRowan \in BOOLEAN : SingleSwap(a, toRowan, e, amount, min)
       \/ \E from, to \in Externals : DoubleSwap(a, from, to, amount, min)

Remove ==
  /\ messages < MaxMessages
  /\ \E a \in Accounts, e \in Externals, w \in BasisPoints, asymmetry \in Asymmetries :
       RemoveLiquidity(a, e, w, asymmetry)

Decommission ==
  /\ messages < MaxMessages
  /\ \E a \in Accounts, e \in Externals : DecommissionPool(a, e)

ClpNext == Create \/ Add \/ Swap \/ Remove \/ Decommission

ClpSpec == ClpInit /\ [][ClpNext]_clpVars

----------------------------------------------------------------------------
(* What the pools guarantee.                                                *)

\* No sequence of swaps and withdrawals empties one side of a pool: the formulas divide by
\* both (the checks of SwapOne, and of RemoveLiquidity before and after the swap).
SidesPositive ==
  \A e \in DOMAIN pools : pools[e] \in Pool /\ pools[e].native > 0 /\ pools[e].external > 0

\* What the pools record of an asset.
Recorded(asset) ==
  IF asset = Native
    THEN Weight(DOMAIN pools, [e \in DOMAIN pools |-> pools[e].native])
    ELSE IF asset \in DOMAIN pools THEN pools[asset].external ELSE 0

\* Coins of an asset that a step records beyond what came into the module.
Excess(asset) == Recorded(asset)' - Recorded(asset) - (module'[asset] - module[asset])

\* A withdrawal from a pool that records the excess as swapped, for a result of nothing.
SwapForNothing(asset) ==
  /\ Excess(asset) > 0
  /\ \E e \in DOMAIN pools :
       LET q == pools'[e]
       IN  /\ asset \in {Native, e}
           /\ 0 = IF asset = Native
                    THEN CalcSwapResult(FALSE, e, q.native - Excess(asset), Excess(asset), q.external)
                    ELSE CalcSwapResult(TRUE, e, q.external - Excess(asset), Excess(asset), q.native)

\* Every message changes the recorded balances by what it pays into or out of the module,
\* also over two pools and after the rounding of each amount.  Two messages do not: a
\* decommissioning leaves the remainder of its shares in the module, and an asymmetric
\* withdrawal whose swap is rounded to nothing records the swapped coins that it pays out.
BooksKept ==
  [][\A s \in Assets :
       \/ Excess(s) = 0
       \/ \E e \in DOMAIN pools : e \notin DOMAIN pools'
       \/ SwapForNothing(s)]_clpVars

\* Units that nobody holds, or that are held without being recorded.
Drift(e) == pools[e].units - Weight(DOMAIN lps[e], lps[e])

\* The units of a pool and those of its providers move apart only where liquidity is added,
\* by one unit for each addition (CalculatePoolUnits rounds the two sums separately).
UnitsKept ==
  [][\A e \in DOMAIN pools \cap DOMAIN pools' :
       \/ Drift(e)' = Drift(e)
       \/ /\ pools'[e].units >= pools[e].units
          /\ pools'[e].native + pools'[e].external > pools[e].native + pools[e].external
          /\ Drift(e)' - Drift(e) \in {-1, 1}]_clpVars

\* Adding liquidity does not dilute the other providers: the product of the balances grows
\* at least as the square of the units does, up to half a unit of rounding (the slip
\* adjustment of CalculatePoolUnits).  The formula grants this as long as the product of the
\* two amounts added is at most three times that of the balances, so for every addition on
\* one side; when far more is added on both sides at another ratio, units can be too many.
AddKeepsShares ==
  [][\A e \in DOMAIN pools \cap DOMAIN pools' :
       LET p == pools[e]
           q == pools'[e]
       IN  (/\ p.native <= q.native /\ p.external <= q.external /\ q.units > p.units
            /\ (q.native - p.native) * (q.external - p.external) <= 3 * p.native * p.external)
             => 4 * q.native * q.external * p.units * p.units
                  >= p.native * p.external * (2 * q.units - 1) * (2 * q.units - 1)]_clpVars

\* The assets of at most 18 decimals.  For one of more the formulas of a swap and of its fee
\* scale the pool's sides apart instead of bringing them together.
Regular == {e \in Externals : Adjust[e] \/ Factor[e] = 1}

\* What a swap pays and the fee that it reports add up to x Y / (x + X), the value without a
\* fee, within one coin (CalcSwapResult and CalcLiquidityFee round separately).
FeeAndResultSplit ==
  \A e \in DOMAIN pools \cap Regular, toRowan \in BOOLEAN, x \in Amounts \ {0} :
    LET X == IF toRowan THEN pools[e].external ELSE pools[e].native
        Y == IF toRowan THEN pools[e].native ELSE pools[e].external
        total == CalcSwapResult(toRowan, e, X, x, Y) + CalcLiquidityFee(toRowan, e, X, x, Y)
    IN  Distance(total * (x + X), x * Y) <= x + X

\* Swapping x there and back at once leaves the fee of the first swap in the pool: what comes
\* back is at most x X / (x + X), plus what the roundings of the two results may add, half a
\* coin of Y at the price (x + X) / Y and half a coin of X.
RoundTripPaysFee ==
  \A e \in DOMAIN pools \cap Regular, toRowan \in BOOLEAN, x \in Amounts \ {0} :
    LET X == IF toRowan THEN pools[e].external ELSE pools[e].native
        Y == IF toRowan THEN pools[e].native ELSE pools[e].external
        there == SwapOne(toRowan, e, x, pools[e])
        back  == SwapOne(~toRowan, e, there.result, there.pool)
    IN  there.ok /\ back.ok
          => 2 * Y * (x + X) * back.result <= 2 * x * X * Y + (x + X) * (x + X) + (x + X) * Y
=============================================================================
