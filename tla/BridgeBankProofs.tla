-------------------------- MODULE BridgeBankProofs --------------------------
(***************************************************************************)
(* Theorems about the bank, for any tokens, symbols, users and amounts.    *)
(***************************************************************************)
EXTENDS BridgeBank, WeightTheorems, WellFoundedInduction

Balances == [Assets -> [Holders -> Nat]]

----------------------------------------------------------------------------
(* Balances.                                                                *)

\* In c the account a has x of t; all else is as in b.
Holds(c, b, t, a, x) ==
  /\ c \in Balances
  /\ \A u \in Assets \ {t} : c[u] = b[u]
  /\ \A h \in Holders : c[t][h] = IF h = a THEN x ELSE b[t][h]

LEMMA BalanceChanges ==
  ASSUME NEW b \in Balances, NEW t \in Assets, NEW a \in Holders, NEW x \in Nat,
         NEW c, c = [b EXCEPT ![t][a] = x]
  PROVE  Holds(c, b, t, a, x)
<1>1. PICK f : f = [b[t] EXCEPT ![a] = x]
  BY Zenon
<1>2. f \in [Holders -> Nat]
  BY Zenon, <1>1 DEF Balances
<1>3. c = [b EXCEPT ![t] = f]
  BY Zenon, <1>1
<1>4. c \in Balances /\ c[t] = f
  BY Zenon, <1>2, <1>3 DEF Balances
<1>5. \A u \in Assets \ {t} : c[u] = b[u]
  BY Zenon, <1>3 DEF Balances
<1>6. \A h \in Holders : f[h] = IF h = a THEN x ELSE b[t][h]
  BY Zenon, <1>1 DEF Balances
<1> QED BY Zenon, <1>4, <1>5, <1>6 DEF Holds

\* What an account has is a number.
LEMMA BalanceType ==
  ASSUME NEW b \in Balances, NEW t \in Assets, NEW a \in Holders
  PROVE  b[t][a] \in Nat
BY Zenon DEF Balances

LEMMA CreditHolds ==
  ASSUME NEW b \in Balances, NEW t \in Assets, NEW a \in Holders, NEW n \in Nat
  PROVE  Holds(Credit(b, t, a, n), b, t, a, b[t][a] + n)
<1>1. b[t][a] \in Nat /\ b[t][a] + n \in Nat
  BY BalanceType
<1>2. Credit(b, t, a, n) = [b EXCEPT ![t][a] = b[t][a] + n]
  BY Zenon DEF Credit, Balances
<1> QED BY Zenon, <1>1, <1>2, BalanceChanges

LEMMA DebitHolds ==
  ASSUME NEW b \in Balances, NEW t \in Assets, NEW a \in Holders, NEW n \in Nat, n <= b[t][a]
  PROVE  Holds(Debit(b, t, a, n), b, t, a, b[t][a] - n)
<1>1. b[t][a] \in Nat
  BY Zenon, BalanceType
<1>2. b[t][a] - n \in Nat
  BY <1>1
<1>3. Debit(b, t, a, n) = [b EXCEPT ![t][a] = b[t][a] - n]
  BY Zenon DEF Debit, Balances
<1> QED BY Zenon, <1>2, <1>3, BalanceChanges

LEMMA HoldersFinite == IsFiniteSet(Holders)
BY Zenon, BankAssumption, FS_AddElement DEF Holders

\* So is what there was of a token at first.
LEMMA InitialSupply ==
  ASSUME NEW t \in Assets
  PROVE  Weight(Users, InitialBalances[t]) \in Nat
<1>1. \A u \in Users : InitialBalances[t][u] \in Nat
  BY BankAssumption
<1> QED BY Zenon, <1>1, BankAssumption, WeightType

\* The supply changes by as much as the account does.
LEMMA SupplyChanges ==
  ASSUME NEW b \in Balances, NEW t \in Assets, NEW a \in Holders, NEW x \in Nat,
         NEW c, Holds(c, b, t, a, x)
  PROVE  /\ Weight(Holders, c[t]) = Weight(Holders, b[t]) - b[t][a] + x
         /\ Weight(Holders, b[t]) \in Nat
<1>1. PICK w, v : w = b[t] /\ v = c[t]
  BY Zenon
<1>2. /\ \A h \in Holders : w[h] \in Nat
      /\ \A h \in Holders : v[h] \in Nat
      /\ \A h \in Holders \ {a} : v[h] = w[h]
      /\ v[a] = x
  BY Zenon, <1>1 DEF Holds, Balances
<1>3. Weight(Holders, v) = Weight(Holders, w) - w[a] + v[a]
  BY <1>2, HoldersFinite, WeightUpdate
<1>4. Weight(Holders, w) \in Nat
  BY Zenon, <1>2, HoldersFinite, WeightType
<1> QED BY Zenon, <1>1, <1>2, <1>3, <1>4

\* In c, n of t has gone from a to e.
Moved(c, b, t, a, e, n) ==
  /\ c \in Balances
  /\ \A u \in Assets \ {t} : c[u] = b[u]
  /\ Weight(Holders, c[t]) = Weight(Holders, b[t])
  /\ \A h \in Holders : c[t][h] = b[t][h] - (IF h = a THEN n ELSE 0) + (IF h = e THEN n ELSE 0)

\* A payment of n from a to e changes those two and no supply.
LEMMA MoveHolds ==
  ASSUME NEW b \in Balances, NEW t \in Assets, NEW a \in Holders, NEW e \in Holders,
         NEW n \in Nat, n <= b[t][a]
  PROVE  Moved(Credit(Debit(b, t, a, n), t, e, n), b, t, a, e, n)
<1>1. PICK c : c = Credit(Debit(b, t, a, n), t, e, n)
  BY Zenon
<1>2. PICK d : d = Debit(b, t, a, n)
  BY Zenon
<1>3. Holds(d, b, t, a, b[t][a] - n)
  BY Zenon, <1>2, DebitHolds
<1>4. d \in Balances
  BY Zenon, <1>3 DEF Holds
<1>5. Holds(c, d, t, e, d[t][e] + n)
  BY Zenon, <1>1, <1>2, <1>4, CreditHolds
<1>6. /\ b[t][a] \in Nat /\ b[t][a] - n \in Nat
      /\ d[t][e] \in Nat /\ d[t][e] + n \in Nat
  BY <1>4, BalanceType
<1>7. /\ Weight(Holders, d[t]) = Weight(Holders, b[t]) - b[t][a] + (b[t][a] - n)
      /\ Weight(Holders, b[t]) \in Nat
  BY Zenon, <1>3, <1>6, SupplyChanges
<1>8. Weight(Holders, c[t]) = Weight(Holders, d[t]) - d[t][e] + (d[t][e] + n)
  BY <1>4, <1>5, <1>6, SupplyChanges
<1>9. Weight(Holders, c[t]) = Weight(Holders, b[t])
  BY <1>6, <1>7, <1>8
<1>10. ASSUME NEW h \in Holders
      PROVE  c[t][h] = b[t][h] - (IF h = a THEN n ELSE 0) + (IF h = e THEN n ELSE 0)
  <2>1. b[t][h] \in Nat
    BY Zenon, BalanceType
  <2>2. d[t][h] = IF h = a THEN b[t][a] - n ELSE b[t][h]
    BY Zenon, <1>3 DEF Holds
  <2>3. c[t][h] = IF h = e THEN d[t][e] + n ELSE d[t][h]
    BY Zenon, <1>5 DEF Holds
  <2> QED BY <2>1, <2>2, <2>3
<1>11. \A u \in Assets \ {t} : c[u] = b[u]
  BY Zenon, <1>3, <1>5 DEF Holds
<1> QED BY Zenon, <1>1, <1>5, <1>9, <1>10, <1>11 DEF Holds, Moved

----------------------------------------------------------------------------
(* Logs.                                                                    *)

\* A log has the fields it is made of.
LEMMA LogFields ==
  ASSUME NEW type \in {"lock", "burn", "unlock", "mint"}, NEW t \in Assets, NEW s \in Symbols,
         NEW a \in Users, NEW n \in Nat, NEW k \in Nat,
         NEW l, l = Log(type, t, s, a, n, k)
  PROVE  l \in Logs /\ l.type = type /\ l.token = t /\ l.amount = n /\ l.nonce = k
BY Zenon DEF Log, Logs

Of(type, token) == {i \in DOMAIN logs : logs[i].type = type /\ logs[i].token = token}

Amount == [i \in DOMAIN logs |-> logs[i].amount]

\* What is logged is a number.
LEMMA LoggedType ==
  ASSUME logs \in Seq(Logs), NEW type, NEW token
  PROVE  /\ Logged(type, token) \in Nat
         /\ Logged(type, token) = Weight(Of(type, token), Amount)
         /\ IsFiniteSet(Of(type, token))
         /\ \A i \in Of(type, token) : Amount[i] \in Nat
<1>1. PICK n \in Nat : DOMAIN logs = 1 .. n
  OBVIOUS
<1>2. IsFiniteSet(DOMAIN logs)
  BY <1>1, FS_Interval
<1>3. IsFiniteSet(Of(type, token))
  BY Zenon, <1>2, FS_Subset DEF Of
<1>4. \A i \in Of(type, token) : Amount[i] \in Nat
  <2>1. \A i \in DOMAIN logs : logs[i] \in Logs
    OBVIOUS
  <2>2. \A i \in DOMAIN logs : logs[i].amount \in Nat
    BY Zenon, <2>1 DEF Logs
  <2> QED BY Zenon, <2>2 DEF Of, Amount
<1>5. Logged(type, token) = Weight(Of(type, token), Amount)
  BY Zenon DEF Logged, Of, Amount
<1> QED BY Zenon, <1>3, <1>4, <1>5, WeightType

\* A log adds its amount to the sum of its type and token and to no other sum.
LEMMA LoggedAppend ==
  ASSUME logs \in Seq(Logs), NEW l \in Logs, logs' = Append(logs, l), NEW type, NEW token
  PROVE  /\ logs' \in Seq(Logs)
         /\ Logged(type, token)' = Logged(type, token) + (IF l.type = type /\ l.token = token THEN l.amount ELSE 0)
<1> DEFINE k == Len(logs) + 1
<1>1. /\ logs' \in Seq(Logs)
      /\ DOMAIN logs' = DOMAIN logs \cup {k}
      /\ k \notin DOMAIN logs
      /\ logs'[k] = l
      /\ \A i \in DOMAIN logs : logs'[i] = logs[i]
  OBVIOUS
<1>2. PICK S, w : S = Of(type, token) /\ w = Amount
  BY Zenon
<1>3. PICK u : u = Amount'
  BY Zenon
<1>4. /\ IsFiniteSet(S)
      /\ \A i \in S : w[i] \in Nat
      /\ Logged(type, token) = Weight(S, w)
      /\ Logged(type, token) \in Nat
  BY Zenon, <1>2, LoggedType
<1>5. Logged(type, token)' = Weight(Of(type, token)', u)
  BY Zenon, <1>3 DEF Logged, Of, Amount
<1>6. k \notin S /\ \A i \in S : u[i] = w[i]
  BY Zenon, <1>1, <1>2, <1>3 DEF Of, Amount
<1>7. Weight(S, u) = Weight(S, w)
  BY Zenon, <1>6, WeightCongruence
<1>8. u[k] = l.amount /\ l.amount \in Nat
  BY Zenon, <1>1, <1>3 DEF Amount, Logs
<1>9. CASE l.type = type /\ l.token = token
  <2>1. PICK T : T = {k}
    BY Zenon
  <2>2. Of(type, token)' = S \cup T
    BY Zenon, <1>1, <1>2, <1>9, <2>1 DEF Of
  <2>3. IsFiniteSet(T) /\ S \cap T = {} /\ \A i \in S \cup T : u[i] \in Nat
    BY Zenon, <1>4, <1>6, <1>8, <2>1, FS_Singleton
  <2>4. Weight(S \cup T, u) = Weight(S, u) + Weight(T, u)
    BY <1>4, <2>3, WeightDisjointUnion
  <2>5. Weight(T, u) = l.amount
    BY Zenon, <1>8, <2>1, WeightSingleton
  <2> QED BY Zenon, <1>1, <1>4, <1>5, <1>7, <1>9, <2>2, <2>4, <2>5
<1>10. CASE ~(l.type = type /\ l.token = token)
  <2>1. Of(type, token)' = S
    BY Zenon, <1>1, <1>2, <1>10 DEF Of
  <2> QED BY <1>1, <1>4, <1>5, <1>7, <1>10, <2>1
<1> QED BY Zenon, <1>9, <1>10

----------------------------------------------------------------------------
(* The funds.                                                               *)

\* What is known of the funds.
FundsInv ==
  /\ balances \in Balances
  /\ logs \in Seq(Logs)
  /\ DepositsBacked
  /\ SupplyLogged

\* A step that appends l and leaves the bank with held of its token, of which
\* there is supply.
Posted(l, held, supply) ==
  /\ l \in Logs
  /\ logs' = Append(logs, l)
  /\ balances' \in Balances
  /\ \A u \in Assets \ {l.token} : balances'[u] = balances[u]
  /\ balances'[l.token][Bank] = held
  /\ Weight(Holders, balances'[l.token]) = supply

\* The four kinds of posts, with what the bank holds before and the supply before.
Posting(l) ==
  \E held, supply \in Nat :
    /\ held = balances[l.token][Bank]
    /\ supply = Weight(Holders, balances[l.token])
    /\ \/ l.type = "lock" /\ Posted(l, held + l.amount, supply)
       \/ l.type = "unlock" /\ Posted(l, held - l.amount, supply)
       \/ l.type = "mint" /\ Posted(l, held, supply + l.amount)
       \/ l.type = "burn" /\ Posted(l, held, supply - l.amount)

\* The sums of another token stay as they are.
LEMMA PostKeepsFunds ==
  ASSUME FundsInv, NEW l \in Logs, Posting(l)
  PROVE  FundsInv'
<1>1. PICK held \in Nat, supply \in Nat :
        /\ held = balances[l.token][Bank]
        /\ supply = Weight(Holders, balances[l.token])
        /\ \/ l.type = "lock" /\ Posted(l, held + l.amount, supply)
           \/ l.type = "unlock" /\ Posted(l, held - l.amount, supply)
           \/ l.type = "mint" /\ Posted(l, held, supply + l.amount)
           \/ l.type = "burn" /\ Posted(l, held, supply - l.amount)
  BY Zenon DEF Posting
<1>2. /\ logs' = Append(logs, l)
      /\ balances' \in Balances
      /\ \A u \in Assets \ {l.token} : balances'[u] = balances[u]
  BY Zenon, <1>1 DEF Posted
<1>3. l.amount \in Nat /\ l.token \in Assets
  BY Zenon DEF Logs
<1>4. logs \in Seq(Logs) /\ logs' \in Seq(Logs)
  BY Zenon, <1>2, LoggedAppend DEF FundsInv
<1>5. \A type, token :
        /\ Logged(type, token) \in Nat
        /\ Logged(type, token)' = Logged(type, token) + (IF l.type = type /\ l.token = token THEN l.amount ELSE 0)
  BY <1>2, <1>4, LoggedType, LoggedAppend
<1>6. \A token \in Assets \ {l.token} : \A type : Logged(type, token)' = Logged(type, token)
  BY <1>5
<1>7. DepositsBacked'
  <2>1. ASSUME NEW token \in Assets \ {l.token}
        PROVE  /\ balances'[token][Bank] = balances[token][Bank]
               /\ Logged("lock", token)' = Logged("lock", token)
               /\ Logged("unlock", token)' = Logged("unlock", token)
    BY Zenon, <1>2, <1>6
  <2>2. PICK n, h, L, U \in Nat :
          /\ n = l.amount /\ h = balances'[l.token][Bank]
          /\ L = Logged("lock", l.token) /\ U = Logged("unlock", l.token)
    BY Zenon, <1>2, <1>3, <1>5 DEF Balances, Holders
  <2>3. \E i, j \in Nat : /\ Logged("lock", l.token)' = L + i
                          /\ Logged("unlock", l.token)' = U + j
                          /\ h + j = held + i
    <3>1. /\ Logged("lock", l.token)' = L + (IF l.type = "lock" THEN n ELSE 0)
          /\ Logged("unlock", l.token)' = U + (IF l.type = "unlock" THEN n ELSE 0)
      BY Zenon, <1>5, <2>2
    <3>2. CASE l.type = "lock" /\ Posted(l, held + l.amount, supply)
      BY SMTT(30), <2>2, <3>1, <3>2 DEF Posted
    <3>3. CASE l.type = "unlock" /\ Posted(l, held - l.amount, supply)
      BY <2>2, <3>1, <3>3 DEF Posted
    <3>4. CASE l.type \in {"mint", "burn"} /\ h = held
      BY Zenon, <3>1, <3>4
    <3> QED BY Zenon, <1>1, <2>2, <3>2, <3>3, <3>4 DEF Posted
  <2>4. ASSUME NEW token \in Tokens
        PROVE  balances'[token][Bank] + Logged("unlock", token)' >= Logged("lock", token)'
    <3>1. token \in Assets
      BY Zenon DEF Assets
    <3>2. balances[token][Bank] + Logged("unlock", token) >= Logged("lock", token)
      BY Zenon DEF FundsInv, DepositsBacked
    <3>3. CASE token = l.token
      <4>1. PICK i \in Nat, j \in Nat : /\ Logged("lock", l.token)' = L + i
                                        /\ Logged("unlock", l.token)' = U + j
                                        /\ h + j = held + i
        BY Zenon, <2>3
      <4>2. held + U >= L
        BY Zenon, <1>1, <2>2, <3>2, <3>3
      <4> QED BY <2>2, <3>3, <4>1, <4>2
    <3>4. CASE token # l.token
      BY Zenon, <2>1, <3>1, <3>2, <3>4
    <3> QED BY Zenon, <3>3, <3>4
  <2>5. balances'[Zero][Bank] + Logged("unlock", Zero)' = Logged("lock", Zero)'
    <3>1. Zero \in Assets
      BY Zenon DEF Assets
    <3>2. balances[Zero][Bank] + Logged("unlock", Zero) = Logged("lock", Zero)
      BY Zenon DEF FundsInv, DepositsBacked
    <3>3. CASE Zero = l.token
      <4>1. PICK i \in Nat, j \in Nat : /\ Logged("lock", l.token)' = L + i
                                        /\ Logged("unlock", l.token)' = U + j
                                        /\ h + j = held + i
        BY Zenon, <2>3
      <4>2. held + U = L
        BY Zenon, <1>1, <2>2, <3>2, <3>3
      <4> QED BY <2>2, <3>3, <4>1, <4>2
    <3>4. CASE Zero # l.token
      BY Zenon, <2>1, <3>1, <3>2, <3>4
    <3> QED BY Zenon, <3>3, <3>4
  <2> QED BY Zenon, <2>4, <2>5 DEF DepositsBacked
<1>8. SupplyLogged'
  <2> SUFFICES ASSUME NEW token \in Assets
               PROVE  Weight(Holders, balances'[token]) + Logged("burn", token)'
                        = Weight(Users, InitialBalances[token]) + Logged("mint", token)'
    BY Zenon DEF SupplyLogged
  <2>1. Weight(Holders, balances[token]) + Logged("burn", token)
          = Weight(Users, InitialBalances[token]) + Logged("mint", token)
    BY Zenon DEF FundsInv, SupplyLogged
  <2>2. CASE token # l.token
    BY Zenon, <1>2, <1>6, <2>1, <2>2
  <2>3. CASE token = l.token
    <3>1. Weight(Users, InitialBalances[token]) \in Nat
      BY Zenon, InitialSupply
    <3>2. PICK m \in Nat : m = Weight(Users, InitialBalances[token])
      BY Zenon, <3>1
    <3>3. supply + Logged("burn", token) = m + Logged("mint", token)
      BY Zenon, <1>1, <2>1, <2>3, <3>2
    <3>4. PICK n, B, M \in Nat :
            n = l.amount /\ B = Logged("burn", token) /\ M = Logged("mint", token)
      BY Zenon, <1>3, <1>5
    <3>5. /\ Logged("burn", token)' = B + (IF l.type = "burn" THEN n ELSE 0)
          /\ Logged("mint", token)' = M + (IF l.type = "mint" THEN n ELSE 0)
      BY Zenon, <1>5, <2>3, <3>4
    <3>6. CASE l.type = "mint" /\ Posted(l, held, supply + l.amount)
      <4>1. Weight(Holders, balances'[token]) = supply + n
        BY Zenon, <2>3, <3>4, <3>6 DEF Posted
      <4>2. Logged("burn", token)' = B /\ Logged("mint", token)' = M + n
        BY <3>5, <3>6
      <4>3. supply + n + B = m + (M + n)
        BY <3>3, <3>4
      <4> QED BY Zenon, <3>2, <4>1, <4>2, <4>3
    <3>7. CASE l.type = "burn" /\ Posted(l, held, supply - l.amount)
      <4>1. Weight(Holders, balances'[token]) = supply - n
        BY Zenon, <2>3, <3>4, <3>7 DEF Posted
      <4>2. Logged("burn", token)' = B + n /\ Logged("mint", token)' = M
        BY <3>5, <3>7
      <4>3. supply - n + (B + n) = m + M
        BY <3>3, <3>4
      <4> QED BY Zenon, <3>2, <4>1, <4>2, <4>3
    <3>8. CASE l.type \in {"lock", "unlock"} /\ Weight(Holders, balances'[l.token]) = supply
      BY <2>3, <3>2, <3>3, <3>4, <3>5, <3>8
    <3> QED BY Zenon, <1>1, <3>6, <3>7, <3>8 DEF Posted
  <2> QED BY Zenon, <2>2, <2>3
<1> QED BY Zenon, <1>2, <1>4, <1>7, <1>8 DEF FundsInv

\* Transfers outside the bank and steps that touch no funds.
LEMMA TransferKeepsFunds ==
  ASSUME FundsInv, Transfer
  PROVE  FundsInv'
<1>1. PICK token \in Tokens, from \in Users, to \in Holders, amount \in Amounts :
        /\ balances[token][from] >= amount
        /\ balances' = Credit(Debit(balances, token, from, amount), token, to, amount)
        /\ logs' = logs
  BY Zenon DEF Transfer
<1>2. /\ token \in Assets /\ from \in Holders /\ from # Bank /\ Bank \in Holders
      /\ amount \in Nat /\ token # Zero
  BY Zenon, BankAssumption DEF Assets, Holders
<1>3. balances[token][from] \in Nat /\ balances[token][Bank] \in Nat
  BY Zenon, <1>2, BalanceType DEF FundsInv
<1>4. Moved(balances', balances, token, from, to, amount)
  <2>1. amount <= balances[token][from] /\ balances \in Balances
    BY Zenon, <1>1, <1>2, <1>3 DEF FundsInv
  <2> QED BY Zenon, <1>1, <1>2, <2>1, MoveHolds
<1>5. balances'[token][Bank] >= balances[token][Bank]
  <2>1. balances'[token][Bank] = balances[token][Bank] - 0 + (IF Bank = to THEN amount ELSE 0)
    BY Zenon, <1>2, <1>4 DEF Moved
  <2> QED BY <1>2, <1>3, <2>1
<1>6. \A type, t : Logged(type, t)' = Logged(type, t) /\ Logged(type, t) \in Nat
  <2>1. \A type, t : Logged(type, t)' = Logged(type, t)
    BY Zenon, <1>1 DEF Logged
  <2>2. \A type, t : Logged(type, t) \in Nat
    BY Zenon, LoggedType DEF FundsInv
  <2> QED BY Zenon, <2>1, <2>2
<1>7. DepositsBacked'
  <2>1. ASSUME NEW t \in Tokens
        PROVE  balances'[t][Bank] + Logged("unlock", t)' >= Logged("lock", t)'
    <3>1. balances[t][Bank] + Logged("unlock", t) >= Logged("lock", t)
      BY Zenon DEF FundsInv, DepositsBacked
    <3>2. balances'[t][Bank] >= balances[t][Bank] /\ balances[t][Bank] \in Nat /\ balances'[t][Bank] \in Nat
      BY <1>2, <1>4, <1>5, BalanceType DEF FundsInv, Assets, Moved, Holders
    <3> QED BY <1>6, <3>1, <3>2
  <2>2. balances'[Zero][Bank] = balances[Zero][Bank]
    BY Zenon, <1>2, <1>4 DEF Assets, Moved
  <2> QED BY Zenon, <1>6, <2>1, <2>2 DEF FundsInv, DepositsBacked
<1>8. SupplyLogged'
  BY Zenon, <1>4, <1>6 DEF FundsInv, SupplyLogged, Moved
<1> QED BY Zenon, <1>1, <1>4, <1>7, <1>8 DEF FundsInv, Moved

LEMMA IdleKeepsFunds ==
  ASSUME FundsInv, UNCHANGED <<balances, logs>>
  PROVE  FundsInv'
<1>1. \A type, t : Logged(type, t)' = Logged(type, t)
  BY Zenon DEF Logged
<1>2. DepositsBacked'
  BY Zenon, <1>1 DEF FundsInv, DepositsBacked
<1>3. SupplyLogged'
  BY Zenon, <1>1 DEF FundsInv, SupplyLogged
<1> QED BY Zenon, <1>2, <1>3 DEF FundsInv

----------------------------------------------------------------------------
(* The tables.                                                              *)

\* A lower case symbol leads to one that it is the lower case of.
UpperOK(table) ==
  /\ table \in [Symbols -> Symbols \cup {NoSymbol}]
  /\ \A s \in Symbols : table[s] = NoSymbol \/ toLower[table[s]] = s

\* A symbol leads to a bridge token of that symbol, which can be burned.
BridgeOK(tokens, list) ==
  /\ tokens \in [Symbols -> Assets]
  /\ list \subseteq Assets
  /\ \A s \in Symbols : tokens[s] = Zero \/ (symbolOf[tokens[s]] = s /\ tokens[s] \in list)

\* A symbol leads to a locked token of that symbol.
LockedOK(table) ==
  /\ table \in [Symbols -> Assets]
  /\ \A s \in Symbols : table[s] = Zero \/ symbolOf[table[s]] = s

TablesInv ==
  /\ ethWhiteList \subseteq Assets
  /\ UpperOK(lowerToUpperTokens)
  /\ BridgeOK(controlledBridgeTokens, cosmosWhiteList)
  /\ LockedOK(lockedTokenList)

LEMMA UpperSet ==
  ASSUME UpperOK(lowerToUpperTokens), NEW s \in Symbols
  PROVE  UpperOK(WithUpper(s))
BY BankAssumption DEF UpperOK, WithUpper

LEMMA UpperList ==
  ASSUME UpperOK(lowerToUpperTokens), NEW tokens \in Seq(Tokens), NEW table,
         table = [s \in Symbols |-> IF LastWith(tokens, s) = {}
                                    THEN lowerToUpperTokens[s]
                                    ELSE symbolOf[tokens[CHOOSE i \in LastWith(tokens, s) : TRUE]]]
  PROVE  UpperOK(table)
<1>1. ASSUME NEW s \in Symbols
      PROVE  table[s] \in Symbols \cup {NoSymbol} /\ (table[s] = NoSymbol \/ toLower[table[s]] = s)
  <2>1. CASE LastWith(tokens, s) = {}
    BY Zenon, <2>1 DEF UpperOK
  <2>2. CASE LastWith(tokens, s) # {}
    <3>1. PICK i : i = CHOOSE k \in LastWith(tokens, s) : TRUE
      BY Zenon
    <3>2. i \in LastWith(tokens, s)
      BY Zenon, <2>2, <3>1
    <3>3. i \in DOMAIN tokens /\ toLower[symbolOf[tokens[i]]] = s
      BY Zenon, <3>2 DEF LastWith
    <3>4. tokens[i] \in Tokens
      BY <3>3
    <3>5. symbolOf[tokens[i]] \in Symbols
      BY Zenon, <3>4, BankAssumption
    <3>6. table[s] = symbolOf[tokens[i]]
      BY Zenon, <2>2, <3>1
    <3> QED BY Zenon, <3>3, <3>5, <3>6
  <2> QED BY Zenon, <2>1, <2>2
<1>2. table = [s \in Symbols |-> table[s]]
  OBVIOUS
<1> QED BY Zenon, <1>1, <1>2 DEF UpperOK

LEMMA BridgeSet ==
  ASSUME BridgeOK(controlledBridgeTokens, cosmosWhiteList), NEW t \in Tokens,
         NEW tokens, tokens = [controlledBridgeTokens EXCEPT ![symbolOf[t]] = t]
  PROVE  BridgeOK(tokens, cosmosWhiteList \cup {t})
<1>1. symbolOf[t] \in Symbols /\ t \in Assets
  BY Zenon, BankAssumption DEF Assets
<1> QED BY Zenon, <1>1 DEF BridgeOK

LEMMA LockedSet ==
  ASSUME LockedOK(lockedTokenList), NEW s \in Symbols, NEW t \in Assets,
         t = Zero \/ symbolOf[t] = s,
         NEW table, table = [lockedTokenList EXCEPT ![s] = t]
  PROVE  LockedOK(table)
BY Zenon DEF LockedOK

\* The symbol a prophecy's symbol stands for.
LEMMA UpperSymbol ==
  ASSUME NEW table, UpperOK(table), NEW s \in Symbols
  PROVE  safeLowerToUpper(table, s) \in Symbols
BY Zenon DEF UpperOK, safeLowerToUpper

----------------------------------------------------------------------------
(* Nonces.                                                                  *)

\* The nonces of deposits grow and the last one is lockBurnNonce.
NoncesInv ==
  /\ lockBurnNonce \in Nat
  /\ logs \in Seq(Logs)
  /\ \A i \in DOMAIN logs : logs[i].type \in {"lock", "burn"} => logs[i].nonce <= lockBurnNonce
  /\ NoncesIdentifyDeposits

\* A deposit gets the next nonce; mints and unlocks have none.
LEMMA NoncesAppend ==
  ASSUME NoncesInv, NEW l \in Logs, logs' = Append(logs, l),
         \/ l.nonce = lockBurnNonce + 1 /\ lockBurnNonce' = lockBurnNonce + 1
         \/ l.type \notin {"lock", "burn"} /\ lockBurnNonce' = lockBurnNonce
  PROVE  NoncesInv'
<1> DEFINE k == Len(logs) + 1
<1>1. /\ logs' \in Seq(Logs)
      /\ DOMAIN logs' = DOMAIN logs \cup {k}
      /\ \A i \in DOMAIN logs : i < k /\ ~(k < i) /\ logs'[i] = logs[i]
      /\ ~(k < k)
      /\ logs'[k] = l
  BY DEF NoncesInv
<1>2. lockBurnNonce' \in Nat /\ lockBurnNonce <= lockBurnNonce'
  BY DEF NoncesInv
<1>3. \A i \in DOMAIN logs : logs[i] \in Logs
  BY DEF NoncesInv
<1>4. \A i \in DOMAIN logs : logs[i].nonce \in Nat
  BY Zenon, <1>3 DEF Logs
<1>5. l.nonce \in Nat
  BY Zenon DEF Logs
<1>6. \A i \in DOMAIN logs : logs[i].type \in {"lock", "burn"} => logs[i].nonce <= lockBurnNonce'
  BY <1>2, <1>4 DEF NoncesInv
<1>7. l.type \in {"lock", "burn"} => l.nonce <= lockBurnNonce'
  BY <1>5
<1>8. \A i \in DOMAIN logs' : logs'[i].type \in {"lock", "burn"} => logs'[i].nonce <= lockBurnNonce'
  BY Zenon, <1>1, <1>6, <1>7
<1>9. \A i \in DOMAIN logs :
        {logs[i].type, l.type} \subseteq {"lock", "burn"} => logs[i].nonce < l.nonce
  BY <1>4, <1>5 DEF NoncesInv
<1>10. ASSUME NEW i \in DOMAIN logs', NEW j \in DOMAIN logs', i < j,
              {logs'[i].type, logs'[j].type} \subseteq {"lock", "burn"}
       PROVE  logs'[i].nonce < logs'[j].nonce
  <2>1. i \in DOMAIN logs
    BY Zenon, <1>1, <1>10
  <2>2. CASE j = k
    BY Zenon, <1>1, <1>9, <1>10, <2>1, <2>2
  <2>3. CASE j \in DOMAIN logs
    BY SMTT(30), <1>1, <1>10, <2>1, <2>3 DEF NoncesInv, NoncesIdentifyDeposits
  <2> QED BY Zenon, <1>1, <2>2, <2>3
<1>11. NoncesIdentifyDeposits'
  BY Zenon, <1>10 DEF NoncesIdentifyDeposits
<1> QED BY Zenon, <1>1, <1>2, <1>8, <1>11 DEF NoncesInv

LEMMA NextNonceType ==
  ASSUME NoncesInv
  PROVE  NextNonce = lockBurnNonce + 1 /\ NextNonce \in Nat
<1>1. lockBurnNonce \in Nat
  BY Zenon DEF NoncesInv
<1> QED BY <1>1 DEF NextNonce

LEMMA NoncesIdle ==
  ASSUME NoncesInv, UNCHANGED <<lockBurnNonce, logs>>
  PROVE  NoncesInv'
BY Zenon DEF NoncesInv, NoncesIdentifyDeposits

----------------------------------------------------------------------------
(* The invariant.                                                           *)

RolesInv ==
  /\ bankOperator \in Admins /\ owner \in Admins
  /\ pausers \subseteq Admins \cup {InitialPauser} /\ paused \in BOOLEAN
  /\ blocked \subseteq Users

BankInv == RolesInv /\ TablesInv /\ FundsInv /\ NoncesInv

\* It implies the properties.
LEMMA BankInvImplies ==
  BankInv => /\ BankTypeOK
             /\ DepositsBacked
             /\ SupplyLogged
             /\ NoncesIdentifyDeposits
             /\ TablesConsistent
<1> SUFFICES ASSUME BankInv
             PROVE  /\ BankTypeOK
                    /\ DepositsBacked
                    /\ SupplyLogged
                    /\ NoncesIdentifyDeposits
                    /\ TablesConsistent
  BY Zenon
<1>1. BankTypeOK
  BY Zenon DEF BankInv, RolesInv, TablesInv, FundsInv, NoncesInv, BankTypeOK, UpperOK, BridgeOK, LockedOK, Balances
<1>2. TablesConsistent
  BY Zenon DEF BankInv, TablesInv, TablesConsistent, UpperOK, BridgeOK, LockedOK
<1> QED BY Zenon, <1>1, <1>2 DEF BankInv, FundsInv, NoncesInv

\* The constructor establishes it.
LEMMA BankInitInv == BankInit => BankInv
<1> SUFFICES ASSUME BankInit PROVE BankInv
  BY Zenon
<1>1. RolesInv
  BY Zenon DEF BankInit, RolesInv
<1>2. TablesInv
  <2>1. UpperOK(lowerToUpperTokens)
    BY Zenon, BankAssumption DEF BankInit, UpperOK
  <2> QED BY Zenon, <2>1 DEF BankInit, TablesInv, BridgeOK, LockedOK, Assets
<1>3. NoncesInv
  BY DEF BankInit, NoncesInv, NoncesIdentifyDeposits
<1>4. FundsInv
  <2>1. balances \in Balances
    BY BankAssumption DEF BankInit, Balances, Holders
  <2>2. \A type, token : Logged(type, token) = 0
    <3>1. \A type, token : {i \in DOMAIN logs : logs[i].type = type /\ logs[i].token = token} = {}
      BY DEF BankInit
    <3> QED BY Zenon, <3>1, WeightEmpty DEF Logged
  <2>3. DepositsBacked
    BY <2>2, BankAssumption DEF BankInit, DepositsBacked, Assets, Holders
  <2>4. ASSUME NEW token \in Assets
        PROVE  Weight(Holders, balances[token]) = Weight(Users, InitialBalances[token])
    <3>1. PICK w, v, T : w = balances[token] /\ v = InitialBalances[token] /\ T = {Bank}
      BY Zenon
    <3>2. /\ \A u \in Users : w[u] = v[u]
          /\ \A h \in Users \cup T : w[h] \in Nat
          /\ w[Bank] = 0
          /\ IsFiniteSet(Users) /\ IsFiniteSet(T) /\ Users \cap T = {}
      <4>1. \A h \in Holders : w[h] = IF h = Bank THEN 0 ELSE v[h]
        BY Zenon, <3>1 DEF BankInit
      <4>2. \A u \in Users : u \in Holders /\ u # Bank /\ v[u] \in Nat
        BY <3>1, BankAssumption DEF Holders
      <4>3. IsFiniteSet(Users) /\ IsFiniteSet(T) /\ Users \cap T = {}
        <5>1. IsFiniteSet(Users) /\ Bank \notin Users
          BY Zenon, BankAssumption
        <5>2. IsFiniteSet(T)
          BY Zenon, <3>1, FS_Singleton
        <5> QED BY Zenon, <3>1, <5>1, <5>2
      <4>4. w[Bank] = 0
        BY Zenon, <4>1 DEF Holders
      <4>5. \A u \in Users : w[u] = v[u] /\ w[u] \in Nat
        BY Zenon, <4>1, <4>2
      <4>6. \A h \in Users \cup T : w[h] \in Nat
        BY <3>1, <4>4, <4>5
      <4> QED BY Zenon, <4>3, <4>4, <4>5, <4>6
    <3>3. Weight(Users \cup T, w) = Weight(Users, w) + Weight(T, w)
      BY <3>2, WeightDisjointUnion
    <3>4. Weight(T, w) = 0
      BY Zenon, <3>1, <3>2, WeightSingleton
    <3>5. Weight(Users, w) = Weight(Users, v)
      BY Zenon, <3>2, WeightCongruence
    <3>6. Weight(Users, w) \in Nat
      BY Zenon, <3>2, WeightType
    <3> QED BY <3>1, <3>3, <3>4, <3>5, <3>6 DEF Holders
  <2>5. SupplyLogged
    BY Zenon, <2>2, <2>4, InitialSupply DEF SupplyLogged
  <2> QED BY <2>1, <2>3, <2>5 DEF FundsInv, BankInit
<1> QED BY Zenon, <1>1, <1>2, <1>3, <1>4 DEF BankInv

----------------------------------------------------------------------------
(* The steps.                                                               *)

\* What a deposit, a mint or an unlock does to funds and nonces.
LEMMA PostingKeepsInv ==
  ASSUME FundsInv, NoncesInv, NEW l \in Logs, Posting(l),
         \/ l.nonce = lockBurnNonce + 1 /\ lockBurnNonce' = lockBurnNonce + 1
         \/ l.type \notin {"lock", "burn"} /\ lockBurnNonce' = lockBurnNonce
  PROVE  FundsInv' /\ NoncesInv'
<1>1. logs' = Append(logs, l)
  BY Zenon DEF Posting, Posted
<1> QED BY Zenon, <1>1, PostKeepsFunds, NoncesAppend

\* The bank's part of an asset and its supply are numbers.
LEMMA HeldAndSupply ==
  ASSUME FundsInv, NEW t \in Assets
  PROVE  balances[t][Bank] \in Nat /\ Weight(Holders, balances[t]) \in Nat
<1>1. Bank \in Holders
  BY Zenon DEF Holders
<1>2. \A h \in Holders : balances[t][h] \in Nat
  BY Zenon, BalanceType DEF FundsInv
<1> QED BY Zenon, <1>1, <1>2, HoldersFinite, WeightType

\* A lock brings what it logs.
LEMMA LockPosts ==
  ASSUME FundsInv, NoncesInv, NEW sender \in Users, NEW s \in Symbols, NEW token \in Assets,
         NEW amount \in Nat, balances[token][sender] >= amount,
         balances' = Credit(Debit(balances, token, sender, amount), token, Bank, amount),
         lockFunds(sender, token, s, amount)
  PROVE  FundsInv' /\ NoncesInv'
<1>1. PICK l : l = Log("lock", token, s, sender, amount, NextNonce)
  BY Zenon
<1>2. /\ l \in Logs /\ l.type = "lock" /\ l.token = token /\ l.amount = amount
      /\ l.nonce = lockBurnNonce + 1
  <2>1. NextNonce = lockBurnNonce + 1 /\ NextNonce \in Nat
    BY Zenon, NextNonceType
  <2>2. PICK k \in Nat : k = NextNonce
    BY Zenon, <2>1
  <2>3. l = Log("lock", token, s, sender, amount, k)
    BY Zenon, <1>1, <2>2
  <2> QED BY SMTT(30), <2>1, <2>2, <2>3, LogFields
<1>3. sender \in Holders /\ Bank \in Holders /\ sender # Bank
  BY Zenon, BankAssumption DEF Holders
<1>4. balances[token][sender] \in Nat
  BY Zenon, <1>3, BalanceType DEF FundsInv
<1>5. PICK held \in Nat, supply \in Nat :
        held = balances[token][Bank] /\ supply = Weight(Holders, balances[token])
  BY Zenon, HeldAndSupply
<1>6. Moved(balances', balances, token, sender, Bank, amount)
  <2>1. amount <= balances[token][sender] /\ balances \in Balances
    BY Zenon, <1>4 DEF FundsInv
  <2> QED BY Zenon, <1>3, <2>1, MoveHolds
<1>7. balances'[token][Bank] = held + amount
  <2>1. balances'[token][Bank] = held - 0 + amount
    BY Zenon, <1>3, <1>5, <1>6 DEF Moved
  <2> QED BY <2>1
<1>8. logs' = Append(logs, l) /\ lockBurnNonce' = lockBurnNonce + 1
  BY Zenon, <1>1 DEF lockFunds, NextNonce
<1>9. Posted(l, held + l.amount, supply)
  BY Zenon, <1>2, <1>5, <1>6, <1>7, <1>8 DEF Posted, Moved
<1>10. Posting(l)
  BY Zenon, <1>2, <1>5, <1>9 DEF Posting
<1> QED BY Zenon, <1>2, <1>8, <1>10, PostingKeepsInv

\* An unlock takes what it logs.
LEMMA UnlockPosts ==
  ASSUME FundsInv, NoncesInv, TablesInv, NEW recipient \in Users, NEW _symbol \in Symbols,
         NEW amount \in Nat, Unlock(recipient, _symbol, amount), lockBurnNonce' = lockBurnNonce
  PROVE  FundsInv' /\ NoncesInv'
<1>1. PICK s, token : s = safeLowerToUpper(lowerToUpperTokens, _symbol) /\ token = lockedTokenList[s]
  BY Zenon
<1>2. s \in Symbols
  BY Zenon, <1>1, UpperSymbol DEF TablesInv
<1>3. token \in Assets
  BY Zenon, <1>1, <1>2 DEF TablesInv, LockedOK
<1>4. PICK l : l = Log("unlock", token, s, recipient, amount, 0)
  BY Zenon
<1>5. l \in Logs /\ l.type = "unlock" /\ l.token = token /\ l.amount = amount
  BY <1>2, <1>3, <1>4, LogFields
<1>6. recipient \in Holders /\ Bank \in Holders /\ recipient # Bank
  BY Zenon, BankAssumption DEF Holders
<1>7. PICK held \in Nat, supply \in Nat :
        held = balances[token][Bank] /\ supply = Weight(Holders, balances[token])
  BY Zenon, <1>3, HeldAndSupply
<1>8. /\ balances[token][Bank] >= amount
      /\ balances' = Credit(Debit(balances, token, Bank, amount), token, recipient, amount)
      /\ logs' = Append(logs, l)
  BY Zenon, <1>1, <1>4 DEF Unlock, Affordable
<1>9. amount <= balances[token][Bank]
  BY Zenon, <1>7, <1>8
<1>10. Moved(balances', balances, token, Bank, recipient, amount)
  <2>1. balances \in Balances
    BY Zenon DEF FundsInv
  <2> QED BY Zenon, <1>3, <1>6, <1>8, <1>9, <2>1, MoveHolds
<1>11. balances'[token][Bank] = held - amount
  <2>1. balances'[token][Bank] = held - amount + 0
    BY Zenon, <1>6, <1>7, <1>10 DEF Moved
  <2> QED BY <2>1
<1>12. Posted(l, held - l.amount, supply)
  BY Zenon, <1>5, <1>7, <1>8, <1>10, <1>11 DEF Posted, Moved
<1>13. Posting(l)
  BY Zenon, <1>5, <1>7, <1>12 DEF Posting
<1> QED BY Zenon, <1>5, <1>13, PostingKeepsInv

\* A burn destroys what it logs.
LEMMA BurnPosts ==
  ASSUME FundsInv, NoncesInv, NEW sender \in Users, NEW recipient, NEW token \in Assets,
         NEW amount \in Nat, burn(sender, recipient, token, amount)
  PROVE  FundsInv' /\ NoncesInv'
<1>1. token \in Tokens /\ symbolOf[token] \in Symbols
  BY Zenon, BankAssumption DEF burn
<1>2. PICK l : l = Log("burn", token, symbolOf[token], sender, amount, NextNonce)
  BY Zenon
<1>3. /\ l \in Logs /\ l.type = "burn" /\ l.token = token /\ l.amount = amount
      /\ l.nonce = lockBurnNonce + 1
  <2>1. NextNonce = lockBurnNonce + 1 /\ NextNonce \in Nat
    BY Zenon, NextNonceType
  <2> QED BY <1>1, <1>2, <2>1, LogFields
<1>4. sender \in Holders /\ Bank \in Holders /\ sender # Bank
  BY Zenon, BankAssumption DEF Holders
<1>5. PICK had \in Nat : had = balances[token][sender]
  BY Zenon, <1>4, BalanceType DEF FundsInv
<1>6. PICK held \in Nat, supply \in Nat :
        held = balances[token][Bank] /\ supply = Weight(Holders, balances[token])
  BY Zenon, HeldAndSupply
<1>7. amount <= had
  BY Zenon, <1>5 DEF burn
<1>8. balances' = Debit(balances, token, sender, amount)
  BY Zenon DEF burn, burnFrom
<1>9. logs' = Append(logs, l) /\ lockBurnNonce' = lockBurnNonce + 1
  BY Zenon, <1>2 DEF burn, burnFunds, NextNonce
<1>10. Holds(balances', balances, token, sender, had - amount)
  BY Zenon, <1>4, <1>5, <1>7, <1>8, DebitHolds DEF FundsInv
<1>11. Weight(Holders, balances'[token]) = supply - had + (had - amount)
  <2>1. PICK x \in Nat : x = had - amount
    BY SMTT(30), <1>5, <1>7
  <2>2. Holds(balances', balances, token, sender, x) /\ balances \in Balances
    BY Zenon, <1>10, <2>1 DEF FundsInv
  <2>3. Weight(Holders, balances'[token]) = Weight(Holders, balances[token]) - balances[token][sender] + x
    BY SMTT(30), <1>4, <2>2, SupplyChanges
  <2> QED BY Zenon, <1>5, <1>6, <2>1, <2>3
<1>12. Weight(Holders, balances'[token]) = supply - amount
  BY <1>11
<1>13. /\ balances' \in Balances
       /\ \A u \in Assets \ {token} : balances'[u] = balances[u]
       /\ balances'[token][Bank] = held
  BY Zenon, <1>4, <1>6, <1>10 DEF Holds
<1>14. Posted(l, held, supply - l.amount)
  BY Zenon, <1>3, <1>12, <1>13, <1>9 DEF Posted
<1>15. Posting(l)
  BY Zenon, <1>3, <1>6, <1>14 DEF Posting
<1> QED BY Zenon, <1>3, <1>15, <1>9, PostingKeepsInv

\* A mint creates what it logs.
LEMMA MintPosts ==
  ASSUME FundsInv, NoncesInv, NEW recipient \in Users, NEW _symbol \in Symbols, NEW amount \in Nat,
         NEW tokens, NEW uppers, UpperOK(uppers),
         Mint(recipient, _symbol, amount, tokens, uppers), lockBurnNonce' = lockBurnNonce
  PROVE  FundsInv' /\ NoncesInv'
<1>1. PICK s, token : s = safeLowerToUpper(uppers, _symbol) /\ token = tokens[s]
  BY Zenon
<1>2. s \in Symbols
  BY Zenon, <1>1, UpperSymbol
<1>3. token \in Assets
  BY Zenon, <1>1, BankAssumption DEF Mint, Assets
<1>4. PICK l : l = Log("mint", token, s, recipient, amount, 0)
  BY Zenon
<1>5. l \in Logs /\ l.type = "mint" /\ l.token = token /\ l.amount = amount
  BY <1>2, <1>3, <1>4, LogFields
<1>6. recipient \in Holders /\ Bank \in Holders /\ recipient # Bank
  BY Zenon, BankAssumption DEF Holders
<1>7. PICK held \in Nat, supply \in Nat :
        held = balances[token][Bank] /\ supply = Weight(Holders, balances[token])
  BY Zenon, <1>3, HeldAndSupply
<1>8. PICK had \in Nat : had = balances[token][recipient]
  BY Zenon, <1>3, <1>6, BalanceType DEF FundsInv
<1>9. balances' = Credit(balances, token, recipient, amount) /\ logs' = Append(logs, l)
  BY Zenon, <1>1, <1>4 DEF Mint
<1>10. Holds(balances', balances, token, recipient, had + amount)
  BY Zenon, <1>3, <1>6, <1>8, <1>9, CreditHolds DEF FundsInv
<1>11. Weight(Holders, balances'[token]) = supply - had + (had + amount)
  <2>1. PICK x \in Nat : x = had + amount
    BY <1>8
  <2>2. Holds(balances', balances, token, recipient, x) /\ balances \in Balances
    BY Zenon, <1>10, <2>1 DEF FundsInv
  <2>3. Weight(Holders, balances'[token]) = Weight(Holders, balances[token]) - balances[token][recipient] + x
    BY SMTT(30), <1>3, <1>6, <2>2, SupplyChanges
  <2> QED BY Zenon, <1>7, <1>8, <2>1, <2>3
<1>12. Weight(Holders, balances'[token]) = supply + amount
  BY <1>11
<1>13. /\ balances' \in Balances
       /\ \A u \in Assets \ {token} : balances'[u] = balances[u]
       /\ balances'[token][Bank] = held
  BY Zenon, <1>6, <1>7, <1>10 DEF Holds
<1>14. Posted(l, held, supply + l.amount)
  BY Zenon, <1>5, <1>9, <1>12, <1>13 DEF Posted
<1>15. Posting(l)
  BY Zenon, <1>5, <1>7, <1>14 DEF Posting
<1> QED BY Zenon, <1>5, <1>15, PostingKeepsInv

\* Deposits.
LEMMA DepositKeepsInv == BankInv /\ Deposit => BankInv'
<1> SUFFICES ASSUME BankInv, NEW sender \in Users, NEW recipient \in Recipients,
                    NEW token \in Assets, NEW amount \in Amounts,
                    \/ \E value \in Values : lock(sender, recipient, token, amount, value)
                    \/ burn(sender, recipient, token, amount)
             PROVE  BankInv'
  BY Zenon DEF Deposit
<1>1. amount \in Nat
  BY Zenon, BankAssumption
<1>2. ASSUME NEW value \in Values, lock(sender, recipient, token, amount, value) PROVE BankInv'
  <2>1. PICK s : s = IF value > 0 THEN Eth ELSE symbolOf[token]
    BY Zenon
  <2>2. s \in Symbols /\ (token = Zero \/ symbolOf[token] = s)
    BY Zenon, <1>2, <2>1, BankAssumption DEF lock, EtherPaid, Exists, Assets
  <2>3. /\ balances[token][sender] >= amount
        /\ balances' = Credit(Debit(balances, token, sender, amount), token, Bank, amount)
        /\ lockFunds(sender, token, s, amount)
    BY Zenon, <1>2, <2>1 DEF lock, EtherPaid
  <2>4. FundsInv' /\ NoncesInv'
    BY Zenon, <1>1, <2>2, <2>3, LockPosts DEF BankInv
  <2>5. LockedOK(lockedTokenList')
    BY Zenon, <2>2, <2>3, LockedSet DEF lockFunds, BankInv, TablesInv
  <2>6. UNCHANGED <<roleVars, ethWhiteList, cosmosWhiteList, controlledBridgeTokens, lowerToUpperTokens>>
    BY Zenon, <1>2 DEF lock
  <2>7. TablesInv'
    BY Zenon, <2>5, <2>6 DEF BankInv, TablesInv
  <2>8. RolesInv'
    BY Zenon, <2>6 DEF BankInv, RolesInv, roleVars
  <2> QED BY Zenon, <2>4, <2>7, <2>8 DEF BankInv
<1>3. CASE burn(sender, recipient, token, amount)
  <2>1. FundsInv' /\ NoncesInv'
    BY Zenon, <1>1, <1>3, BurnPosts DEF BankInv
  <2>2. UNCHANGED <<roleVars, tableVars>>
    BY Zenon, <1>3 DEF burn
  <2>3. TablesInv' /\ RolesInv'
    BY Zenon, <2>2 DEF BankInv, TablesInv, RolesInv, roleVars, tableVars
  <2> QED BY Zenon, <2>1, <2>3 DEF BankInv
<1> QED BY Zenon, <1>2, <1>3

\* What createNewBridgeToken does to the tables.
LEMMA CreateKeepsTables ==
  ASSUME TablesInv, NEW s \in Symbols, createNewBridgeToken(s),
         UNCHANGED <<ethWhiteList, lockedTokenList>>
  PROVE  TablesInv'
<1>1. PICK t : t = BridgeTokenOf[s]
  BY Zenon
<1>2. t \in Tokens /\ symbolOf[t] = s
  BY Zenon, <1>1, BankAssumption
<1>3. /\ controlledBridgeTokens' = [controlledBridgeTokens EXCEPT ![symbolOf[t]] = t]
      /\ cosmosWhiteList' = cosmosWhiteList \cup {t}
      /\ lowerToUpperTokens' = WithUpper(s)
  BY Zenon, <1>1, <1>2 DEF createNewBridgeToken, WithBridgeToken, setTokenInCosmosWhiteList
<1>4. BridgeOK(controlledBridgeTokens', cosmosWhiteList')
  BY Zenon, <1>2, <1>3, BridgeSet DEF TablesInv
<1>5. UpperOK(lowerToUpperTokens')
  BY Zenon, <1>3, UpperSet DEF TablesInv
<1> QED BY Zenon, <1>4, <1>5 DEF TablesInv

\* A step that leaves the funds alone.
LEMMA IdleKeepsInv ==
  ASSUME BankInv, UNCHANGED fundVars, RolesInv', TablesInv'
  PROVE  BankInv'
<1>1. UNCHANGED <<balances, logs>> /\ UNCHANGED <<lockBurnNonce, logs>>
  BY Zenon DEF fundVars
<1> QED BY Zenon, <1>1, IdleKeepsFunds, NoncesIdle DEF BankInv

LEMMA RolesIdle ==
  ASSUME RolesInv, UNCHANGED roleVars
  PROVE  RolesInv'
BY Zenon DEF RolesInv, roleVars

LEMMA TablesIdle ==
  ASSUME TablesInv, UNCHANGED tableVars
  PROVE  TablesInv'
BY Zenon DEF TablesInv, tableVars

\* The calls of the bridge.
LEMMA BridgeCallsKeepInv == BankInv /\ BridgeCalls => BankInv'
<1> SUFFICES ASSUME BankInv, BridgeCalls PROVE BankInv'
  BY Zenon
<1>1. PICK _symbol \in ProphecySymbols :
        \/ \E recipient \in Users, amount \in Amounts :
             mintBridgeTokens(recipient, _symbol, amount) \/ unlock(recipient, _symbol, amount)
        \/ LET s == safeLowerToUpper(lowerToUpperTokens, _symbol)
           IN  /\ controlledBridgeTokens[s] = Zero
               /\ createNewBridgeToken(s)
               /\ UNCHANGED <<roleVars, ethWhiteList, lockedTokenList, fundVars>>
  BY Zenon DEF BridgeCalls
<1>2. _symbol \in Symbols /\ Amounts \subseteq Nat
  BY Zenon, BankAssumption
<1>3. ASSUME NEW recipient \in Users, NEW amount \in Amounts, mintBridgeTokens(recipient, _symbol, amount)
      PROVE  BankInv'
  <2>1. /\ Mint(recipient, _symbol, amount, controlledBridgeTokens, lowerToUpperTokens)
        /\ UNCHANGED roleVars /\ UNCHANGED tableVars /\ lockBurnNonce' = lockBurnNonce
    BY Zenon, <1>3 DEF mintBridgeTokens
  <2>2. FundsInv' /\ NoncesInv'
    BY Zenon, <1>2, <2>1, MintPosts DEF BankInv, TablesInv
  <2> QED BY Zenon, <2>1, <2>2, RolesIdle, TablesIdle DEF BankInv
<1>4. ASSUME NEW recipient \in Users, NEW amount \in Amounts, unlock(recipient, _symbol, amount)
      PROVE  BankInv'
  <2>1. /\ Unlock(recipient, _symbol, amount)
        /\ UNCHANGED roleVars /\ UNCHANGED tableVars /\ lockBurnNonce' = lockBurnNonce
    BY Zenon, <1>4 DEF unlock
  <2>2. FundsInv' /\ NoncesInv'
    BY Zenon, <1>2, <2>1, UnlockPosts DEF BankInv
  <2> QED BY Zenon, <2>1, <2>2, RolesIdle, TablesIdle DEF BankInv
<1>5. ASSUME NEW s, s = safeLowerToUpper(lowerToUpperTokens, _symbol), createNewBridgeToken(s),
             UNCHANGED <<roleVars, ethWhiteList, lockedTokenList, fundVars>>
      PROVE  BankInv'
  <2>1. s \in Symbols
    BY Zenon, <1>2, <1>5, UpperSymbol DEF BankInv, TablesInv
  <2>2. TablesInv'
    BY Zenon, <1>5, <2>1, CreateKeepsTables DEF BankInv
  <2> QED BY Zenon, <1>5, <2>2, RolesIdle, IdleKeepsInv DEF BankInv
<1> QED BY Zenon, <1>1, <1>3, <1>4, <1>5

\* Listing tokens.
LEMMA ListingKeepsInv ==
  ASSUME BankInv, NEW sender,
         \/ \E token \in Tokens, inList \in BOOLEAN : updateEthWhiteList(sender, token, inList)
         \/ \E tokens \in TokenLists : bulkWhitelistUpdateLimits(sender, tokens)
         \/ \E token \in Tokens : addExistingBridgeToken(sender, token)
  PROVE  BankInv'
<1>1. ASSUME NEW token \in Tokens, NEW inList \in BOOLEAN, updateEthWhiteList(sender, token, inList)
      PROVE  BankInv'
  <2>1. symbolOf[token] \in Symbols /\ token \in Assets
    BY Zenon, BankAssumption DEF Assets
  <2>2. /\ lowerToUpperTokens' = WithUpper(symbolOf[token])
        /\ ethWhiteList' \subseteq ethWhiteList \cup {token}
        /\ UNCHANGED roleVars /\ UNCHANGED fundVars
        /\ UNCHANGED <<cosmosWhiteList, lockedTokenList, controlledBridgeTokens>>
    BY Zenon, <1>1 DEF updateEthWhiteList, setTokenInEthWhiteList
  <2>3. UpperOK(lowerToUpperTokens')
    BY Zenon, <2>1, <2>2, UpperSet DEF BankInv, TablesInv
  <2>4. TablesInv'
    BY Zenon, <2>1, <2>2, <2>3 DEF BankInv, TablesInv
  <2> QED BY Zenon, <2>2, <2>4, RolesIdle, IdleKeepsInv DEF BankInv
<1>2. ASSUME NEW tokens \in TokenLists, bulkWhitelistUpdateLimits(sender, tokens)
      PROVE  BankInv'
  <2>1. tokens \in Seq(Tokens)
    BY Zenon, BankAssumption
  <2>2. {tokens[i] : i \in DOMAIN tokens} \subseteq Assets
    <3>1. \A i \in DOMAIN tokens : tokens[i] \in Tokens
      BY <2>1
    <3> QED BY Zenon, <3>1 DEF Assets
  <2>3. /\ ethWhiteList' = ethWhiteList \cup {tokens[i] : i \in DOMAIN tokens}
        /\ UNCHANGED roleVars /\ UNCHANGED fundVars
        /\ UNCHANGED <<cosmosWhiteList, lockedTokenList, controlledBridgeTokens>>
    BY Zenon, <1>2 DEF bulkWhitelistUpdateLimits
  <2>4. UpperOK(lowerToUpperTokens')
    BY Zenon, <1>2, <2>1, UpperList DEF BankInv, TablesInv, bulkWhitelistUpdateLimits
  <2>5. TablesInv'
    BY Zenon, <2>2, <2>3, <2>4 DEF BankInv, TablesInv
  <2> QED BY Zenon, <2>3, <2>5, RolesIdle, IdleKeepsInv DEF BankInv
<1>3. ASSUME NEW token \in Tokens, addExistingBridgeToken(sender, token)
      PROVE  BankInv'
  <2>1. symbolOf[token] \in Symbols
    BY Zenon, BankAssumption
  <2>2. /\ lowerToUpperTokens' = WithUpper(symbolOf[token])
        /\ cosmosWhiteList' = cosmosWhiteList \cup {token}
        /\ controlledBridgeTokens' = [controlledBridgeTokens EXCEPT ![symbolOf[token]] = token]
        /\ UNCHANGED roleVars /\ UNCHANGED fundVars
        /\ UNCHANGED <<ethWhiteList, lockedTokenList>>
    BY Zenon, <1>3 DEF addExistingBridgeToken, setTokenInCosmosWhiteList
  <2>3. UpperOK(lowerToUpperTokens')
    BY Zenon, <2>1, <2>2, UpperSet DEF BankInv, TablesInv
  <2>4. BridgeOK(controlledBridgeTokens', cosmosWhiteList')
    BY Zenon, <2>2, BridgeSet DEF BankInv, TablesInv
  <2>5. TablesInv'
    BY Zenon, <2>2, <2>3, <2>4 DEF BankInv, TablesInv
  <2> QED BY Zenon, <2>2, <2>5, RolesIdle, IdleKeepsInv DEF BankInv
<1> QED BY Zenon, <1>1, <1>2, <1>3

\* Roles change hands, the bank is paused and gets blocklists.
LEMMA RolesKeepInv ==
  ASSUME BankInv, NEW sender \in Admins,
         \/ \E admin \in Admins : \/ changeOwner(sender, admin)
                                  \/ changeBankOperator(sender, admin)
                                  \/ addPauser(sender, admin)
         \/ togglePause(sender)
         \/ renouncePauser(sender)
         \/ \E accounts \in Blocklists : setBlocklist(sender, accounts)
  PROVE  BankInv'
<1>1. ASSUME UNCHANGED <<tableVars, fundVars>>, RolesInv'
      PROVE  BankInv'
  BY Zenon, <1>1, TablesIdle, IdleKeepsInv DEF BankInv
<1>2. ASSUME NEW admin \in Admins,
             changeOwner(sender, admin) \/ changeBankOperator(sender, admin) \/ addPauser(sender, admin)
      PROVE  BankInv'
  <2>1. UNCHANGED <<tableVars, fundVars>>
    BY Zenon, <1>2 DEF changeOwner, changeBankOperator, addPauser
  <2>2. RolesInv'
    BY Zenon, <1>2 DEF changeOwner, changeBankOperator, addPauser, BankInv, RolesInv
  <2> QED BY Zenon, <1>1, <2>1, <2>2
<1>3. CASE togglePause(sender)
  <2>1. paused' \in BOOLEAN /\ UNCHANGED <<tableVars, fundVars>>
    BY Zenon, <1>3 DEF togglePause
  <2>2. UNCHANGED <<bankOperator, owner, pausers, blocked>>
    BY Zenon, <1>3 DEF togglePause
  <2>3. RolesInv'
    BY Zenon, <2>1, <2>2 DEF BankInv, RolesInv
  <2> QED BY Zenon, <1>1, <2>1, <2>3
<1>4. CASE renouncePauser(sender)
  <2>1. UNCHANGED <<tableVars, fundVars>>
    BY Zenon, <1>4 DEF renouncePauser
  <2>2. RolesInv'
    BY Zenon, <1>4 DEF renouncePauser, BankInv, RolesInv
  <2> QED BY Zenon, <1>1, <2>1, <2>2
<1>5. ASSUME NEW accounts \in Blocklists, setBlocklist(sender, accounts)
      PROVE  BankInv'
  <2>1. UNCHANGED <<tableVars, fundVars>>
    BY Zenon, <1>5 DEF setBlocklist
  <2>2. RolesInv'
    BY Zenon, <1>5, BankAssumption DEF setBlocklist, BankInv, RolesInv
  <2> QED BY Zenon, <1>1, <2>1, <2>2
<1> QED BY Zenon, <1>2, <1>3, <1>4, <1>5

LEMMA AdministerKeepsInv == BankInv /\ Administer => BankInv'
BY Zenon, ListingKeepsInv, RolesKeepInv DEF Administer

\* Every step of the bank preserves the invariant.
LEMMA BankStepInv == BankInv /\ [BankNext]_bankVars => BankInv'
<1> SUFFICES ASSUME BankInv, [BankNext]_bankVars PROVE BankInv'
  BY Zenon
<1>1. CASE Transfer
  <2>1. UNCHANGED roleVars /\ UNCHANGED tableVars /\ UNCHANGED <<lockBurnNonce, logs>>
    BY Zenon, <1>1 DEF Transfer
  <2> QED BY Zenon, <1>1, <2>1, TransferKeepsFunds, NoncesIdle, RolesIdle, TablesIdle DEF BankInv
<1>2. CASE UNCHANGED bankVars
  <2>1. UNCHANGED roleVars /\ UNCHANGED tableVars /\ UNCHANGED fundVars
    BY Zenon, <1>2 DEF bankVars
  <2> QED BY Zenon, <2>1, IdleKeepsInv, RolesIdle, TablesIdle DEF BankInv
<1> QED BY Zenon, <1>1, <1>2, DepositKeepsInv, BridgeCallsKeepInv, AdministerKeepsInv DEF BankNext

LEMMA BankInvariant == BankSpec => []BankInv
BY BankInitInv, BankStepInv, PTL DEF BankSpec

----------------------------------------------------------------------------
(* The theorems.                                                            *)

\* What the bank holds of every asset covers the deposits it has logged and not
\* unlocked, and its logs account for the supply of every token, for any calls of
\* users, administrators and the bridge.
THEOREM FundsAccounted == BankSpec => [](DepositsBacked /\ SupplyLogged)
BY BankInvariant, BankInvImplies, PTL

\* A nonce never identifies two deposits.
THEOREM NoncesAreUnique == BankSpec => []NoncesIdentifyDeposits
BY BankInvariant, BankInvImplies, PTL

\* The tables lead from symbols to contracts with these symbols, however tokens are
\* listed, deployed, added and locked.
THEOREM TablesAreConsistent == BankSpec => [](BankTypeOK /\ TablesConsistent)
BY BankInvariant, BankInvImplies, PTL

----------------------------------------------------------------------------
(* The freeze.                                                              *)

\* Whatever is logged was open to its account.
LEMMA LoggedWhenOpen == BankInv /\ [BankNext]_bankVars => OnlyWhenOpen
<1> SUFFICES ASSUME BankInv, [BankNext]_bankVars, logs' # logs
             PROVE  ~paused /\ logs'[Len(logs')].account \notin blocked
  BY Zenon DEF OnlyWhenOpen
<1>1. logs \in Seq(Logs)
  BY Zenon DEF BankInv, FundsInv
<1>2. ASSUME NEW type, NEW t, NEW s, NEW a, NEW n, NEW k, Open(a),
             logs' = Append(logs, Log(type, t, s, a, n, k))
      PROVE  ~paused /\ logs'[Len(logs')].account \notin blocked
  <2>1. PICK l : l = Log(type, t, s, a, n, k)
    BY Zenon
  <2>2. logs'[Len(logs')] = l
    BY <1>1, <1>2, <2>1
  <2>3. l.account = a
    BY Zenon, <2>1 DEF Log
  <2> QED BY Zenon, <1>2, <2>2, <2>3 DEF Open
<1>3. ASSUME NEW sender, NEW recipient, NEW token, NEW amount, NEW value,
             lock(sender, recipient, token, amount, value)
      PROVE  ~paused /\ logs'[Len(logs')].account \notin blocked
  BY Zenon, <1>2, <1>3 DEF lock, lockFunds
<1>4. ASSUME NEW sender, NEW recipient, NEW token, NEW amount, burn(sender, recipient, token, amount)
      PROVE  ~paused /\ logs'[Len(logs')].account \notin blocked
  BY Zenon, <1>2, <1>4 DEF burn, burnFunds
<1>5. ASSUME NEW recipient, NEW _symbol, NEW amount, mintBridgeTokens(recipient, _symbol, amount)
      PROVE  ~paused /\ logs'[Len(logs')].account \notin blocked
  BY Zenon, <1>2, <1>5 DEF mintBridgeTokens, Mint
<1>6. ASSUME NEW recipient, NEW _symbol, NEW amount, unlock(recipient, _symbol, amount)
      PROVE  ~paused /\ logs'[Len(logs')].account \notin blocked
  BY Zenon, <1>2, <1>6 DEF unlock, Unlock
<1>7. CASE Deposit
  BY Zenon, <1>3, <1>4, <1>7 DEF Deposit
<1>8. CASE BridgeCalls
  BY Zenon, <1>5, <1>6, <1>8 DEF BridgeCalls, fundVars
<1>9. CASE Administer
  BY Zenon, <1>9 DEF Administer, updateEthWhiteList, bulkWhitelistUpdateLimits, addExistingBridgeToken,
              changeOwner, changeBankOperator, addPauser, togglePause, renouncePauser, setBlocklist,
              fundVars
<1>10. ~Transfer /\ ~UNCHANGED bankVars
  BY Zenon DEF Transfer, bankVars, fundVars
<1> QED BY Zenon, <1>7, <1>8, <1>9, <1>10 DEF BankNext

\* Nothing moves through the bank while it is paused, nor for a blocked account.
THEOREM FundsAreFrozen == BankSpec => FundsFrozen
BY BankInvariant, LoggedWhenOpen, PTL DEF BankSpec, FundsFrozen

----------------------------------------------------------------------------
(* What is locked can be unlocked.                                          *)

LockedTokens == {logs[i].token : i \in {j \in DOMAIN logs : logs[j].type = "lock"}}

\* The sets that SymbolsClear is about.
Lockable == ethWhiteList \cup LockedTokens
Used == Lockable \cup cosmosWhiteList

\* The entry of a locked token's symbol is a token of that symbol which was locked.
LocksInv ==
  /\ \A i \in DOMAIN logs :
       logs[i].type = "lock" =>
         /\ logs[i].symbol = SymbolWritten(logs[i].token)
         /\ lockedTokenList[logs[i].symbol] \in LockedTokens
         /\ SymbolWritten(lockedTokenList[logs[i].symbol]) = logs[i].symbol
  /\ \A s \in Symbols : lockedTokenList[s] # Zero => lockedTokenList[s] \in LockedTokens

\* The lower case symbol of a token that can be or was locked leads to the symbol
\* of a token in use.
UppersInv ==
  \A k \in Symbols :
    \/ \E u \in Used : toLower[SymbolWritten(u)] = k /\ lowerToUpperTokens[k] = SymbolWritten(u)
    \/ \A u \in Lockable : toLower[SymbolWritten(u)] # k

ReachInv == LocksInv /\ UppersInv

LEMMA LockableIs == \A t : t \in Lockable <=> t \in ethWhiteList \/ t \in LockedTokens
BY Zenon DEF Lockable

\* A nonempty set of indices has a last one.
LEMMA LastIndex ==
  ASSUME NEW n \in Nat, NEW S, S \subseteq 1..n, S # {}
  PROVE  \E i \in S : \A j \in S : j <= i
<1>1. PICK R : R = {ss \in Nat \X Nat : ss[1] < ss[2]}
  BY Zenon
<1>2. IsWellFoundedOn(R, Nat)
  BY Zenon, <1>1, NatLessThanWellFounded DEF OpToRel
<1>3. PICK T : T = {n - i : i \in S}
  BY Zenon
<1>4. T \subseteq Nat /\ T # {}
  <2>1. \A i \in S : n - i \in Nat
    OBVIOUS
  <2> QED BY Zenon, <1>3, <2>1
<1>5. PICK x \in T : \A y \in T : ~(<<y, x>> \in R)
  BY Zenon, <1>2, <1>4, WFMin
<1>6. \A y \in T : x <= y
  <2> SUFFICES ASSUME NEW y \in T PROVE x <= y
    BY Zenon
  <2>1. x \in Nat /\ y \in Nat /\ <<y, x>> \notin R
    BY Zenon, <1>4, <1>5
  <2> QED BY <1>1, <2>1
<1>7. PICK i \in S : x = n - i
  BY Zenon, <1>3
<1>8. \A j \in S : n - i <= n - j
  BY Zenon, <1>3, <1>6, <1>7
<1> QED BY <1>7, <1>8

\* An entry of lowerToUpperTokens is written when a token gets into use.
LEMMA UpperKeeps ==
  ASSUME UppersInv, UpperOK(lowerToUpperTokens), NEW s \in Symbols,
         lowerToUpperTokens' = WithUpper(s),
         \E u \in Used' : SymbolWritten(u) = s,
         \A u \in Used : u \in Used' \/ SymbolWritten(u) = s,
         \A u \in Lockable' : u \in Lockable \/ SymbolWritten(u) = s
  PROVE  UppersInv'
<1> SUFFICES ASSUME NEW k \in Symbols
             PROVE  \/ \E u \in Used' : toLower[SymbolWritten(u)] = k /\ lowerToUpperTokens'[k] = SymbolWritten(u)
                    \/ \A u \in Lockable' : toLower[SymbolWritten(u)] # k
  BY Zenon DEF UppersInv, SymbolWritten
<1>1. /\ lowerToUpperTokens'[toLower[s]] = s
      /\ k # toLower[s] => lowerToUpperTokens'[k] = lowerToUpperTokens[k]
  BY ZenonT(40), BankAssumption DEF UpperOK, WithUpper
<1>2. CASE k = toLower[s]
  BY Zenon, <1>1, <1>2
<1>3. CASE k # toLower[s]
  BY Zenon, <1>1, <1>3 DEF UppersInv
<1> QED BY Zenon, <1>2, <1>3

\* Steps that write no entry and bring no token into use.
LEMMA UpperIdle ==
  ASSUME UppersInv, lowerToUpperTokens' = lowerToUpperTokens, Used \subseteq Used', Lockable' \subseteq Lockable
  PROVE  UppersInv'
BY Zenon DEF UppersInv, SymbolWritten

LEMMA UppersLists ==
  ASSUME UppersInv, NEW tokens \in Seq(Tokens),
         ethWhiteList' = ethWhiteList \cup {tokens[i] : i \in DOMAIN tokens},
         UNCHANGED <<cosmosWhiteList, logs>>,
         lowerToUpperTokens' =
           [s \in Symbols |-> IF LastWith(tokens, s) = {}
                              THEN lowerToUpperTokens[s]
                              ELSE symbolOf[tokens[CHOOSE i \in LastWith(tokens, s) : TRUE]]]
  PROVE  UppersInv'
<1> SUFFICES ASSUME NEW k \in Symbols
             PROVE  \/ \E u \in Used' : toLower[SymbolWritten(u)] = k /\ lowerToUpperTokens'[k] = SymbolWritten(u)
                    \/ \A u \in Lockable' : toLower[SymbolWritten(u)] # k
  BY Zenon DEF UppersInv, SymbolWritten
<1>1. \A i \in DOMAIN tokens : SymbolWritten(tokens[i]) = symbolOf[tokens[i]]
  <2>1. Zero \notin Tokens
    BY Zenon, BankAssumption
  <2>2. \A i \in DOMAIN tokens : tokens[i] \in Tokens
    OBVIOUS
  <2> QED BY Zenon, <2>1, <2>2 DEF SymbolWritten
<1>2. \A t : t \in LockedTokens' <=> t \in LockedTokens
  BY Zenon DEF LockedTokens
<1>3. \A t : t \in Lockable' <=> t \in ethWhiteList' \/ t \in LockedTokens'
  BY Zenon DEF Lockable
<1>4. \A t : t \in Lockable' <=> t \in Lockable \/ \E i \in DOMAIN tokens : t = tokens[i]
  BY Zenon, <1>2, <1>3, LockableIs
<1>5. \A t \in Used : t \in Used'
  BY Zenon, <1>4 DEF Used
<1>6. CASE LastWith(tokens, k) = {}
  <2>1. lowerToUpperTokens'[k] = lowerToUpperTokens[k]
    BY Zenon, <1>6
  <2>2. \A i \in DOMAIN tokens : toLower[symbolOf[tokens[i]]] # k
    <3>1. PICK S : S = {i \in DOMAIN tokens : toLower[symbolOf[tokens[i]]] = k}
      BY Zenon
    <3>2. Len(tokens) \in Nat /\ S \subseteq 1..Len(tokens)
      BY <3>1
    <3>3. S # {} => \E i \in S : \A j \in S : j <= i
      BY Zenon, <3>2, LastIndex
    <3> QED BY Zenon, <1>6, <3>1, <3>3 DEF LastWith
  <2>3. CASE \A u \in Lockable : toLower[SymbolWritten(u)] # k
    BY <1>1, <1>4, <2>2, <2>3
  <2>4. CASE \E u \in Used : toLower[SymbolWritten(u)] = k /\ lowerToUpperTokens[k] = SymbolWritten(u)
    BY Zenon, <1>5, <2>1, <2>4
  <2> QED BY Zenon, <2>3, <2>4 DEF UppersInv
<1>7. CASE LastWith(tokens, k) # {}
  <2>1. PICK i : i = CHOOSE j \in LastWith(tokens, k) : TRUE
    BY Zenon
  <2>2. i \in LastWith(tokens, k)
    BY Zenon, <1>7, <2>1
  <2>3. i \in DOMAIN tokens /\ toLower[symbolOf[tokens[i]]] = k
    BY Zenon, <2>2 DEF LastWith
  <2>4. lowerToUpperTokens'[k] = symbolOf[tokens[i]]
    BY Zenon, <1>7, <2>1
  <2>5. tokens[i] \in Used'
    BY Zenon, <1>4, <2>3 DEF Used
  <2> QED BY Zenon, <1>1, <2>3, <2>4, <2>5
<1> QED BY Zenon, <1>6, <1>7

\* What a log adds to the locked tokens.
LEMMA LocksAppend ==
  ASSUME logs \in Seq(Logs), NEW l \in Logs, logs' = Append(logs, l)
  PROVE  /\ \A t : t \in LockedTokens' <=> t \in LockedTokens \/ (l.type = "lock" /\ t = l.token)
         /\ \A i \in DOMAIN logs' : logs'[i] = l \/ (i \in DOMAIN logs /\ logs'[i] = logs[i])
<1>1. PICK k : k = Len(logs) + 1
  BY Zenon
<1>2. /\ DOMAIN logs' = DOMAIN logs \cup {k}
      /\ logs'[k] = l
      /\ \A i \in DOMAIN logs : logs'[i] = logs[i]
  BY <1>1
<1> QED BY Zenon, <1>2 DEF LockedTokens

LEMMA LocksIdle ==
  ASSUME LocksInv, logs \in Seq(Logs), lockedTokenList' = lockedTokenList,
         logs' = logs \/ \E l \in Logs : l.type # "lock" /\ logs' = Append(logs, l)
  PROVE  LocksInv' /\ \A t : t \in LockedTokens' <=> t \in LockedTokens
<1>1. CASE logs' = logs
  <2>1. LockedTokens' = LockedTokens
    BY Zenon, <1>1 DEF LockedTokens
  <2> QED BY Zenon, <1>1, <2>1 DEF LocksInv, SymbolWritten
<1>2. CASE \E l \in Logs : l.type # "lock" /\ logs' = Append(logs, l)
  <2>1. PICK l \in Logs : l.type # "lock" /\ logs' = Append(logs, l)
    BY Zenon, <1>2
  <2>2. \A t : t \in LockedTokens' <=> t \in LockedTokens
    BY Zenon, <2>1, LocksAppend
  <2>3. \A i \in DOMAIN logs' : logs'[i] = l \/ (i \in DOMAIN logs /\ logs'[i] = logs[i])
    BY Zenon, <2>1, LocksAppend
  <2>4. \A s \in Symbols : lockedTokenList'[s] # Zero => lockedTokenList'[s] \in LockedTokens'
    BY Zenon, <2>2 DEF LocksInv
  <2>5. ASSUME NEW i \in DOMAIN logs', logs'[i].type = "lock"
        PROVE  /\ logs'[i].symbol = SymbolWritten(logs'[i].token)
               /\ lockedTokenList[logs'[i].symbol] \in LockedTokens
               /\ SymbolWritten(lockedTokenList[logs'[i].symbol]) = logs'[i].symbol
    BY Zenon, <2>1, <2>3, <2>5 DEF LocksInv
  <2> QED BY Zenon, <2>2, <2>4, <2>5 DEF LocksInv, SymbolWritten
<1> QED BY Zenon, <1>1, <1>2

LEMMA LocksGrow ==
  ASSUME LocksInv, logs \in Seq(Logs), LockedOK(lockedTokenList), NEW l \in Logs, l.type = "lock",
         l.symbol = SymbolWritten(l.token), logs' = Append(logs, l),
         lockedTokenList' = [lockedTokenList EXCEPT ![l.symbol] = l.token]
  PROVE  LocksInv' /\ \A t : t \in LockedTokens' <=> t \in LockedTokens \/ t = l.token
<1>1. /\ \A t : t \in LockedTokens' <=> t \in LockedTokens \/ t = l.token
      /\ \A i \in DOMAIN logs' : logs'[i] = l \/ (i \in DOMAIN logs /\ logs'[i] = logs[i])
  BY Zenon, LocksAppend
<1>2. /\ l.symbol \in Symbols
      /\ \A i \in DOMAIN logs : logs[i].symbol \in Symbols
  <2>1. \A i \in DOMAIN logs : logs[i] \in Logs
    OBVIOUS
  <2> QED BY Zenon, <2>1 DEF Logs
<1>3. \A s \in Symbols : lockedTokenList'[s] = IF s = l.symbol THEN l.token ELSE lockedTokenList[s]
  BY Zenon, <1>2 DEF LockedOK
<1>4. \A s \in Symbols : lockedTokenList'[s] # Zero => lockedTokenList'[s] \in LockedTokens'
  BY Zenon, <1>1, <1>3 DEF LocksInv
<1>5. ASSUME NEW i \in DOMAIN logs', logs'[i].type = "lock"
      PROVE  /\ logs'[i].symbol = SymbolWritten(logs'[i].token)
             /\ lockedTokenList'[logs'[i].symbol] \in LockedTokens'
             /\ SymbolWritten(lockedTokenList'[logs'[i].symbol]) = logs'[i].symbol
  <2>1. CASE logs'[i].symbol = l.symbol
    <3>1. lockedTokenList'[logs'[i].symbol] = l.token
      BY Zenon, <1>2, <1>3, <2>1
    <3>2. logs'[i].symbol = SymbolWritten(logs'[i].token)
      BY Zenon, <1>1, <1>5 DEF LocksInv
    <3> QED BY Zenon, <1>1, <2>1, <3>1, <3>2
  <2>2. CASE logs'[i].symbol # l.symbol
    <3>1. i \in DOMAIN logs /\ logs'[i] = logs[i]
      BY Zenon, <1>1, <2>2
    <3>2. lockedTokenList'[logs'[i].symbol] = lockedTokenList[logs[i].symbol]
      BY Zenon, <1>2, <1>3, <2>2, <3>1
    <3> QED BY Zenon, <1>1, <1>5, <3>1, <3>2 DEF LocksInv
  <2> QED BY Zenon, <2>1, <2>2
<1> QED BY Zenon, <1>1, <1>4, <1>5 DEF LocksInv, SymbolWritten

\* A step that logs no lock and leaves the lists and tables alone.
LEMMA ReachIdle ==
  ASSUME ReachInv, logs \in Seq(Logs), UNCHANGED tableVars,
         logs' = logs \/ \E l \in Logs : l.type # "lock" /\ logs' = Append(logs, l)
  PROVE  ReachInv'
<1>1. UNCHANGED <<ethWhiteList, cosmosWhiteList, lockedTokenList, lowerToUpperTokens>>
  BY Zenon DEF tableVars
<1>2. LocksInv' /\ \A t : t \in LockedTokens' <=> t \in LockedTokens
  BY Zenon, <1>1, LocksIdle DEF ReachInv
<1>3. \A t : t \in Lockable' <=> t \in ethWhiteList' \/ t \in LockedTokens'
  BY Zenon DEF Lockable
<1>4. \A t : t \in Lockable' <=> t \in Lockable
  BY Zenon, <1>1, <1>2, <1>3, LockableIs
<1>5. Used \subseteq Used' /\ Lockable' \subseteq Lockable
  BY Zenon, <1>1, <1>4 DEF Used
<1> QED BY Zenon, <1>1, <1>2, <1>5, UpperIdle DEF ReachInv

\* A step that writes the symbol of a token in use, after which the tokens in use
\* differ by tokens of that symbol only.
LEMMA ReachListed ==
  ASSUME ReachInv, BankInv, UNCHANGED <<logs, lockedTokenList>>, NEW s \in Symbols,
         lowerToUpperTokens' = WithUpper(s),
         \E u \in Used' : SymbolWritten(u) = s,
         \A u \in Used : u \in Used' \/ SymbolWritten(u) = s,
         \A u \in Lockable' : u \in Lockable \/ SymbolWritten(u) = s
  PROVE  ReachInv'
<1>1. UpperOK(lowerToUpperTokens) /\ logs \in Seq(Logs)
  BY Zenon DEF BankInv, TablesInv, FundsInv
<1>2. LocksInv'
  BY Zenon, <1>1, LocksIdle DEF ReachInv
<1>3. UppersInv'
  BY Zenon, <1>1, UpperKeeps DEF ReachInv
<1> QED BY Zenon, <1>2, <1>3 DEF ReachInv

LEMMA AppendedLog ==
  ASSUME logs \in Seq(Logs), logs' \in Seq(Logs), NEW l, logs' = Append(logs, l)
  PROVE  l \in Logs
<1>1. Len(logs) + 1 \in DOMAIN logs' /\ logs'[Len(logs) + 1] = l
  OBVIOUS
<1> QED BY <1>1

LEMMA LockKeepsReach ==
  ASSUME ReachInv, BankInv, BankInv', NEW sender, NEW recipient, NEW token \in Assets, NEW amount, NEW value,
         lock(sender, recipient, token, amount, value)
  PROVE  ReachInv'
<1>1. PICK s : s = IF value > 0 THEN Eth ELSE symbolOf[token]
  BY Zenon
<1>2. s = SymbolWritten(token)
  BY ZenonT(40), <1>1, BankAssumption DEF lock, EtherPaid, Exists, SymbolWritten
<1>3. PICK l : l = Log("lock", token, s, sender, amount, NextNonce)
  BY Zenon
<1>4. /\ logs' = Append(logs, l)
      /\ lockedTokenList' = [lockedTokenList EXCEPT ![s] = token]
      /\ token \in ethWhiteList
      /\ UNCHANGED <<ethWhiteList, cosmosWhiteList, lowerToUpperTokens>>
  BY Zenon, <1>1, <1>3 DEF lock, lockFunds
<1>5. l.type = "lock" /\ l.token = token /\ l.symbol = s
  BY Zenon, <1>3 DEF Log
<1>6. logs \in Seq(Logs) /\ logs' \in Seq(Logs) /\ LockedOK(lockedTokenList)
  BY Zenon DEF BankInv, FundsInv, TablesInv
<1>7. l \in Logs
  BY Zenon, <1>4, <1>6, AppendedLog
<1>8. LocksInv' /\ \A t : t \in LockedTokens' <=> t \in LockedTokens \/ t = l.token
  BY Zenon, <1>2, <1>4, <1>5, <1>6, <1>7, LocksGrow DEF ReachInv
<1>9. Used \subseteq Used' /\ Lockable' \subseteq Lockable
  BY Zenon, <1>4, <1>5, <1>8 DEF Used, Lockable
<1> QED BY Zenon, <1>4, <1>8, <1>9, UpperIdle DEF ReachInv

\* Burns, mints and unlocks.
LEMMA PostKeepsReach ==
  ASSUME ReachInv, BankInv, BankInv', UNCHANGED tableVars, NEW type \in {"burn", "mint", "unlock"},
         NEW t, NEW s, NEW a, NEW n, NEW nonce, logs' = Append(logs, Log(type, t, s, a, n, nonce))
  PROVE  ReachInv'
<1>1. PICK l : l = Log(type, t, s, a, n, nonce)
  BY Zenon
<1>2. l.type # "lock"
  BY Zenon, <1>1 DEF Log
<1>3. logs \in Seq(Logs) /\ logs' \in Seq(Logs)
  BY Zenon DEF BankInv, FundsInv
<1>4. l \in Logs
  BY Zenon, <1>1, <1>3, AppendedLog
<1> QED BY Zenon, <1>1, <1>2, <1>3, <1>4, ReachIdle

\* A token that joins the white list brings its symbol; one that leaves it leaves
\* a locked token of the same symbol behind.
LEMMA UpdateKeepsReach ==
  ASSUME ReachInv, BankInv, NEW sender, NEW token \in Tokens, NEW inList \in BOOLEAN,
         updateEthWhiteList(sender, token, inList)
  PROVE  ReachInv'
<1>1. PICK s : s = symbolOf[token]
  BY Zenon
<1>2. s \in Symbols /\ SymbolWritten(token) = s
  BY Zenon, <1>1, BankAssumption DEF SymbolWritten
<1>3. /\ lowerToUpperTokens' = WithUpper(s)
      /\ ethWhiteList' = IF inList THEN ethWhiteList \cup {token} ELSE ethWhiteList \ {token}
      /\ inList <=> lockedTokenList[s] = Zero
      /\ UNCHANGED <<cosmosWhiteList, lockedTokenList, logs>>
  BY Zenon, <1>1 DEF updateEthWhiteList, setTokenInEthWhiteList, fundVars
<1>4. LockedTokens' = LockedTokens
  BY Zenon, <1>3 DEF LockedTokens
<1>5. \E u \in Used' : SymbolWritten(u) = s
  <2>1. CASE inList
    BY Zenon, <1>2, <1>3, <2>1 DEF Used, Lockable
  <2>2. CASE ~inList
    <3>1. PICK u : u = lockedTokenList[s]
      BY Zenon
    <3>2. u # Zero /\ u \in LockedTokens
      BY Zenon, <1>2, <1>3, <2>2, <3>1 DEF ReachInv, LocksInv
    <3>3. SymbolWritten(u) = s
      BY Zenon, <1>2, <3>1, <3>2 DEF BankInv, TablesInv, LockedOK, SymbolWritten
    <3> QED BY Zenon, <1>4, <3>2, <3>3 DEF Used, Lockable
  <2> QED BY Zenon, <2>1, <2>2
<1>6. /\ \A u \in Used : u \in Used' \/ SymbolWritten(u) = s
      /\ \A u \in Lockable' : u \in Lockable \/ SymbolWritten(u) = s
  BY Zenon, <1>2, <1>3, <1>4 DEF Used, Lockable
<1> QED BY Zenon, <1>2, <1>3, <1>5, <1>6, ReachListed

\* A token that can be minted from now on brings its symbol.
LEMMA BridgeTokenKeepsReach ==
  ASSUME ReachInv, BankInv, NEW token \in Tokens, cosmosWhiteList' = cosmosWhiteList \cup {token},
         lowerToUpperTokens' = WithUpper(symbolOf[token]), UNCHANGED <<ethWhiteList, lockedTokenList, logs>>
  PROVE  ReachInv'
<1>1. PICK s : s = symbolOf[token]
  BY Zenon
<1>2. s \in Symbols /\ SymbolWritten(token) = s
  BY Zenon, <1>1, BankAssumption DEF SymbolWritten
<1>3. LockedTokens' = LockedTokens
  BY Zenon DEF LockedTokens
<1>4. /\ \E u \in Used' : SymbolWritten(u) = s
      /\ \A u \in Used : u \in Used' \/ SymbolWritten(u) = s
      /\ \A u \in Lockable' : u \in Lockable \/ SymbolWritten(u) = s
  BY Zenon, <1>2, <1>3 DEF Used, Lockable
<1> QED BY Zenon, <1>1, <1>2, <1>4, ReachListed

\* Every step of the bank keeps locked tokens within reach.
LEMMA ReachStep == ReachInv /\ BankInv /\ BankInv' /\ [BankNext]_bankVars => ReachInv'
<1> SUFFICES ASSUME ReachInv, BankInv, BankInv', [BankNext]_bankVars PROVE ReachInv'
  BY Zenon
<1>1. logs \in Seq(Logs)
  BY Zenon DEF BankInv, FundsInv
<1>2. CASE Deposit
  <2>1. ASSUME NEW sender \in Users, NEW recipient \in Recipients, NEW token \in Assets, NEW amount \in Amounts,
               burn(sender, recipient, token, amount)
        PROVE  ReachInv'
    BY Zenon, <2>1, PostKeepsReach DEF burn, burnFunds
  <2> QED BY Zenon, <1>2, <2>1, LockKeepsReach DEF Deposit
<1>3. CASE BridgeCalls
  <2>1. ASSUME NEW recipient, NEW _symbol, NEW amount, mintBridgeTokens(recipient, _symbol, amount)
        PROVE  ReachInv'
    BY Zenon, <2>1, PostKeepsReach DEF mintBridgeTokens, Mint
  <2>2. ASSUME NEW recipient, NEW _symbol, NEW amount, unlock(recipient, _symbol, amount)
        PROVE  ReachInv'
    BY Zenon, <2>2, PostKeepsReach DEF unlock, Unlock
  <2>3. ASSUME NEW _symbol \in ProphecySymbols, NEW s, s = safeLowerToUpper(lowerToUpperTokens, _symbol),
               createNewBridgeToken(s), UNCHANGED <<roleVars, ethWhiteList, lockedTokenList, fundVars>>
        PROVE  ReachInv'
    <3>1. s \in Symbols
      BY Zenon, <2>3, BankAssumption, UpperSymbol DEF BankInv, TablesInv
    <3>2. BridgeTokenOf[s] \in Tokens /\ symbolOf[BridgeTokenOf[s]] = s
      BY Zenon, <3>1, BankAssumption
    <3> QED BY Zenon, <2>3, <3>2, BridgeTokenKeepsReach DEF createNewBridgeToken, setTokenInCosmosWhiteList, fundVars
  <2> QED BY Zenon, <1>3, <2>1, <2>2, <2>3 DEF BridgeCalls
<1>4. CASE Administer
  <2>1. PICK sender \in Admins :
          \/ \E token \in Tokens, inList \in BOOLEAN : updateEthWhiteList(sender, token, inList)
          \/ \E tokens \in TokenLists : bulkWhitelistUpdateLimits(sender, tokens)
          \/ \E token \in Tokens : addExistingBridgeToken(sender, token)
          \/ UNCHANGED <<tableVars, logs>>
    BY Zenon, <1>4 DEF Administer, changeOwner, changeBankOperator, addPauser, togglePause, renouncePauser,
                       setBlocklist, fundVars
  <2>2. ASSUME NEW tokens \in TokenLists, bulkWhitelistUpdateLimits(sender, tokens)
        PROVE  ReachInv'
    <3>1. tokens \in Seq(Tokens)
      BY Zenon, BankAssumption
    <3>2. UNCHANGED <<cosmosWhiteList, lockedTokenList, logs>>
      BY Zenon, <2>2 DEF bulkWhitelistUpdateLimits, fundVars
    <3>3. LocksInv'
      BY Zenon, <1>1, <3>2, LocksIdle DEF ReachInv
    <3>4. UppersInv'
      BY Zenon, <2>2, <3>1, <3>2, UppersLists DEF bulkWhitelistUpdateLimits, ReachInv
    <3> QED BY Zenon, <3>3, <3>4 DEF ReachInv
  <2>3. ASSUME NEW token \in Tokens, addExistingBridgeToken(sender, token)
        PROVE  ReachInv'
    BY Zenon, <2>3, BridgeTokenKeepsReach DEF addExistingBridgeToken, setTokenInCosmosWhiteList, fundVars
  <2>4. CASE UNCHANGED <<tableVars, logs>>
    BY Zenon, <1>1, <2>4, ReachIdle
  <2> QED BY Zenon, <2>1, <2>2, <2>3, <2>4, UpdateKeepsReach
<1>5. CASE Transfer \/ UNCHANGED bankVars
  <2>1. UNCHANGED tableVars /\ logs' = logs
    BY Zenon, <1>5 DEF Transfer, bankVars, fundVars
  <2> QED BY Zenon, <1>1, <2>1, ReachIdle
<1> QED BY Zenon, <1>2, <1>3, <1>4, <1>5 DEF BankNext

LEMMA ReachInit == BankInit => ReachInv
<1> SUFFICES ASSUME BankInit PROVE ReachInv
  BY Zenon
<1>1. /\ DOMAIN logs = {} /\ ethWhiteList = {Zero} /\ cosmosWhiteList = {Zero}
      /\ \A s \in Symbols : lockedTokenList[s] = Zero
      /\ lowerToUpperTokens[Eth] = Eth
  BY BankAssumption DEF BankInit
<1>2. LocksInv
  BY Zenon, <1>1 DEF LocksInv
<1>3. Lockable = {Zero} /\ Zero \in Used
  BY Zenon, <1>1 DEF Lockable, LockedTokens, Used
<1>4. SymbolWritten(Zero) = Eth /\ toLower[Eth] = Eth
  BY Zenon, BankAssumption DEF SymbolWritten
<1>5. UppersInv
  BY Zenon, <1>1, <1>3, <1>4 DEF UppersInv
<1> QED BY Zenon, <1>2, <1>5 DEF ReachInv

\* What the lower case symbol of a locked token leads to.
LEMMA ReachImplies == BankInv /\ ReachInv => LockedTokenReachable
<1> SUFFICES ASSUME BankInv, ReachInv, SymbolsClear, NEW i \in DOMAIN logs, logs[i].type = "lock"
             PROVE  lockedTokenList[safeLowerToUpper(lowerToUpperTokens, toLower[logs[i].symbol])] = logs[i].token
  BY Zenon DEF LockedTokenReachable
<1>1. PICK t, w, k : t = logs[i].token /\ w = logs[i].symbol /\ k = toLower[w]
  BY Zenon
<1>2. w = SymbolWritten(t) /\ t \in Lockable
  BY Zenon, <1>1 DEF ReachInv, LocksInv, Lockable, LockedTokens
<1>3. w \in Symbols
  <2>1. logs[i] \in Logs
    BY DEF BankInv, FundsInv
  <2> QED BY Zenon, <1>1, <2>1 DEF Logs
<1>4. k \in Symbols /\ w # NoSymbol
  BY Zenon, <1>1, <1>3, BankAssumption
<1>5. PICK u \in Used : toLower[SymbolWritten(u)] = k /\ lowerToUpperTokens[k] = SymbolWritten(u)
  BY Zenon, <1>1, <1>2, <1>4 DEF ReachInv, UppersInv
<1>6. /\ \A x, y \in Lockable : SymbolWritten(x) = SymbolWritten(y) => x = y
      /\ \A x, y \in Used : toLower[SymbolWritten(x)] = toLower[SymbolWritten(y)]
                              => SymbolWritten(x) = SymbolWritten(y)
  BY Zenon DEF SymbolsClear, Lockable, LockedTokens, Used
<1>7. t \in Used
  BY Zenon, <1>2 DEF Used
<1>8. SymbolWritten(u) = w
  BY Zenon, <1>1, <1>2, <1>5, <1>6, <1>7
<1>9. safeLowerToUpper(lowerToUpperTokens, k) = w
  BY Zenon, <1>4, <1>5, <1>8 DEF safeLowerToUpper
<1>10. lockedTokenList[w] \in Lockable /\ SymbolWritten(lockedTokenList[w]) = w
  BY Zenon, <1>1 DEF ReachInv, LocksInv, Lockable
<1>11. lockedTokenList[w] = t
  BY Zenon, <1>2, <1>6, <1>10
<1> QED BY Zenon, <1>1, <1>9, <1>11

\* While symbols are clear, the lower case symbol of a locked token leads to it,
\* whatever is listed, removed, deployed, added and locked afterwards.
THEOREM LockedTokensReachable == BankSpec => []LockedTokenReachable
<1>1. ReachInv /\ BankInv /\ BankInv' /\ [BankNext]_bankVars => ReachInv'
  BY Zenon, ReachStep
<1> QED BY <1>1, BankInvariant, ReachInit, ReachImplies, PTL DEF BankSpec
=============================================================================
