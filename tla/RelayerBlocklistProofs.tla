----------------------- MODULE RelayerBlocklistProofs -----------------------
(***************************************************************************)
(* Theorems about the parts that count no coins.  The blocklist of the     *)
(* bank implements a set of addresses, for any addresses and batches.  The *)
(* relayers from Ethereum vote only on what is final, for any blocks,      *)
(* reorganisations and crashes.  The relayer to Ethereum signs an event by *)
(* one transaction, for any history of the chain and any number of         *)
(* attempts, crashes and drops.                                            *)
(***************************************************************************)
EXTENDS Blocklist, EthereumSub, CosmosSub, TLAPS

----------------------------------------------------------------------------
(* The blocklist.                                                            *)

Storage(list, index) == list \in Seq(Addresses) /\ index \in [Addresses -> Nat]

\* Every address of the array has its place in the index, so it occurs once.
IndexOK(list, index) == \A i \in 1 .. Len(list) : index[list[i]] = i - 1

\* The addresses of the running call that are done.
Done == {call.accounts[i] : i \in 1 .. call.done}

\* The addresses that are done are distinct, could be added or removed, and have been.
CallOK ==
  /\ call.done <= Len(call.accounts)
  /\ \A i, j \in 1 .. call.done : call.accounts[i] = call.accounts[j] => i = j
  /\ call.op = "add" => /\ Done \cap Members(saved.list) = {}
                        /\ Members(userList) = Members(saved.list) \cup Done
  /\ call.op = "remove" => /\ Done \subseteq Members(saved.list)
                           /\ Members(userList) = Members(saved.list) \ Done

BlocklistInv ==
  /\ BlocklistTypeOK
  /\ IndexOK(userList, userIndex)
  /\ IndexOK(saved.list, saved.index)
  /\ call # NoCall => CallOK

----------------------------------------------------------------------------
(* The array and the index.                                                 *)

\* With a correct index the test of one entry answers membership.
LEMMA AnswerIsMembership ==
  ASSUME Storage(userList, userIndex), IndexOK(userList, userIndex), NEW a \in Addresses
  PROVE  isBlocklisted(a) <=> a \in Members(userList)
<1>1. DOMAIN userList = 1 .. Len(userList) /\ Len(userList) \in Nat
  BY DEF Storage
<1>2. ASSUME isBlocklisted(a) PROVE a \in Members(userList)
  BY <1>1, <1>2 DEF isBlocklisted, Members, Storage
<1>3. ASSUME a \in Members(userList) PROVE isBlocklisted(a)
  <2>1. PICK i \in 1 .. Len(userList) : userList[i] = a
    BY Zenon, <1>1, <1>3 DEF Members
  <2>2. userIndex[a] = i - 1
    BY Zenon, <2>1 DEF IndexOK
  <2> QED BY <1>1, <2>1, <2>2 DEF isBlocklisted
<1> QED BY Zenon, <1>2, <1>3

\* Appending an address that is not in the array adds it.
LEMMA AppendAdds ==
  ASSUME NEW list, NEW index, Storage(list, index), IndexOK(list, index),
         NEW a \in Addresses, a \notin Members(list)
  PROVE  /\ Storage(Append(list, a), [index EXCEPT ![a] = Len(list)])
         /\ IndexOK(Append(list, a), [index EXCEPT ![a] = Len(list)])
         /\ Members(Append(list, a)) = Members(list) \cup {a}
<1>1. PICK n \in Nat : n = Len(list) /\ DOMAIN list = 1 .. n
  BY DEF Storage
<1>2. PICK q : q = Append(list, a)
  BY Zenon
<1>3. PICK x : x = [index EXCEPT ![a] = Len(list)]
  BY Zenon
<1>4. /\ q \in Seq(Addresses)
      /\ Len(q) = n + 1
      /\ DOMAIN q = 1 .. n + 1
      /\ q[n + 1] = a
      /\ \A i \in 1 .. n : q[i] = list[i]
  BY <1>1, <1>2 DEF Storage
<1>5. Storage(q, x)
  BY Zenon, <1>1, <1>3, <1>4 DEF Storage
<1>6. Members(q) = Members(list) \cup {a}
  BY <1>1, <1>4 DEF Members
<1>7. ASSUME NEW i \in 1 .. Len(q) PROVE x[q[i]] = i - 1
  <2>1. CASE i = n + 1
    BY <1>1, <1>3, <1>4, <2>1 DEF Storage
  <2>2. CASE i \in 1 .. n
    <3>1. list[i] # a /\ list[i] \in Addresses
      BY <1>1, <2>2 DEF Members, Storage
    <3> QED BY Zenon, <1>1, <1>3, <1>4, <2>2, <3>1 DEF IndexOK, Storage
  <2> QED BY <1>4, <2>1, <2>2
<1> QED BY Zenon, <1>2, <1>3, <1>5, <1>6, <1>7 DEF IndexOK

\* The array and the index after the last address is moved into the place of a.
Shrunk(list, index, a) ==
  [i \in 1 .. Len(list) - 1 |-> IF i = index[a] + 1 THEN list[Len(list)] ELSE list[i]]

Reindexed(list, index, a) == [index EXCEPT ![list[Len(list)]] = index[a]]

\* Moving the last address into the place of one in the array removes that one.
LEMMA ShrinkRemoves ==
  ASSUME NEW list, NEW index, Storage(list, index), IndexOK(list, index),
         NEW a \in Addresses, a \in Members(list)
  PROVE  /\ Storage(Shrunk(list, index, a), Reindexed(list, index, a))
         /\ IndexOK(Shrunk(list, index, a), Reindexed(list, index, a))
         /\ Members(Shrunk(list, index, a)) = Members(list) \ {a}
<1>1. PICK n \in Nat : n = Len(list) /\ DOMAIN list = 1 .. n
  BY DEF Storage
<1>2. PICK k \in 1 .. n : list[k] = a
  BY Zenon, <1>1 DEF Members
<1>3. index[a] = k - 1 /\ n >= 1 /\ n - 1 \in Nat
  BY <1>1, <1>2 DEF IndexOK
<1>4. \A i \in 1 .. n : list[i] \in Addresses /\ index[list[i]] = i - 1
  BY <1>1 DEF Storage, IndexOK
<1>5. PICK q : q = Shrunk(list, index, a)
  BY Zenon
<1>6. PICK x : x = Reindexed(list, index, a)
  BY Zenon
<1>7. q = [i \in 1 .. n - 1 |-> IF i = k THEN list[n] ELSE list[i]]
  BY <1>1, <1>2, <1>3, <1>5 DEF Shrunk
<1>8. q \in Seq(Addresses) /\ Len(q) = n - 1 /\ DOMAIN q = 1 .. n - 1
  <2>1. \A i \in 1 .. n - 1 : q[i] \in Addresses
    BY <1>3, <1>4, <1>7
  <2> QED BY <1>3, <1>7, <2>1
<1>9. x = [index EXCEPT ![list[n]] = k - 1]
  BY Zenon, <1>1, <1>3, <1>6 DEF Reindexed
<1>10. Storage(q, x)
  BY Zenon, <1>2, <1>3, <1>4, <1>8, <1>9 DEF Storage
<1>11. ASSUME NEW i \in 1 .. n - 1 PROVE x[q[i]] = i - 1
  <2>1. CASE i = k
    BY <1>3, <1>4, <1>7, <1>9, <2>1 DEF Storage
  <2>2. CASE i # k
    <3>1. q[i] = list[i] /\ i \in 1 .. n /\ i # n
      BY <1>3, <1>7, <2>2
    <3>2. list[i] # list[n]
      BY <1>3, <1>4, <3>1
    <3> QED BY Zenon, <1>4, <1>9, <3>1, <3>2 DEF Storage
  <2> QED BY Zenon, <2>1, <2>2
<1>12. Members(q) \subseteq Members(list) \ {a}
  <2>1. ASSUME NEW i \in 1 .. n - 1 PROVE q[i] \in Members(list) /\ q[i] # a
    <3>1. PICK j \in 1 .. n : q[i] = list[j] /\ j # k
      <4>1. CASE i = k
        BY <1>3, <1>7, <4>1
      <4>2. CASE i # k
        BY <1>3, <1>7, <4>2
      <4> QED BY Zenon, <4>1, <4>2
    <3>2. q[i] # a
      BY <1>2, <1>4, <3>1
    <3> QED BY Zenon, <1>1, <3>1, <3>2 DEF Members
  <2> QED BY Zenon, <1>8, <2>1 DEF Members
<1>13. Members(list) \ {a} \subseteq Members(q)
  <2>1. ASSUME NEW i \in 1 .. n, list[i] # a PROVE list[i] \in Members(q)
    <3>1. i # k
      BY Zenon, <1>2, <2>1
    <3>2. CASE i = n
      <4>1. k \in 1 .. n - 1
        BY <1>3, <3>1, <3>2
      <4>2. q[k] = list[i]
        BY Zenon, <1>7, <3>2, <4>1
      <4> QED BY Zenon, <1>8, <4>1, <4>2 DEF Members
    <3>3. CASE i # n
      <4>1. i \in 1 .. n - 1
        BY <1>3, <3>3
      <4>2. q[i] = list[i]
        BY Zenon, <1>7, <3>1, <4>1
      <4> QED BY Zenon, <1>8, <4>1, <4>2 DEF Members
    <3> QED BY Zenon, <3>2, <3>3
  <2> QED BY Zenon, <1>1, <2>1 DEF Members
<1> QED BY Zenon, <1>5, <1>6, <1>8, <1>10, <1>11, <1>12, <1>13 DEF IndexOK

----------------------------------------------------------------------------
(* The steps preserve the invariant.                                        *)

CallRecord == [op : Operations, accounts : Batches, done : Nat]

\* What is known of the next address of a running call.
LEMMA NextType ==
  ASSUME BlocklistInv, call # NoCall
  PROVE  /\ call \in CallRecord
         /\ call.accounts \in Seq(Addresses)
         /\ call.done < Len(call.accounts) => NextAccount \in Addresses
         /\ Storage(userList, userIndex)
         /\ CallOK
<1>1. call \in CallRecord
  BY Zenon DEF BlocklistInv, BlocklistTypeOK, CallRecord
<1>2. call.accounts \in Seq(Addresses) /\ call.done \in Nat
  BY Zenon, <1>1, BlocklistAssumption DEF CallRecord
<1>3. call.done < Len(call.accounts) => NextAccount \in Addresses
  BY <1>2 DEF NextAccount
<1> QED BY Zenon, <1>1, <1>2, <1>3 DEF BlocklistInv, BlocklistTypeOK, Storage

\* One more address is done.
LEMMA DoneGrows ==
  ASSUME BlocklistInv, call # NoCall, call.done < Len(call.accounts),
         call' = [call EXCEPT !.done = @ + 1]
  PROVE  /\ call' \in CallRecord
         /\ call' # NoCall
         /\ call'.op = call.op
         /\ call'.accounts = call.accounts
         /\ call'.done = call.done + 1
         /\ call'.done <= Len(call'.accounts)
         /\ Done' = Done \cup {NextAccount}
<1>1. call \in CallRecord /\ call.accounts \in Seq(Addresses)
  BY Zenon, NextType
<1>2. call' \in CallRecord /\ call'.op = call.op /\ call'.accounts = call.accounts
      /\ call'.done = call.done + 1
  BY <1>1 DEF CallRecord
<1>3. call' # NoCall
  BY Zenon, <1>2, BlocklistAssumption DEF CallRecord, Operations
<1>4. call'.done <= Len(call'.accounts)
  BY <1>1, <1>2 DEF CallRecord
<1>5. PICK n \in Nat : n = call.done
  BY Zenon, <1>1 DEF CallRecord
<1>6. Done = {call.accounts[i] : i \in 1 .. n} /\ NextAccount = call.accounts[n + 1]
  BY Zenon, <1>5 DEF Done, NextAccount
<1>7. Done' = {call.accounts[i] : i \in 1 .. n + 1}
  BY Zenon, <1>2, <1>5 DEF Done
<1>8. 1 .. n + 1 = (1 .. n) \cup {n + 1}
  OBVIOUS
<1>9. Done' = Done \cup {NextAccount}
  BY Zenon, <1>6, <1>7, <1>8
<1> QED BY Zenon, <1>2, <1>3, <1>4, <1>9

\* The addresses that are done stay distinct when the next one is not among them.
LEMMA DoneDistinct ==
  ASSUME BlocklistInv, call # NoCall, call.done < Len(call.accounts),
         call' = [call EXCEPT !.done = @ + 1], NextAccount \notin Done
  PROVE  \A i, j \in 1 .. call'.done : call'.accounts[i] = call'.accounts[j] => i = j
<1>1. call'.accounts = call.accounts /\ call'.done = call.done + 1
  BY Zenon, DoneGrows
<1>2. call.done \in Nat
  BY Zenon, NextType DEF CallRecord
<1>3. \A i \in 1 .. call.done : call.accounts[i] # call.accounts[call.done + 1]
  BY Zenon DEF Done, NextAccount
<1>4. \A i, j \in 1 .. call.done : call.accounts[i] = call.accounts[j] => i = j
  BY Zenon DEF BlocklistInv, CallOK
<1> QED BY <1>1, <1>2, <1>3, <1>4

LEMMA BlockKeepsInv == BlocklistInv /\ addToBlocklist => BlocklistInv'
<1> SUFFICES ASSUME BlocklistInv, addToBlocklist PROVE BlocklistInv'
  BY Zenon
<1>1. call # NoCall /\ call.op = "add" /\ call.done < Len(call.accounts)
      /\ call' = [call EXCEPT !.done = @ + 1] /\ saved' = saved /\ listOwner' = listOwner
  BY Zenon DEF addToBlocklist, InCall
<1>2. NextAccount \in Addresses /\ Storage(userList, userIndex) /\ CallOK
  BY Zenon, <1>1, NextType
<1>3. NextAccount \notin Members(userList)
  BY Zenon, <1>2, AnswerIsMembership DEF addToBlocklist, BlocklistInv
<1>4. /\ Storage(userList', userIndex')
      /\ IndexOK(userList', userIndex')
      /\ Members(userList') = Members(userList) \cup {NextAccount}
  BY Zenon, <1>2, <1>3, AppendAdds DEF addToBlocklist, BlocklistInv
<1>5. /\ call' \in CallRecord /\ call' # NoCall /\ call'.op = "add"
      /\ call'.done <= Len(call'.accounts)
      /\ Done' = Done \cup {NextAccount}
  BY Zenon, <1>1, DoneGrows
<1>6. Done \cap Members(saved.list) = {} /\ Members(userList) = Members(saved.list) \cup Done
  BY Zenon, <1>1, <1>2 DEF CallOK
<1>7. \A i, j \in 1 .. call'.done : call'.accounts[i] = call'.accounts[j] => i = j
  BY Zenon, <1>1, <1>3, <1>6, DoneDistinct
<1>8. CallOK'
  BY <1>1, <1>3, <1>4, <1>5, <1>6, <1>7 DEF CallOK
<1>9. BlocklistTypeOK'
  BY Zenon, <1>1, <1>4, <1>5 DEF BlocklistInv, BlocklistTypeOK, Storage, CallRecord
<1> QED BY Zenon, <1>1, <1>4, <1>8, <1>9 DEF BlocklistInv

LEMMA UnblockKeepsInv == BlocklistInv /\ removeFromBlocklist => BlocklistInv'
<1> SUFFICES ASSUME BlocklistInv, removeFromBlocklist PROVE BlocklistInv'
  BY Zenon
<1>1. call # NoCall /\ call.op = "remove" /\ call.done < Len(call.accounts)
      /\ call' = [call EXCEPT !.done = @ + 1] /\ saved' = saved /\ listOwner' = listOwner
  BY Zenon DEF removeFromBlocklist, InCall
<1>2. NextAccount \in Addresses /\ Storage(userList, userIndex) /\ CallOK
  BY Zenon, <1>1, NextType
<1>3. NextAccount \in Members(userList)
  BY Zenon, <1>2, AnswerIsMembership DEF removeFromBlocklist, BlocklistInv
<1>4. PICK a : a = NextAccount
  BY Zenon
<1>5. userList' = Shrunk(userList, userIndex, a) /\ userIndex' = Reindexed(userList, userIndex, a)
  BY Zenon, <1>4 DEF removeFromBlocklist, Shrunk, Reindexed
<1>6. /\ Storage(userList', userIndex')
      /\ IndexOK(userList', userIndex')
      /\ Members(userList') = Members(userList) \ {NextAccount}
  BY Zenon, <1>2, <1>3, <1>4, <1>5, ShrinkRemoves DEF BlocklistInv
<1>7. /\ call' \in CallRecord /\ call' # NoCall /\ call'.op = "remove"
      /\ call'.done <= Len(call'.accounts)
      /\ Done' = Done \cup {NextAccount}
  BY Zenon, <1>1, DoneGrows
<1>8. Done \subseteq Members(saved.list) /\ Members(userList) = Members(saved.list) \ Done
  BY Zenon, <1>1, <1>2 DEF CallOK
<1>9. \A i, j \in 1 .. call'.done : call'.accounts[i] = call'.accounts[j] => i = j
  BY Zenon, <1>1, <1>3, <1>8, DoneDistinct
<1>10. CallOK'
  BY Zenon, <1>1, <1>3, <1>6, <1>7, <1>8, <1>9 DEF CallOK
<1>11. BlocklistTypeOK'
  BY Zenon, <1>1, <1>6, <1>7 DEF BlocklistInv, BlocklistTypeOK, Storage, CallRecord
<1> QED BY Zenon, <1>1, <1>6, <1>10, <1>11 DEF BlocklistInv

LEMMA EnterKeepsInv ==
  ASSUME BlocklistInv, NEW sender, NEW op \in Operations, NEW accounts \in Batches,
         Enter(sender, op, accounts)
  PROVE  BlocklistInv'
<1>1. /\ call' = [op |-> op, accounts |-> accounts, done |-> 0]
      /\ saved' = [list |-> userList, index |-> userIndex]
      /\ listOwner' = listOwner /\ userList' = userList /\ userIndex' = userIndex
  BY Zenon DEF Enter
<1>2. call' \in [op : Operations, accounts : Batches, done : Nat]
  BY Zenon, <1>1
<1>3. accounts \in Seq(Addresses)
  BY Zenon, BlocklistAssumption
<1>4. call'.done <= Len(call'.accounts) /\ 1 .. call'.done = {}
  BY <1>1, <1>3
<1>5. Done' = {}
  BY Zenon, <1>4 DEF Done
<1>6. CallOK'
  BY Zenon, <1>1, <1>4, <1>5 DEF CallOK
<1>7. BlocklistTypeOK'
  BY Zenon, <1>1, <1>2 DEF BlocklistInv, BlocklistTypeOK
<1> QED BY Zenon, <1>1, <1>6, <1>7 DEF BlocklistInv

LEMMA RevertKeepsInv == BlocklistInv /\ Revert => BlocklistInv'
BY Zenon DEF BlocklistInv, BlocklistTypeOK, Revert

LEMMA ReturnKeepsInv == BlocklistInv /\ Return => BlocklistInv'
BY Zenon DEF BlocklistInv, BlocklistTypeOK, Return

LEMMA BlocklistInitInv == BlocklistInit => BlocklistInv
BY DEF BlocklistInit, BlocklistInv, BlocklistTypeOK, NewIndex, IndexOK

LEMMA BlocklistStepInv == BlocklistInv /\ [BlocklistNext]_blocklistVars => BlocklistInv'
<1> SUFFICES ASSUME BlocklistInv, [BlocklistNext]_blocklistVars PROVE BlocklistInv'
  BY Zenon
<1>1. ASSUME NEW sender \in Addresses, NEW newOwner \in Addresses \cup {NoOwner},
             transferOwnership(sender, newOwner)
      PROVE  BlocklistInv'
  BY Zenon, <1>1 DEF transferOwnership, BlocklistInv, BlocklistTypeOK, CallOK, Done
<1>2. CASE UNCHANGED blocklistVars
  BY <1>2 DEF blocklistVars, BlocklistInv, BlocklistTypeOK, CallOK, Done
<1> QED
  BY Zenon, <1>1, <1>2, EnterKeepsInv, BlockKeepsInv, UnblockKeepsInv, RevertKeepsInv, ReturnKeepsInv
  DEF BlocklistNext

LEMMA BlocklistInvariant == BlocklistSpec => []BlocklistInv
BY BlocklistInitInv, BlocklistStepInv, PTL DEF BlocklistSpec

----------------------------------------------------------------------------
(* Theorems.                                                                *)

LEMMA InvAnswers == BlocklistInv => AnswersMatchList
BY Zenon, AnswerIsMembership DEF BlocklistInv, BlocklistTypeOK, Storage, AnswersMatchList

\* After any additions and removals, in batches or not, failed or not, isBlocklisted
\* answers true for the addresses in the array and for no other.
THEOREM AnswersAreExact == BlocklistSpec => [](BlocklistTypeOK /\ AnswersMatchList)
<1>1. BlocklistInv => BlocklistTypeOK /\ AnswersMatchList
  BY Zenon, InvAnswers DEF BlocklistInv
<1> QED BY <1>1, BlocklistInvariant, PTL

\* A finished call could add or remove all its addresses, and has.
LEMMA ReturnPerforms ==
  ASSUME BlocklistInv, Return
  PROVE  AddressSet!Perform
<1>1. call # NoCall /\ call.done = Len(call.accounts) /\ call' = NoCall /\ userList' = userList
  BY Zenon DEF Return
<1>2. call \in CallRecord /\ call.accounts \in Seq(Addresses) /\ CallOK
  BY Zenon, <1>1, NextType
<1>3. Requested = [op |-> call.op, accounts |-> call.accounts] /\ Requested # NoCall
  BY <1>1, <1>2, BlocklistAssumption DEF Requested, CallRecord, Operations
<1>4. DOMAIN call.accounts = 1 .. call.done
  BY <1>1, <1>2
<1>5. Done = AddressSet!Members(call.accounts)
  BY Zenon, <1>4 DEF Done, AddressSet!Members
<1>6. Committed = Members(saved.list) /\ Committed' = Members(userList) /\ Requested' = NoCall
  BY Zenon, <1>1 DEF Committed, Requested
<1>7. AddressSet!Distinct(call.accounts)
  BY Zenon, <1>2, <1>4 DEF AddressSet!Distinct, CallOK
<1>8. AddressSet!Possible(call.op, call.accounts, Committed)
  BY Zenon, <1>2, <1>5, <1>6, <1>7 DEF AddressSet!Possible, CallOK
<1>9. Committed' = AddressSet!Applied(call.op, call.accounts, Committed)
  BY Zenon, <1>2, <1>5, <1>6 DEF AddressSet!Applied, CallOK, CallRecord, Operations
<1> QED BY Zenon, <1>3, <1>6, <1>8, <1>9 DEF AddressSet!Perform

\* A call that reverts could not be carried out as a whole.
LEMMA RevertRefuses ==
  ASSUME BlocklistInv, Revert
  PROVE  AddressSet!Refuse
<1>1. /\ call # NoCall /\ call.done < Len(call.accounts) /\ call' = NoCall
      /\ userList' = saved.list
      /\ isBlocklisted(NextAccount) <=> call.op = "add"
  BY Zenon DEF Revert
<1>2. /\ call \in CallRecord /\ call.accounts \in Seq(Addresses) /\ CallOK
      /\ NextAccount \in Addresses
      /\ Storage(userList, userIndex)
  BY Zenon, <1>1, NextType
<1>3. Requested = [op |-> call.op, accounts |-> call.accounts] /\ Requested # NoCall
  BY <1>1, <1>2, BlocklistAssumption DEF Requested, CallRecord, Operations
<1>4. Committed = Members(saved.list) /\ Committed' = Members(saved.list) /\ Requested' = NoCall
  BY Zenon, <1>1 DEF Committed, Requested
<1>5. NextAccount \in Members(userList) <=> call.op = "add"
  BY Zenon, <1>1, <1>2, AnswerIsMembership DEF BlocklistInv
<1>6. PICK n \in Nat : n = call.done /\ n + 1 \in DOMAIN call.accounts
                       /\ 1 .. n \subseteq DOMAIN call.accounts
                       /\ NextAccount = call.accounts[n + 1]
  BY <1>1, <1>2 DEF CallRecord, NextAccount
<1>7. NextAccount \in AddressSet!Members(call.accounts)
  BY Zenon, <1>6 DEF AddressSet!Members
<1>8. NextAccount \in Done => ~AddressSet!Distinct(call.accounts)
  BY <1>6 DEF Done, AddressSet!Distinct
<1>9. call.op = "add" => NextAccount \in Members(saved.list) \cup Done
  BY Zenon, <1>2, <1>5 DEF CallOK
<1>10. call.op = "remove" => NextAccount \notin Members(saved.list) \/ NextAccount \in Done
  BY Zenon, <1>2, <1>5 DEF CallOK
<1>11. ~AddressSet!Possible(call.op, call.accounts, Committed)
  BY Zenon, <1>2, <1>4, <1>7, <1>8, <1>9, <1>10 DEF AddressSet!Possible, CallRecord, Operations
<1> QED BY Zenon, <1>3, <1>4, <1>11 DEF AddressSet!Refuse

\* Entering a call is the request.
LEMMA EnterRequests ==
  ASSUME BlocklistInv, NEW sender, NEW op \in Operations, NEW accounts \in Batches,
         Enter(sender, op, accounts)
  PROVE  AddressSet!Request
<1>1. /\ call = NoCall
      /\ call' = [op |-> op, accounts |-> accounts, done |-> 0]
      /\ saved' = [list |-> userList, index |-> userIndex]
  BY Zenon DEF Enter
<1>2. call' # NoCall
  BY <1>1, BlocklistAssumption DEF Operations
<1>3. accounts \in Seq(Addresses)
  BY Zenon, BlocklistAssumption
<1>4. Requested' = [op |-> op, accounts |-> accounts] /\ Requested = NoCall
  BY Zenon, <1>1, <1>2 DEF Requested
<1>5. Requested' \in [op : AddressSet!Operations, accounts : Seq(Addresses)]
  BY Zenon, <1>3, <1>4 DEF Operations, AddressSet!Operations
<1>6. Committed' = Committed
  BY Zenon, <1>1, <1>2 DEF Committed
<1> QED BY Zenon, <1>4, <1>5, <1>6 DEF AddressSet!Request

\* The steps inside a call are not visible.
LEMMA InnerStepStutters ==
  ASSUME BlocklistInv, addToBlocklist \/ removeFromBlocklist
  PROVE  UNCHANGED <<Committed, Requested>>
<1>1. call # NoCall /\ call.done < Len(call.accounts) /\ saved' = saved
      /\ call' = [call EXCEPT !.done = @ + 1]
  BY Zenon DEF addToBlocklist, removeFromBlocklist, InCall
<1>2. call' # NoCall /\ call'.op = call.op /\ call'.accounts = call.accounts
  BY Zenon, <1>1, DoneGrows
<1> QED BY Zenon, <1>1, <1>2 DEF Committed, Requested

\* The array and the index implement a set of addresses: every call is carried out
\* as a whole or, exactly when it cannot be, changes nothing.
THEOREM BlocklistIsAddressSet == BlocklistSpec => ImplementsAddressSet
<1>1. BlocklistInit => AddressSet!SetInit
  BY DEF BlocklistInit, AddressSet!SetInit, Committed, Requested, Members
<1>2. BlocklistInv /\ [BlocklistNext]_blocklistVars => [AddressSet!SetNext]_<<Committed, Requested>>
  <2> SUFFICES ASSUME BlocklistInv, [BlocklistNext]_blocklistVars
               PROVE  AddressSet!SetNext \/ UNCHANGED <<Committed, Requested>>
    BY Zenon
  <2>1. ASSUME NEW sender \in Addresses, NEW newOwner \in Addresses \cup {NoOwner},
               transferOwnership(sender, newOwner)
        PROVE  UNCHANGED <<Committed, Requested>>
    BY Zenon, <2>1 DEF transferOwnership, Committed, Requested
  <2>2. CASE UNCHANGED blocklistVars
    BY Zenon, <2>2 DEF blocklistVars, Committed, Requested
  <2> QED
    BY Zenon, <2>1, <2>2, EnterRequests, InnerStepStutters, RevertRefuses, ReturnPerforms
    DEF BlocklistNext, AddressSet!SetNext
<1> QED BY <1>1, <1>2, BlocklistInvariant, PTL DEF BlocklistSpec, ImplementsAddressSet, AddressSet!SetSpec

----------------------------------------------------------------------------
(* The relayers: what they vote on is final, what they pass is read.        *)

RelayTypeOK ==
  /\ head \in Nat /\ top \in Nat /\ block \in [Ids -> Nat]
  /\ prophecies \in [Ids -> Prophecy]
  /\ running \subseteq Relayers /\ seeded \subseteq Relayers
  /\ last \in [Relayers -> Nat] /\ saving \in [Relayers -> Nat] /\ db \in [Relayers -> Nat]
  /\ mempool \in [Relayers -> Seq(SUBSET Ids)]
  /\ relayed \in [Relayers -> SUBSET Ids]

\* The head falls back by TrailingBlocks at most, and no deposit is above it.
HeadInv ==
  /\ head <= top /\ top - TrailingBlocks <= head
  /\ \A e \in Ids : block[e] <= head

\* The deposits that no reorganisation can undo.
Final == Mined(1, top - TrailingBlocks)

\* What waits for the chain is final.
MempoolInv == \A v \in Relayers : \A i \in DOMAIN mempool[v] : mempool[v][i] \subseteq Final

\* Relayer v has sent its votes on the blocks before each of these, which get no more
\* deposits.
ReadTo(v) ==
  {n \in Nat : /\ n <= 1 \/ n <= top - TrailingBlocks + 1
               /\ Mined(1, n - 1) \subseteq relayed[v]}

\* Of a relayer with a cursor from the start, every value that is, or may become, the
\* cursor has been read up to, and none of them is lost.
CursorInv ==
  \A v \in seeded :
    /\ db[v] # 0 /\ db[v] \in ReadTo(v)
    /\ v \in running => last[v] # 0 /\ last[v] \in ReadTo(v)
    /\ saving[v] # 0 => saving[v] \in ReadTo(v)

RelayInv == RelayTypeOK /\ HeadInv /\ MempoolInv /\ VotesFinal /\ CursorInv

\* The final claim of a vote is a content, so a vote keeps a prophecy well formed and
\* adds one claim to it.
LEMMA VotedType ==
  ASSUME prophecies \in [Ids -> Prophecy], NEW v \in Validators, NEW e \in Ids
  PROVE  /\ Voted(v, e) \in Prophecy
         /\ \A u \in Validators \ {v} : Voted(v, e).claims[u] = prophecies[e].claims[u]
<1>1. Claimed \in Contents
  BY Zenon, EthereumSubAssumption DEF Claimed
<1>2. PICK p : p = AddClaim(prophecies[e], v, Claimed)
  BY Zenon
<1>3. /\ p \in Prophecy
      /\ \A u \in Validators \ {v} : p.claims[u] = prophecies[e].claims[u]
  BY Zenon, <1>1, <1>2 DEF AddClaim, Prophecy
<1>4. processCompletion(p, Claimed) \in Prophecy /\ processCompletion(p, Claimed).claims = p.claims
  BY Zenon, <1>1, <1>3 DEF processCompletion, Prophecy, Statuses
<1> QED BY Zenon, <1>2, <1>3, <1>4 DEF Voted

LEMMA RelayInitInv == RelayInit => RelayInv
<1> SUFFICES ASSUME RelayInit PROVE RelayInv
  BY Zenon
<1>1. RelayTypeOK
  BY DEF RelayInit, RelayTypeOK, NewProphecy, Prophecy, Statuses
<1>2. HeadInv
  BY EthereumSubAssumption DEF RelayInit, HeadInv
<1>3. MempoolInv
  BY DEF RelayInit, MempoolInv
<1>4. VotesFinal
  BY Zenon DEF RelayInit, VotesFinal, NewProphecy
<1>5. CursorInv
  BY DEF RelayInit, CursorInv, ReadTo, Mined
<1> QED BY Zenon, <1>1, <1>2, <1>3, <1>4, <1>5 DEF RelayInv

\* Ethereum moves on: what is final stays so, and the blocks that were read get no deposits.
LEMMA EthereumStep ==
  ASSUME RelayTypeOK, HeadInv, Mine \/ Reorganise
  PROVE  /\ head' \in Nat /\ top' \in Nat /\ block' \in [Ids -> Nat]
         /\ HeadInv'
         /\ Final \subseteq Final'
         /\ \A v \in Relayers : ReadTo(v) \subseteq ReadTo(v)'
<1>1. TrailingBlocks \in Nat
  BY Zenon, EthereumSubAssumption
<1>2. /\ head \in Nat /\ top \in Nat /\ block \in [Ids -> Nat]
      /\ head <= top /\ top - TrailingBlocks <= head
      /\ \A e \in Ids : block[e] <= head
  BY Zenon DEF RelayTypeOK, HeadInv
<1>3. /\ head' \in Nat /\ top' \in Nat /\ block' \in [Ids -> Nat] /\ relayed' = relayed
      /\ top <= top' /\ head' <= top' /\ top' - TrailingBlocks <= head'
      /\ \A e \in Ids : /\ block'[e] <= head'
                        /\ \/ block'[e] = block[e]
                           \/ block[e] = 0 /\ block'[e] > top - TrailingBlocks /\ block'[e] > 0
                           \/ block[e] > top - TrailingBlocks /\ block[e] > 0 /\ block'[e] = 0
  <2>1. CASE Mine
    <3>1. /\ head' = head + 1 /\ relayed' = relayed
          /\ top' = IF head' > top THEN head' ELSE top
      BY Zenon, <2>1 DEF Mine
    <3>2. PICK new \in SUBSET {e \in Ids : block[e] = 0} :
            block' = [e \in Ids |-> IF e \in new THEN head' ELSE block[e]]
      BY Zenon, <2>1 DEF Mine
    <3> QED BY <1>1, <1>2, <3>1, <3>2
  <2>2. CASE Reorganise
    <3>1. /\ head' = head - 1 /\ relayed' = relayed /\ top' = top
          /\ head > top - TrailingBlocks /\ head > 0
          /\ block' = [e \in Ids |-> IF block[e] = head THEN 0 ELSE block[e]]
      BY Zenon, <2>2 DEF Reorganise
    <3> QED BY <1>1, <1>2, <3>1
  <2> QED BY Zenon, <2>1, <2>2
<1>4. HeadInv'
  BY Zenon, <1>3 DEF HeadInv
<1>5. Final \subseteq Final'
  BY <1>1, <1>2, <1>3 DEF Final, Mined
<1>6. ASSUME NEW v \in Relayers, NEW n \in ReadTo(v)
      PROVE  n \in ReadTo(v)'
  <2>1. n \in Nat /\ (n <= 1 \/ n <= top - TrailingBlocks + 1) /\ Mined(1, n - 1) \subseteq relayed[v]
    BY Zenon DEF ReadTo
  <2>2. n <= 1 \/ n <= top' - TrailingBlocks + 1
    <3>1. PICK t \in Nat : top <= t /\ top' = t
      BY Zenon, <1>2, <1>3
    <3>2. n \in Nat /\ (n <= 1 \/ n <= top - TrailingBlocks + 1)
      BY Zenon, <2>1
    <3>3. n <= 1 \/ n <= t - TrailingBlocks + 1
      BY <1>1, <1>2, <3>1, <3>2
    <3> QED BY Zenon, <3>1, <3>3
  <2>3. Mined(1, n - 1)' \subseteq Mined(1, n - 1)
    BY <1>1, <1>2, <1>3, <2>1 DEF Mined
  <2> QED BY Zenon, <1>3, <2>1, <2>2, <2>3 DEF ReadTo
<1> QED BY Zenon, <1>3, <1>4, <1>5, <1>6

LEMMA EthereumKeepsInv ==
  ASSUME RelayInv, Mine \/ Reorganise
  PROVE  RelayInv'
<1>1. RelayTypeOK /\ HeadInv /\ MempoolInv /\ VotesFinal /\ CursorInv
  BY Zenon DEF RelayInv
<1>2. UNCHANGED <<prophecies, running, last, saving, db, seeded, mempool, relayed>>
  BY Zenon DEF Mine, Reorganise, oracleVars, cursorVars
<1>3. /\ head' \in Nat /\ top' \in Nat /\ block' \in [Ids -> Nat] /\ HeadInv'
      /\ Final \subseteq Final'
      /\ \A v \in Relayers : ReadTo(v) \subseteq ReadTo(v)'
  BY Zenon, <1>1, EthereumStep
<1>4. RelayTypeOK'
  BY Zenon, <1>1, <1>2, <1>3 DEF RelayTypeOK
<1>5. MempoolInv'
  BY Zenon, <1>1, <1>2, <1>3 DEF MempoolInv
<1>6. VotesFinal'
  BY Zenon, <1>1, <1>2, <1>3 DEF VotesFinal, Final
<1>7. CursorInv'
  <2>1. \A v \in seeded : v \in Relayers /\ db[v] \in Nat /\ last[v] \in Nat /\ saving[v] \in Nat
    BY Zenon, <1>1 DEF RelayTypeOK
  <2> QED BY Zenon, <1>1, <1>2, <1>3, <2>1 DEF CursorInv
<1> QED BY Zenon, <1>3, <1>4, <1>5, <1>6, <1>7 DEF RelayInv

\* What a relayer sends is final, so what waits after it does remains so.
LEMMA BroadcastFinal ==
  ASSUME RelayTypeOK, MempoolInv, NEW v \in Relayers, NEW batch \in SUBSET Ids, batch \subseteq Final,
         Broadcast(v, batch), UNCHANGED ethereumVars
  PROVE  mempool' \in [Relayers -> Seq(SUBSET Ids)] /\ MempoolInv'
<1>1. mempool \in [Relayers -> Seq(SUBSET Ids)]
  BY Zenon DEF RelayTypeOK
<1>2. Final' = Final
  BY Zenon DEF Final, Mined, ethereumVars
<1>3. CASE mempool' = mempool
  BY Zenon, <1>1, <1>2, <1>3 DEF MempoolInv
<1>4. CASE mempool' = [mempool EXCEPT ![v] = Append(@, batch)]
  <2>1. mempool' \in [Relayers -> Seq(SUBSET Ids)]
    BY <1>1, <1>4
  <2>2. ASSUME NEW u \in Relayers, NEW i \in DOMAIN mempool'[u]
        PROVE  mempool'[u][i] = batch \/ (i \in DOMAIN mempool[u] /\ mempool'[u][i] = mempool[u][i])
    BY <1>1, <1>4, <2>2
  <2> QED BY Zenon, <1>2, <2>1, <2>2 DEF MempoolInv
<1> QED BY Zenon, <1>3, <1>4 DEF Broadcast

\* What Ethereum, the chain and the databases say stays when they do.
LEMMA SameFinal ==
  ASSUME UNCHANGED ethereumVars
  PROVE  /\ \A first, end : Mined(first, end)' = Mined(first, end)
         /\ Final' = Final
         /\ HeadInv => HeadInv'
BY Zenon DEF ethereumVars, Mined, Final, HeadInv

\* The blocks up to the ending block are final.
LEMMA EndingFinal ==
  ASSUME RelayTypeOK, HeadInv, NEW first \in Nat
  PROVE  /\ EndingBlock \in Int /\ EndingBlock <= top - TrailingBlocks
         /\ Mined(first, EndingBlock) \in SUBSET Ids
         /\ Mined(first, EndingBlock) \subseteq Final
<1>1. TrailingBlocks \in Nat
  BY Zenon, EthereumSubAssumption
<1> QED BY <1>1 DEF RelayTypeOK, HeadInv, EndingBlock, Mined, Final

LEMMA NewHeadKeepsInv ==
  ASSUME RelayInv, NEW v \in Relayers, NewHead(v)
  PROVE  RelayInv'
<1>1. RelayTypeOK /\ HeadInv /\ MempoolInv /\ VotesFinal /\ CursorInv
  BY Zenon DEF RelayInv
<1>2. PICK from, batch : from = FromBlock(v) /\ batch = Mined(from, EndingBlock)
  BY Zenon
<1>3. /\ v \in running /\ EndingBlock >= 0
      /\ last' = [last EXCEPT ![v] = from]
      /\ \/ UNCHANGED <<saving, mempool, relayed>>
         \/ /\ Broadcast(v, batch)
            /\ relayed' = [relayed EXCEPT ![v] = @ \cup batch]
            /\ saving' = [saving EXCEPT ![v] = EndingBlock + 1]
      /\ UNCHANGED ethereumVars
      /\ UNCHANGED <<prophecies, running, db, seeded>>
  BY Zenon, <1>2 DEF NewHead, oracleVars
<1>4. /\ EndingBlock \in Nat /\ EndingBlock <= top - TrailingBlocks
      /\ from \in Nat /\ (last[v] # 0 => from = last[v])
  BY <1>1, <1>2, <1>3, EndingFinal DEF FromBlock, RelayTypeOK
<1>5. batch \in SUBSET Ids /\ batch \subseteq Final
  BY Zenon, <1>1, <1>2, <1>4, EndingFinal
<1>6. /\ \A first, end : Mined(first, end)' = Mined(first, end)
      /\ Final' = Final /\ HeadInv' /\ UNCHANGED <<head, top, block>>
  BY Zenon, <1>1, <1>3, SameFinal DEF ethereumVars
<1>7. mempool' \in [Relayers -> Seq(SUBSET Ids)] /\ MempoolInv'
  BY Zenon, <1>1, <1>3, <1>5, BroadcastFinal DEF Broadcast
<1>8. RelayTypeOK'
  <2>1. last' \in [Relayers -> Nat] /\ saving' \in [Relayers -> Nat] /\ relayed' \in [Relayers -> SUBSET Ids]
    <3>1. last \in [Relayers -> Nat] /\ saving \in [Relayers -> Nat] /\ relayed \in [Relayers -> SUBSET Ids]
      BY Zenon, <1>1 DEF RelayTypeOK
    <3>2. EndingBlock + 1 \in Nat
      BY <1>4
    <3> QED BY Zenon, <1>3, <1>4, <1>5, <3>1, <3>2
  <2> QED BY Zenon, <1>1, <1>3, <1>6, <1>7, <2>1 DEF RelayTypeOK
<1>9. VotesFinal'
  BY Zenon, <1>1, <1>3, <1>6 DEF VotesFinal
<1>10. CursorInv'
  <2> SUFFICES ASSUME NEW u \in seeded'
               PROVE  /\ db'[u] # 0 /\ db'[u] \in ReadTo(u)'
                      /\ u \in running' => last'[u] # 0 /\ last'[u] \in ReadTo(u)'
                      /\ saving'[u] # 0 => saving'[u] \in ReadTo(u)'
    BY Zenon DEF CursorInv
  <2>1. u \in Relayers /\ relayed[u] \subseteq relayed'[u]
    BY ZenonT(40), <1>1, <1>3 DEF RelayTypeOK
  <2>2. ReadTo(u) \subseteq ReadTo(u)'
    BY Zenon, <1>6, <2>1 DEF ReadTo
  <2>3. /\ db'[u] = db[u] /\ db[u] # 0 /\ db[u] \in ReadTo(u)
        /\ u \in running => last[u] # 0 /\ last[u] \in ReadTo(u)
        /\ saving[u] # 0 => saving[u] \in ReadTo(u)
    BY Zenon, <1>1, <1>3 DEF CursorInv
  <2>4. u \in running => last'[u] = last[u]
    BY Zenon, <1>1, <1>3, <1>4, <2>1, <2>3 DEF RelayTypeOK
  <2>5. saving'[u] = saving[u] \/ (u = v /\ saving'[u] = EndingBlock + 1 /\ relayed'[v] = relayed[v] \cup batch)
    BY Zenon, <1>1, <1>3, <2>1 DEF RelayTypeOK
  <2>6. CASE u = v /\ saving'[u] = EndingBlock + 1 /\ relayed'[v] = relayed[v] \cup batch
    <3>1. from = last[v] /\ Mined(1, last[v] - 1) \subseteq relayed[v]
      BY Zenon, <1>3, <1>4, <2>3, <2>6 DEF ReadTo
    <3>2. Mined(1, EndingBlock) \subseteq Mined(1, from - 1) \cup Mined(from, EndingBlock)
      BY <1>1, <1>4 DEF Mined, RelayTypeOK
    <3>3. Mined(1, EndingBlock) \subseteq relayed'[u]
      BY Zenon, <1>2, <2>6, <3>1, <3>2
    <3>4. PICK n : n = saving'[u]
      BY Zenon
    <3>5. top \in Nat /\ TrailingBlocks \in Nat
      BY Zenon, <1>1, EthereumSubAssumption DEF RelayTypeOK
    <3>6. n = EndingBlock + 1
      BY Zenon, <2>6, <3>4
    <3>7. n \in Nat /\ n <= top - TrailingBlocks + 1 /\ n - 1 = EndingBlock
      BY <1>4, <3>5, <3>6
    <3>8. Mined(1, n - 1)' \subseteq relayed'[u]
      BY Zenon, <1>6, <3>3, <3>7
    <3>9. saving'[u] \in ReadTo(u)'
      BY Zenon, <1>6, <3>4, <3>7, <3>8 DEF ReadTo
    <3> QED BY Zenon, <1>3, <2>2, <2>3, <2>4, <3>9
  <2> QED BY Zenon, <1>3, <2>2, <2>3, <2>4, <2>5, <2>6
<1> QED BY Zenon, <1>6, <1>7, <1>8, <1>9, <1>10 DEF RelayInv

\* A relayer saves, crashes or starts: its values move among cursor, memory and what is
\* about to be saved.
LEMMA CursorKeepsInv ==
  ASSUME RelayInv, NEW v \in Relayers, Save(v) \/ Crash(v) \/ Start(v)
  PROVE  RelayInv'
<1>1. RelayTypeOK /\ HeadInv /\ MempoolInv /\ VotesFinal /\ CursorInv
  BY Zenon DEF RelayInv
<1>2. UNCHANGED ethereumVars /\ UNCHANGED <<prophecies, mempool, relayed, seeded>>
  BY Zenon DEF Save, Crash, Start, oracleVars
<1>3. /\ \A first, end : Mined(first, end)' = Mined(first, end)
      /\ Final' = Final /\ HeadInv' /\ UNCHANGED <<head, top, block>>
  BY Zenon, <1>1, <1>2, SameFinal DEF ethereumVars
<1>4. RelayTypeOK'
  <2>1. CASE Save(v)
    BY Zenon, <1>1, <1>2, <1>3, <2>1 DEF RelayTypeOK, Save
  <2>2. CASE Crash(v)
    BY Zenon, <1>1, <1>2, <1>3, <2>2 DEF RelayTypeOK, Crash
  <2>3. CASE Start(v)
    BY Zenon, <1>1, <1>2, <1>3, <2>3 DEF RelayTypeOK, Start
  <2> QED BY Zenon, <2>1, <2>2, <2>3
<1>5. MempoolInv' /\ VotesFinal'
  BY Zenon, <1>1, <1>2, <1>3 DEF MempoolInv, VotesFinal
<1>6. \A u : ReadTo(u)' = ReadTo(u)
  BY Zenon, <1>2, <1>3 DEF ReadTo
<1>7. CursorInv'
  <2>1. \A u \in seeded : u \in Relayers
    BY Zenon, <1>1 DEF RelayTypeOK
  <2>2. CASE Save(v)
    BY Zenon, <1>1, <1>2, <1>6, <2>1, <2>2 DEF RelayTypeOK, CursorInv, Save
  <2>3. CASE Crash(v)
    BY Zenon, <1>1, <1>2, <1>6, <2>1, <2>3 DEF RelayTypeOK, CursorInv, Crash
  <2>4. CASE Start(v)
    BY Zenon, <1>1, <1>2, <1>6, <2>1, <2>4 DEF RelayTypeOK, CursorInv, Start
  <2> QED BY Zenon, <2>2, <2>3, <2>4
<1> QED BY Zenon, <1>3, <1>4, <1>5, <1>7 DEF RelayInv

LEMMA ReplayKeepsInv ==
  ASSUME RelayInv, NEW v \in Relayers, NEW e \in Ids, Replay(v, e)
  PROVE  RelayInv'
<1>1. RelayTypeOK /\ HeadInv /\ MempoolInv /\ VotesFinal /\ CursorInv
  BY Zenon DEF RelayInv
<1>2. /\ e \in Mined(1, EndingBlock) /\ Broadcast(v, {e})
      /\ UNCHANGED ethereumVars /\ UNCHANGED <<prophecies, relayed>>
      /\ UNCHANGED <<running, last, saving, db, seeded>>
  BY Zenon DEF Replay, oracleVars, cursorVars
<1>3. /\ \A first, end : Mined(first, end)' = Mined(first, end)
      /\ Final' = Final /\ HeadInv' /\ UNCHANGED <<head, top, block>>
  BY Zenon, <1>1, <1>2, SameFinal DEF ethereumVars
<1>4. {e} \in SUBSET Ids /\ {e} \subseteq Final
  BY Zenon, <1>1, <1>2, EndingFinal
<1>5. mempool' \in [Relayers -> Seq(SUBSET Ids)] /\ MempoolInv'
  BY Zenon, <1>1, <1>2, <1>4, BroadcastFinal
<1>6. RelayTypeOK'
  BY Zenon, <1>1, <1>2, <1>3, <1>5 DEF RelayTypeOK
<1>7. VotesFinal'
  BY Zenon, <1>1, <1>2, <1>3 DEF VotesFinal
<1>8. CursorInv'
  <2>1. \A u : ReadTo(u)' = ReadTo(u)
    BY Zenon, <1>2, <1>3 DEF ReadTo
  <2> QED BY Zenon, <1>1, <1>2, <2>1 DEF CursorInv
<1> QED BY Zenon, <1>3, <1>5, <1>6, <1>7, <1>8 DEF RelayInv

\* The chain takes a batch of votes on final deposits, as a whole or not at all.
LEMMA VotesKeepInv ==
  ASSUME RelayInv, NEW v \in Validators, NEW batch \in SUBSET Ids, batch \subseteq Final,
         prophecies' = [e \in Ids |-> IF e \in batch THEN Voted(v, e) ELSE prophecies[e]],
         UNCHANGED ethereumVars
  PROVE  prophecies' \in [Ids -> Prophecy] /\ VotesFinal'
<1>1. prophecies \in [Ids -> Prophecy] /\ VotesFinal
  BY Zenon DEF RelayInv, RelayTypeOK
<1>2. Final' = Final
  BY Zenon, SameFinal
<1>3. prophecies' \in [Ids -> Prophecy]
  BY Zenon, <1>1, VotedType
<1>4. ASSUME NEW u \in Validators, NEW e \in Ids, prophecies'[e].claims[u] # NoClaim
      PROVE  e \in Final'
  <2>1. CASE e \in batch
    BY Zenon, <1>2, <2>1
  <2>2. CASE e \notin batch
    <3>1. prophecies'[e] = prophecies[e]
      BY Zenon, <2>2
    <3> QED BY Zenon, <1>1, <1>2, <1>4, <3>1 DEF VotesFinal, Final
  <2> QED BY Zenon, <2>1, <2>2
<1>5. VotesFinal'
  BY Zenon, <1>4 DEF VotesFinal, Final
<1> QED BY Zenon, <1>3, <1>5

LEMMA ChainKeepsInv ==
  ASSUME RelayInv,
         \/ \E v \in Relayers : DeliverTx(v)
         \/ \E v \in Validators \ Relayers, e \in Ids : OtherVote(v, e)
  PROVE  RelayInv'
<1>1. RelayTypeOK /\ HeadInv /\ MempoolInv /\ VotesFinal /\ CursorInv
  BY Zenon DEF RelayInv
<1>2. UNCHANGED ethereumVars /\ UNCHANGED <<running, last, saving, db, seeded, relayed>>
  BY Zenon DEF DeliverTx, OtherVote, cursorVars
<1>3. /\ \A first, end : Mined(first, end)' = Mined(first, end)
      /\ Final' = Final /\ HeadInv' /\ UNCHANGED <<head, top, block>>
  BY Zenon, <1>1, <1>2, SameFinal DEF ethereumVars
<1>4. CursorInv'
  <2>1. \A u : ReadTo(u)' = ReadTo(u)
    BY Zenon, <1>2, <1>3 DEF ReadTo
  <2> QED BY Zenon, <1>1, <1>2, <2>1 DEF CursorInv
<1>5. mempool \in [Relayers -> Seq(SUBSET Ids)] /\ prophecies \in [Ids -> Prophecy]
  BY Zenon, <1>1 DEF RelayTypeOK
<1>6. /\ prophecies' \in [Ids -> Prophecy] /\ VotesFinal'
      /\ mempool' \in [Relayers -> Seq(SUBSET Ids)] /\ MempoolInv'
  <2>1. ASSUME NEW v \in Relayers, DeliverTx(v)
        PROVE  <1>6!:
    <3>1. PICK batch : batch = Head(mempool[v])
      BY Zenon
    <3>2. /\ mempool[v] # <<>>
          /\ prophecies' = Deliver(v, batch)
          /\ mempool' = [mempool EXCEPT ![v] = Tail(@)]
      BY Zenon, <2>1, <3>1 DEF DeliverTx
    <3>3. batch = mempool[v][1] /\ 1 \in DOMAIN mempool[v] /\ batch \in SUBSET Ids
      BY <1>5, <3>1, <3>2
    <3>4. batch \subseteq Final
      BY Zenon, <1>1, <3>3 DEF MempoolInv
    <3>5. prophecies' \in [Ids -> Prophecy] /\ VotesFinal'
      <4>1. CASE prophecies' = prophecies
        BY Zenon, <1>1, <1>3, <1>5, <4>1 DEF VotesFinal
      <4>2. CASE prophecies' = [e \in Ids |-> IF e \in batch THEN Voted(v, e) ELSE prophecies[e]]
        BY Zenon, <1>2, <3>3, <3>4, <4>2, VotesKeepInv, EthereumSubAssumption
      <4> QED BY Zenon, <3>2, <4>1, <4>2 DEF Deliver
    <3>6. mempool' \in [Relayers -> Seq(SUBSET Ids)]
      BY <1>5, <3>2
    <3>7. MempoolInv'
      <4>1. ASSUME NEW u \in Relayers, NEW i \in DOMAIN mempool'[u]
            PROVE  \E k \in DOMAIN mempool[u] : mempool'[u][i] = mempool[u][k]
        <5>1. CASE u = v
          <6>1. PICK s \in Seq(SUBSET Ids) : s = mempool[v] /\ s # <<>> /\ mempool'[u] = Tail(s)
            BY Zenon, <1>5, <3>2, <5>1
          <6>2. i + 1 \in DOMAIN s /\ Tail(s)[i] = s[i + 1]
            BY <6>1
          <6> QED BY Zenon, <5>1, <6>1, <6>2
        <5>2. CASE u # v
          BY Zenon, <1>5, <3>2, <5>2
        <5> QED BY Zenon, <5>1, <5>2
      <4> QED BY ZenonT(40), <1>1, <1>3, <4>1 DEF MempoolInv
    <3> QED BY Zenon, <3>5, <3>6, <3>7
  <2>2. ASSUME NEW v \in Validators \ Relayers, NEW e \in Ids, OtherVote(v, e)
        PROVE  <1>6!:
    <3>1. /\ e \in Mined(1, EndingBlock)
          /\ prophecies' = [prophecies EXCEPT ![e] = Voted(v, e)]
          /\ mempool' = mempool
      BY Zenon, <2>2 DEF OtherVote
    <3>2. {e} \in SUBSET Ids /\ {e} \subseteq Final
      BY Zenon, <1>1, <3>1, EndingFinal
    <3>3. prophecies' = [i \in Ids |-> IF i \in {e} THEN Voted(v, i) ELSE prophecies[i]]
      BY Zenon, <1>5, <3>1
    <3>4. prophecies' \in [Ids -> Prophecy] /\ VotesFinal'
      BY Zenon, <1>2, <3>2, <3>3, VotesKeepInv
    <3> QED BY Zenon, <1>1, <1>3, <1>5, <3>1, <3>4 DEF MempoolInv
  <2> QED BY Zenon, <2>1, <2>2
<1>7. RelayTypeOK'
  BY Zenon, <1>1, <1>2, <1>3, <1>6 DEF RelayTypeOK
<1> QED BY Zenon, <1>3, <1>4, <1>6, <1>7 DEF RelayInv

LEMMA RelayStepInv == RelayInv /\ [RelayNext]_relayVars => RelayInv'
<1> SUFFICES ASSUME RelayInv, [RelayNext]_relayVars PROVE RelayInv'
  BY Zenon
<1>1. CASE RelayNext
  BY Zenon, <1>1, EthereumKeepsInv, NewHeadKeepsInv, CursorKeepsInv, ReplayKeepsInv, ChainKeepsInv
    DEF RelayNext, RelayStep
<1>2. CASE UNCHANGED relayVars
  BY ZenonT(40), <1>2 DEF relayVars, oracleVars, ethereumVars, cursorVars, RelayInv, RelayTypeOK, HeadInv,
    MempoolInv, Final, Mined, VotesFinal, CursorInv, ReadTo
<1> QED BY Zenon, <1>1, <1>2

LEMMA RelayInvariant == RelaySpec => []RelayInv
BY RelayInitInv, RelayStepInv, PTL DEF RelaySpec

\* The chain holds votes only on deposits that no reorganisation of up to TrailingBlocks
\* blocks can undo, however many relayers crash, resend, replay and are delayed.
THEOREM VotesAreFinal == RelaySpec => []VotesFinal
<1>1. RelayInv => VotesFinal
  BY Zenon DEF RelayInv
<1> QED BY <1>1, RelayInvariant, PTL

\* A relayer that had a cursor from the start passes over no deposit.
THEOREM BlocksAreRead == RelaySpec => []EveryBlockRead
<1>1. RelayInv => EveryBlockRead
  BY Zenon DEF RelayInv, CursorInv, EveryBlockRead, ReadTo
<1> QED BY <1>1, RelayInvariant, PTL

----------------------------------------------------------------------------
(* The relayer to Ethereum: what it sends has one nonce, what it passes is  *)
(* finished.                                                                *)

\* The shape of the state, as far as the proofs need it.
CosmosSubTypeOK ==
  /\ blocks \in Seq(Seq(Events))
  /\ lastBlock \in 0 .. Len(blocks) /\ dbBlock \in 0 .. Len(blocks)
  /\ todo = [p \in Processes |-> todo[p]] /\ todo["subscription"] \in Seq(Events)
  /\ step \in [Processes -> {"idle", "prepare", "send", "await", "save"}]
  /\ nonce = [p \in Processes |-> nonce[p]]
  /\ sent = [p \in Processes |-> sent[p]]

\* All that a call sent has the nonce that it asked for, and no call begins with
\* something sent.
SentInv ==
  \A p \in Processes :
    /\ sent[p] \subseteq {nonce[p]}
    /\ step[p] \in {"idle", "prepare", "save"} => sent[p] = {}

\* While the subscription is at the block after the last, the events of the block are
\* finished with or still on its list.
ListInv ==
  LET list == todo["subscription"]
  IN  /\ step["subscription"] # "idle" =>
           /\ subscribed /\ lastBlock # 0 /\ lastBlock < Len(blocks)
           /\ Range(blocks[lastBlock + 1]) \subseteq taken \cup Range(list)
      /\ step["subscription"] \in {"idle", "save"} <=> list = <<>>

\* Memory and database hold the same number as long as the subscription is up.
NumberInv == hadBlock => dbBlock # 0 /\ (subscribed => lastBlock = dbBlock)

CosmosSubInv == CosmosSubTypeOK /\ SentInv /\ ListInv /\ NumberInv /\ EveryBlockFinished

LEMMA CosmosSubInitInv == CosmosSubInit => CosmosSubInv
<1> SUFFICES ASSUME CosmosSubInit PROVE CosmosSubInv
  BY Zenon
<1>1. blocks \in Seq(Seq(Events)) /\ Len(blocks) = 1
  <2>1. PICK c \in Chains : blocks = SubSeq(c, 1, 1)
    BY Zenon DEF CosmosSubInit
  <2>2. c \in Seq(Seq(Events)) /\ c # <<>>
    BY Zenon, CosmosSubAssumption
  <2>3. Len(c) >= 1
    BY <2>2
  <2> QED BY <2>1, <2>2, <2>3
<1>2. /\ todo = [p \in Processes |-> <<>>] /\ step = [p \in Processes |-> "idle"]
      /\ nonce = [p \in Processes |-> 0] /\ sent = [p \in Processes |-> {}]
      /\ lastBlock = 0 /\ dbBlock \in {0, 1} /\ hadBlock = (dbBlock = 1) /\ subscribed = FALSE
  BY Zenon DEF CosmosSubInit
<1>3. CosmosSubTypeOK
  BY <1>1, <1>2 DEF CosmosSubTypeOK, Processes
<1>4. SentInv
  BY Zenon, <1>2 DEF SentInv
<1>5. ListInv
  BY Zenon, <1>2 DEF ListInv, Processes
<1>6. NumberInv
  <2>1. dbBlock = 1 => dbBlock # 0
    OBVIOUS
  <2> QED BY Zenon, <1>2, <2>1 DEF NumberInv
<1>7. EveryBlockFinished
  <2>1. 2 .. dbBlock = {}
    BY <1>2
  <2> QED BY Zenon, <2>1 DEF EveryBlockFinished
<1> QED BY Zenon, <1>3, <1>4, <1>5, <1>6, <1>7 DEF CosmosSubInv

\* What the first element of a list and the rest have.
LEMMA HeadAndTail ==
  ASSUME NEW S, NEW s \in Seq(S), s # <<>>
  PROVE  /\ Tail(s) \in Seq(S)
         /\ Range(s) = {Head(s)} \cup Range(Tail(s))
         /\ Len(s) > 1 <=> Tail(s) # <<>>
<1>1. Tail(s) \in Seq(S) /\ Len(Tail(s)) = Len(s) - 1 /\ Len(s) \in Nat /\ Len(s) >= 1
  OBVIOUS
<1>2. \A i \in 1 .. Len(s) - 1 : Tail(s)[i] = s[i + 1]
  OBVIOUS
<1>3. Range(s) = {Head(s)} \cup Range(Tail(s))
  <2>1. ASSUME NEW i \in DOMAIN s
        PROVE  s[i] = Head(s) \/ \E k \in DOMAIN Tail(s) : s[i] = Tail(s)[k]
    <3>1. CASE i = 1
      BY <3>1
    <3>2. CASE i # 1
      <4>1. i - 1 \in DOMAIN Tail(s) /\ Tail(s)[i - 1] = s[i]
        BY <1>1, <1>2, <2>1, <3>2
      <4> QED BY Zenon, <4>1
    <3> QED BY Zenon, <3>1, <3>2
  <2>2. ASSUME NEW k \in DOMAIN Tail(s)
        PROVE  k + 1 \in DOMAIN s /\ Tail(s)[k] = s[k + 1]
    BY <1>1, <1>2
  <2>3. 1 \in DOMAIN s /\ Head(s) = s[1]
    BY <1>1
  <2> QED BY <2>1, <2>2, <2>3 DEF Range
<1>4. Len(s) > 1 <=> Tail(s) # <<>>
  BY <1>1
<1> QED BY Zenon, <1>1, <1>3, <1>4

\* A new block leaves the earlier ones as they are.
LEMMA NewBlockKeepsInv ==
  ASSUME CosmosSubInv, NewBlock
  PROVE  CosmosSubInv'
<1>1. CosmosSubTypeOK /\ SentInv /\ ListInv /\ NumberInv /\ EveryBlockFinished
  BY Zenon DEF CosmosSubInv
<1>2. UNCHANGED <<subscribed, lastBlock, dbBlock, hadBlock, taken, todo, step, nonce, sent>>
  BY Zenon DEF NewBlock, blockVars, signingVars
<1>3. /\ blocks' \in Seq(Seq(Events)) /\ Len(blocks') = Len(blocks) + 1
      /\ \A b \in 1 .. Len(blocks) : blocks'[b] = blocks[b]
  <2>1. PICK c \in Chains : /\ Len(blocks) < Len(c) /\ Possible(c)
                            /\ blocks' = SubSeq(c, 1, Len(blocks) + 1)
    BY Zenon DEF NewBlock
  <2>2. c \in Seq(Seq(Events)) /\ blocks \in Seq(Seq(Events))
    BY Zenon, <1>1, CosmosSubAssumption DEF CosmosSubTypeOK
  <2>3. PICK n \in Nat : n = Len(blocks)
    BY <2>2
  <2>4. blocks = SubSeq(c, 1, n)
    BY Zenon, <2>1, <2>3 DEF Possible
  <2>5. ASSUME NEW b \in 1 .. n
        PROVE  blocks'[b] = blocks[b]
    <3>1. SubSeq(c, 1, n)[b] = c[b] /\ blocks'[b] = c[b]
      BY <2>1, <2>2, <2>3
    <3> QED BY Zenon, <2>4, <3>1
  <2>6. blocks' \in Seq(Seq(Events)) /\ Len(blocks') = n + 1
    BY <2>1, <2>2, <2>3
  <2> QED BY Zenon, <2>3, <2>5, <2>6
<1>4. /\ Len(blocks) \in Nat /\ lastBlock \in Nat /\ dbBlock \in Nat
      /\ lastBlock <= Len(blocks) /\ dbBlock <= Len(blocks)
  BY <1>1 DEF CosmosSubTypeOK
<1>5. CosmosSubTypeOK'
  <2>1. lastBlock \in 0 .. Len(blocks') /\ dbBlock \in 0 .. Len(blocks')
    BY <1>3, <1>4
  <2> QED BY Zenon, <1>1, <1>2, <1>3, <2>1 DEF CosmosSubTypeOK
<1>6. SentInv' /\ NumberInv'
  BY Zenon, <1>1, <1>2 DEF SentInv, NumberInv
<1>7. ListInv'
  <2>1. lastBlock < Len(blocks) => lastBlock < Len(blocks') /\ blocks'[lastBlock + 1] = blocks[lastBlock + 1]
    BY SMTT(15), <1>3, <1>4
  <2> QED BY Zenon, <1>1, <1>2, <2>1 DEF ListInv
<1>8. EveryBlockFinished'
  <2>1. \A b \in 2 .. dbBlock : b \in 1 .. Len(blocks)
    BY <1>4
  <2>2. \A b \in 2 .. dbBlock : blocks'[b] = blocks[b]
    BY Zenon, <1>3, <2>1
  <2> QED BY Zenon, <1>1, <1>2, <2>2 DEF EveryBlockFinished
<1> QED BY Zenon, <1>5, <1>6, <1>7, <1>8 DEF CosmosSubInv

\* Only Ethereum moves.
LEMMA ChainsKeepInv ==
  ASSUME CosmosSubInv, MineTx \/ \E n \in AllNonces : DropTx(n)
  PROVE  CosmosSubInv'
<1>1. UNCHANGED <<blocks, subscribed, lastBlock, dbBlock, hadBlock, taken, todo, step, nonce, sent>>
  BY Zenon DEF MineTx, DropTx, blockVars, signingVars
<1> QED BY Zenon, <1>1 DEF CosmosSubInv, CosmosSubTypeOK, SentInv, ListInv, NumberInv,
      EveryBlockFinished

\* Process p is done with the first event of its list.
LEMMA FinishedKeepsInv ==
  ASSUME CosmosSubInv, NEW p \in Processes, Finished(p), step[p] \notin {"idle", "save"},
         UNCHANGED <<blocks, subscribed, lastBlock, dbBlock, hadBlock>>
  PROVE  CosmosSubInv'
<1>1. CosmosSubTypeOK /\ SentInv /\ ListInv /\ NumberInv /\ EveryBlockFinished
  BY Zenon DEF CosmosSubInv
<1>2. /\ todo' = [todo EXCEPT ![p] = Tail(@)]
      /\ step' = [step EXCEPT ![p] = IF Len(todo[p]) > 1 THEN "prepare" ELSE Rest(p)]
      /\ nonce' = [nonce EXCEPT ![p] = 0]
      /\ sent' = [sent EXCEPT ![p] = {}]
      /\ taken' = IF p = "subscription" THEN taken \cup {Head(todo[p])} ELSE taken
  BY Zenon DEF Finished
<1>3. /\ \A q \in Processes \ {p} : /\ todo'[q] = todo[q] /\ step'[q] = step[q]
                                    /\ nonce'[q] = nonce[q] /\ sent'[q] = sent[q]
      /\ todo'[p] = Tail(todo[p]) /\ sent'[p] = {}
      /\ step'[p] = IF Len(todo[p]) > 1 THEN "prepare" ELSE Rest(p)
      /\ todo' = [q \in Processes |-> todo'[q]] /\ nonce' = [q \in Processes |-> nonce'[q]]
      /\ sent' = [q \in Processes |-> sent'[q]]
  BY Zenon, <1>1, <1>2 DEF CosmosSubTypeOK
<1>4. /\ step' \in [Processes -> {"idle", "prepare", "send", "await", "save"}]
      /\ taken \subseteq taken'
  BY Zenon, <1>1, <1>2 DEF CosmosSubTypeOK, Rest
<1>5. SentInv'
  BY Zenon, <1>1, <1>3 DEF SentInv
<1>6. EveryBlockFinished' /\ NumberInv'
  BY Zenon, <1>1, <1>4 DEF EveryBlockFinished, NumberInv
<1>7. todo'["subscription"] \in Seq(Events) /\ ListInv'
  <2>1. CASE p = "subscription"
    <3>1. PICK list \in Seq(Events) : list = todo[p]
      BY Zenon, <1>1, <2>1 DEF CosmosSubTypeOK
    <3>2. list # <<>> /\ subscribed /\ lastBlock # 0 /\ lastBlock < Len(blocks)
          /\ Range(blocks[lastBlock + 1]) \subseteq taken \cup Range(list)
      BY Zenon, <1>1, <2>1, <3>1 DEF ListInv
    <3>3. /\ Tail(list) \in Seq(Events) /\ Range(list) = {Head(list)} \cup Range(Tail(list))
          /\ Len(list) > 1 <=> Tail(list) # <<>>
      BY Zenon, <3>1, <3>2, HeadAndTail
    <3>4. /\ todo'["subscription"] = Tail(list)
          /\ step'["subscription"] = IF Len(list) > 1 THEN "prepare" ELSE "save"
          /\ taken' = taken \cup {Head(list)}
      BY Zenon, <1>2, <1>3, <2>1, <3>1 DEF Rest
    <3>5. Range(blocks[lastBlock + 1]) \subseteq taken' \cup Range(Tail(list))
      BY Zenon, <3>2, <3>3, <3>4
    <3>6. step'["subscription"] \in {"idle", "save"} <=> Tail(list) = <<>>
      BY Zenon, <3>3, <3>4
    <3>7. subscribed' /\ lastBlock' = lastBlock /\ blocks' = blocks
      BY Zenon, <3>2
    <3> QED BY Zenon, <3>2, <3>3, <3>4, <3>5, <3>6, <3>7 DEF ListInv
  <2>2. CASE p # "subscription"
    <3>1. todo'["subscription"] = todo["subscription"] /\ step'["subscription"] = step["subscription"]
      BY Zenon, <1>3, <2>2 DEF Processes
    <3> QED BY Zenon, <1>1, <1>4, <3>1 DEF CosmosSubTypeOK, ListInv
  <2> QED BY Zenon, <2>1, <2>2
<1>8. CosmosSubTypeOK'
  BY Zenon, <1>1, <1>3, <1>4, <1>7 DEF CosmosSubTypeOK
<1> QED BY Zenon, <1>5, <1>6, <1>7, <1>8 DEF CosmosSubInv

\* A call asks for its nonce, sends and tries again.
LEMMA AttemptKeepsInv ==
  ASSUME CosmosSubInv, NEW p \in Processes,
         UNCHANGED <<blocks, subscribed, lastBlock, dbBlock, hadBlock, taken, todo>>,
         step[p] \notin {"idle", "save"}, step' \in {[step EXCEPT ![p] = "send"], [step EXCEPT ![p] = "await"]},
         \/ step[p] = "prepare" /\ sent' = sent /\ \E n : nonce' = [nonce EXCEPT ![p] = n]
         \/ nonce' = nonce /\ (sent' = sent \/ sent' = [sent EXCEPT ![p] = @ \cup {nonce[p]}])
  PROVE  CosmosSubInv'
<1>1. CosmosSubTypeOK /\ SentInv /\ ListInv /\ NumberInv /\ EveryBlockFinished
  BY Zenon DEF CosmosSubInv
<1>2. step' \in [Processes -> {"idle", "prepare", "send", "await", "save"}]
  BY Zenon, <1>1 DEF CosmosSubTypeOK
<1>3. \A q \in Processes : \/ step'[q] = step[q] /\ q # p
                           \/ step'[q] \in {"send", "await"} /\ step[q] \notin {"idle", "save"} /\ q = p
  BY Zenon, <1>1 DEF CosmosSubTypeOK
<1>4. nonce' = [q \in Processes |-> nonce'[q]] /\ sent' = [q \in Processes |-> sent'[q]]
  BY Zenon, <1>1 DEF CosmosSubTypeOK
<1>5. CosmosSubTypeOK'
  BY Zenon, <1>1, <1>2, <1>4 DEF CosmosSubTypeOK
<1>6. SentInv'
  <2>1. ASSUME NEW q \in Processes
        PROVE  sent'[q] \subseteq {nonce'[q]} /\ (step'[q] \in {"idle", "prepare", "save"} => sent'[q] = {})
    <3>1. sent[q] \subseteq {nonce[q]} /\ (step[q] \in {"idle", "prepare", "save"} => sent[q] = {})
      BY Zenon, <1>1 DEF SentInv
    <3>2. CASE q = p
      BY Zenon, <1>1, <1>3, <3>1, <3>2 DEF CosmosSubTypeOK
    <3>3. CASE q # p
      BY Zenon, <1>1, <1>3, <3>1, <3>3 DEF CosmosSubTypeOK
    <3> QED BY Zenon, <3>2, <3>3
  <2> QED BY Zenon, <2>1 DEF SentInv
<1>7. ListInv'
  <2>1. "subscription" \in Processes
    BY Zenon DEF Processes
  <2>2. /\ step'["subscription"] \in {"idle", "save"} <=> step["subscription"] \in {"idle", "save"}
        /\ step'["subscription"] # "idle" => step["subscription"] # "idle"
    BY Zenon, <1>3, <2>1
  <2> QED BY Zenon, <1>1, <2>2 DEF ListInv
<1>8. NumberInv' /\ EveryBlockFinished'
  BY Zenon, <1>1 DEF NumberInv, EveryBlockFinished
<1> QED BY Zenon, <1>5, <1>6, <1>7, <1>8 DEF CosmosSubInv

LEMMA FailedKeepsInv ==
  ASSUME CosmosSubInv, NEW p \in Processes, Failed(p), step[p] \notin {"idle", "save"},
         UNCHANGED <<blocks, subscribed, lastBlock, dbBlock, hadBlock>>
  PROVE  CosmosSubInv'
<1>1. CASE Finished(p)
  BY Zenon, <1>1, FinishedKeepsInv
<1>2. CASE step' = [step EXCEPT ![p] = "send"] /\ UNCHANGED <<todo, nonce, sent, taken>>
  BY Zenon, <1>2, AttemptKeepsInv
<1> QED BY Zenon, <1>1, <1>2 DEF Failed

LEMMA SignKeepsInv ==
  ASSUME CosmosSubInv, NEW p \in Processes, Sign(p)
  PROVE  CosmosSubInv'
<1>1. CASE GiveUp(p)
  <2>1. Finished(p) /\ step[p] \notin {"idle", "save"} /\ UNCHANGED <<blocks, subscribed, lastBlock, dbBlock, hadBlock>>
    BY Zenon, <1>1 DEF GiveUp, chainVars
  <2> QED BY Zenon, <2>1, FinishedKeepsInv
<1>2. CASE SendFails(p)
  <2>1. Failed(p) /\ step[p] \notin {"idle", "save"} /\ UNCHANGED <<blocks, subscribed, lastBlock, dbBlock, hadBlock>>
    BY Zenon, <1>2 DEF SendFails, chainVars
  <2> QED BY Zenon, <2>1, FailedKeepsInv
<1>3. CASE TransactionReceipt(p)
  <2>1. Finished(p) /\ step[p] \notin {"idle", "save"} /\ UNCHANGED <<blocks, subscribed, lastBlock, dbBlock, hadBlock>>
    BY Zenon, <1>3 DEF TransactionReceipt, chainVars
  <2> QED BY Zenon, <2>1, FinishedKeepsInv
<1>4. CASE NoReceipt(p)
  <2>1. Failed(p) /\ step[p] \notin {"idle", "save"} /\ UNCHANGED <<blocks, subscribed, lastBlock, dbBlock, hadBlock>>
    BY Zenon, <1>4 DEF NoReceipt, chainVars
  <2> QED BY Zenon, <2>1, FailedKeepsInv
<1>5. ASSUME NEW e \in Events, tryInitRelayConfig(p, e)
      PROVE  CosmosSubInv'
  <2>1. /\ step[p] = "prepare" /\ step' = [step EXCEPT ![p] = "send"]
        /\ \E n : nonce' = [nonce EXCEPT ![p] = n]
        /\ UNCHANGED <<blocks, subscribed, lastBlock, dbBlock, hadBlock, taken, todo, sent>>
    BY Zenon, <1>5 DEF tryInitRelayConfig, chainVars, blockVars
  <2> QED BY Zenon, <2>1, AttemptKeepsInv
<1>6. ASSUME NEW e \in Events, NewProphecyClaim(p, e)
      PROVE  CosmosSubInv'
  <2>1. /\ step[p] = "send" /\ step' = [step EXCEPT ![p] = "await"]
        /\ sent' = [sent EXCEPT ![p] = @ \cup {nonce[p]}]
        /\ UNCHANGED <<blocks, subscribed, lastBlock, dbBlock, hadBlock, taken, todo, nonce>>
    BY Zenon, <1>6 DEF NewProphecyClaim, Taken, blockVars
  <2> QED BY Zenon, <2>1, AttemptKeepsInv
<1> QED BY Zenon, <1>1, <1>2, <1>3, <1>4, <1>5, <1>6 DEF Sign

\* A process that is idle gets a list; that of the subscription is the next block.
LEMMA BeginKeepsInv ==
  ASSUME CosmosSubInv, NEW p \in Processes, NEW events, Begin(p, events), step[p] = "idle",
         UNCHANGED <<lastBlock, dbBlock>>,
         p = "subscription" => /\ subscribed /\ lastBlock # 0 /\ lastBlock < Len(blocks)
                               /\ events = blocks[lastBlock + 1]
  PROVE  CosmosSubInv'
<1>1. CosmosSubTypeOK /\ SentInv /\ ListInv /\ NumberInv /\ EveryBlockFinished
  BY Zenon DEF CosmosSubInv
<1>2. /\ todo' = [todo EXCEPT ![p] = events]
      /\ step' = [step EXCEPT ![p] = IF events = <<>> THEN Rest(p) ELSE "prepare"]
      /\ UNCHANGED <<blocks, subscribed, lastBlock, dbBlock, hadBlock, taken, nonce, sent>>
  BY Zenon DEF Begin, chainVars
<1>3. /\ \A q \in Processes \ {p} : todo'[q] = todo[q] /\ step'[q] = step[q]
      /\ todo'[p] = events /\ todo' = [q \in Processes |-> todo'[q]]
      /\ step'[p] = IF events = <<>> THEN Rest(p) ELSE "prepare"
      /\ step' \in [Processes -> {"idle", "prepare", "send", "await", "save"}]
  BY Zenon, <1>1, <1>2 DEF CosmosSubTypeOK, Rest
<1>4. SentInv'
  <2>1. sent[p] = {}
    BY Zenon, <1>1 DEF SentInv
  <2> QED BY Zenon, <1>1, <1>2, <1>3, <2>1 DEF SentInv
<1>5. NumberInv' /\ EveryBlockFinished'
  BY Zenon, <1>1, <1>2 DEF NumberInv, EveryBlockFinished
<1>6. todo'["subscription"] \in Seq(Events) /\ ListInv'
  <2>1. CASE p = "subscription"
    <3>1. lastBlock + 1 \in 1 .. Len(blocks) /\ blocks \in Seq(Seq(Events))
      BY <1>1, <2>1 DEF CosmosSubTypeOK
    <3>2. events \in Seq(Events)
      BY <2>1, <3>1
    <3>3. /\ todo'["subscription"] = events
          /\ step'["subscription"] = IF events = <<>> THEN "save" ELSE "prepare"
      BY Zenon, <1>3, <2>1 DEF Rest
    <3>4. step'["subscription"] \in {"idle", "save"} <=> events = <<>>
      BY Zenon, <3>3
    <3> QED BY Zenon, <1>2, <2>1, <3>2, <3>3, <3>4 DEF ListInv
  <2>2. CASE p # "subscription"
    <3>1. todo'["subscription"] = todo["subscription"] /\ step'["subscription"] = step["subscription"]
      BY Zenon, <1>3, <2>2 DEF Processes
    <3> QED BY Zenon, <1>1, <1>2, <3>1 DEF CosmosSubTypeOK, ListInv
  <2> QED BY Zenon, <2>1, <2>2
<1>7. CosmosSubTypeOK'
  BY Zenon, <1>1, <1>2, <1>3, <1>6 DEF CosmosSubTypeOK
<1> QED BY Zenon, <1>4, <1>5, <1>6, <1>7 DEF CosmosSubInv

\* The block is finished when its number is saved.
LEMMA SaveKeepsInv ==
  ASSUME CosmosSubInv, SaveBlock
  PROVE  CosmosSubInv'
<1>1. CosmosSubTypeOK /\ SentInv /\ ListInv /\ NumberInv /\ EveryBlockFinished
  BY Zenon DEF CosmosSubInv
<1>2. /\ subscribed /\ step["subscription"] = "save" /\ lastBlock' = lastBlock + 1 /\ dbBlock' = lastBlock + 1
      /\ step' = [step EXCEPT !["subscription"] = "idle"]
      /\ UNCHANGED <<blocks, subscribed, hadBlock, taken, todo, nonce, sent>>
  BY Zenon DEF SaveBlock, chainVars
<1>3. /\ lastBlock < Len(blocks) /\ todo["subscription"] = <<>>
      /\ Range(blocks[lastBlock + 1]) \subseteq taken
  <2>1. /\ lastBlock < Len(blocks) /\ todo["subscription"] = <<>>
        /\ Range(blocks[lastBlock + 1]) \subseteq taken \cup Range(todo["subscription"])
    BY Zenon, <1>1, <1>2 DEF ListInv
  <2> QED BY <2>1 DEF Range
<1>4. /\ \A p \in Processes : step'[p] = step[p] \/ (step'[p] = "idle" /\ step[p] = "save")
      /\ step'["subscription"] = "idle"
      /\ step' \in [Processes -> {"idle", "prepare", "send", "await", "save"}]
  BY Zenon, <1>1, <1>2 DEF CosmosSubTypeOK, Processes
<1>5. lastBlock \in Nat /\ lastBlock + 1 \in 0 .. Len(blocks) /\ lastBlock + 1 # 0
  BY <1>1, <1>3 DEF CosmosSubTypeOK
<1>6. CosmosSubTypeOK'
  BY Zenon, <1>1, <1>2, <1>4, <1>5 DEF CosmosSubTypeOK
<1>7. SentInv'
  BY Zenon, <1>1, <1>2, <1>4 DEF SentInv
<1>8. ListInv'
  BY Zenon, <1>2, <1>3, <1>4 DEF ListInv
<1>9. NumberInv'
  BY Zenon, <1>2, <1>5 DEF NumberInv
<1>10. EveryBlockFinished'
  <2>1. hadBlock => lastBlock = dbBlock
    BY Zenon, <1>1, <1>2 DEF NumberInv
  <2>2. \A b \in 2 .. lastBlock + 1 : b \in 2 .. lastBlock \/ b = lastBlock + 1
    BY <1>5
  <2> QED BY Zenon, <1>1, <1>2, <1>3, <2>1, <2>2 DEF EveryBlockFinished
<1> QED BY Zenon, <1>6, <1>7, <1>8, <1>9, <1>10 DEF CosmosSubInv

\* The subscription comes up, goes down, or sees its first block without a number.
LEMMA SubscriptionKeepsInv ==
  ASSUME CosmosSubInv, FirstBlock \/ Stop \/ Subscribe
  PROVE  CosmosSubInv'
<1>1. CosmosSubTypeOK /\ SentInv /\ ListInv /\ NumberInv /\ EveryBlockFinished
  BY Zenon DEF CosmosSubInv
<1>2. "subscription" \in Processes
  BY Zenon DEF Processes
<1>3. CASE FirstBlock
  <2>1. /\ subscribed /\ lastBlock = 0 /\ lastBlock' = Len(blocks)
        /\ UNCHANGED <<blocks, subscribed, dbBlock, hadBlock, taken, todo, step, nonce, sent>>
    BY Zenon, <1>3 DEF FirstBlock, chainVars, signingVars
  <2>2. step["subscription"] = "idle" /\ ~hadBlock
    BY Zenon, <1>1, <2>1 DEF ListInv, NumberInv
  <2>3. CosmosSubTypeOK'
    BY <1>1, <2>1 DEF CosmosSubTypeOK
  <2>4. SentInv' /\ NumberInv' /\ EveryBlockFinished'
    BY Zenon, <1>1, <2>1, <2>2 DEF SentInv, NumberInv, EveryBlockFinished
  <2>5. ListInv'
    BY Zenon, <1>1, <2>1, <2>2 DEF ListInv
  <2> QED BY Zenon, <2>3, <2>4, <2>5 DEF CosmosSubInv
<1>4. CASE Stop
  <2>1. /\ subscribed' = FALSE /\ lastBlock' = 0
        /\ todo' = [todo EXCEPT !["subscription"] = <<>>]
        /\ step' = [step EXCEPT !["subscription"] = "idle"]
        /\ nonce' = [nonce EXCEPT !["subscription"] = 0]
        /\ sent' = [sent EXCEPT !["subscription"] = {}]
        /\ UNCHANGED <<blocks, dbBlock, hadBlock, taken>>
    BY Zenon, <1>4 DEF Stop, chainVars
  <2>2. CosmosSubTypeOK'
    <3>1. /\ todo' = [p \in Processes |-> todo'[p]] /\ nonce' = [p \in Processes |-> nonce'[p]]
          /\ sent' = [p \in Processes |-> sent'[p]]
      BY Zenon, <1>1, <2>1 DEF CosmosSubTypeOK
    <3>2. todo'["subscription"] = <<>>
      BY Zenon, <1>1, <1>2, <2>1 DEF CosmosSubTypeOK
    <3>3. step' \in [Processes -> {"idle", "prepare", "send", "await", "save"}]
      BY Zenon, <1>1, <2>1 DEF CosmosSubTypeOK
    <3>4. <<>> \in Seq(Events) /\ 0 \in 0 .. Len(blocks)
      BY <1>1 DEF CosmosSubTypeOK
    <3> QED BY Zenon, <1>1, <2>1, <3>1, <3>2, <3>3, <3>4 DEF CosmosSubTypeOK
  <2>3. SentInv'
    BY Zenon, <1>1, <1>2, <2>1 DEF CosmosSubTypeOK, SentInv
  <2>4. step'["subscription"] = "idle" /\ todo'["subscription"] = <<>>
    BY Zenon, <1>1, <1>2, <2>1 DEF CosmosSubTypeOK
  <2>5. ListInv'
    BY Zenon, <2>4 DEF ListInv
  <2>6. NumberInv' /\ EveryBlockFinished'
    BY Zenon, <1>1, <2>1 DEF NumberInv, EveryBlockFinished
  <2> QED BY Zenon, <2>2, <2>3, <2>5, <2>6 DEF CosmosSubInv
<1>5. CASE Subscribe
  <2>1. /\ ~subscribed /\ subscribed' = TRUE /\ lastBlock' = dbBlock
        /\ UNCHANGED <<blocks, dbBlock, hadBlock, taken, todo, step, nonce, sent>>
    BY Zenon, <1>5 DEF Subscribe, chainVars, signingVars
  <2>2. step["subscription"] = "idle"
    BY Zenon, <1>1, <2>1 DEF ListInv
  <2>3. CosmosSubTypeOK'
    BY Zenon, <1>1, <2>1 DEF CosmosSubTypeOK
  <2>4. SentInv' /\ NumberInv' /\ EveryBlockFinished'
    BY Zenon, <1>1, <2>1 DEF SentInv, NumberInv, EveryBlockFinished
  <2>5. ListInv'
    BY Zenon, <1>1, <2>1, <2>2 DEF ListInv
  <2> QED BY Zenon, <2>3, <2>4, <2>5 DEF CosmosSubInv
<1> QED BY Zenon, <1>3, <1>4, <1>5

LEMMA CosmosSubStepInv == CosmosSubInv /\ [CosmosSubNext]_cosmosSubVars => CosmosSubInv'
<1> SUFFICES ASSUME CosmosSubInv, [CosmosSubNext]_cosmosSubVars PROVE CosmosSubInv'
  BY Zenon
<1>1. CASE ReadBlock
  <2>1. "subscription" \in Processes
    BY Zenon DEF Processes
  <2>2. /\ subscribed /\ step["subscription"] = "idle" /\ lastBlock # 0 /\ lastBlock < Len(blocks)
        /\ Begin("subscription", blocks[lastBlock + 1])
        /\ UNCHANGED <<lastBlock, dbBlock>>
    BY Zenon, <1>1 DEF ReadBlock
  <2> QED BY Zenon, <2>1, <2>2, BeginKeepsInv
<1>2. CASE ReplayEvents
  <2>1. "replay" \in Processes /\ "replay" # "subscription"
    BY Zenon DEF Processes
  <2>2. PICK events : Begin("replay", events)
    BY Zenon, <1>2 DEF ReplayEvents
  <2>3. step["replay"] = "idle" /\ UNCHANGED <<lastBlock, dbBlock>>
    BY Zenon, <1>2 DEF ReplayEvents
  <2> QED BY Zenon, <2>1, <2>2, <2>3, BeginKeepsInv
<1>3. CASE UNCHANGED cosmosSubVars
  BY Zenon, <1>3 DEF cosmosSubVars, chainVars, blockVars, signingVars, CosmosSubInv, CosmosSubTypeOK,
    SentInv, ListInv, NumberInv, EveryBlockFinished
<1>4. CASE NewBlock
  BY Zenon, <1>4, NewBlockKeepsInv
<1>5. CASE MineTx \/ \E n \in AllNonces : DropTx(n)
  BY Zenon, <1>5, ChainsKeepInv
<1>6. CASE FirstBlock \/ Stop \/ Subscribe
  BY Zenon, <1>6, SubscriptionKeepsInv
<1>7. CASE SaveBlock
  BY Zenon, <1>7, SaveKeepsInv
<1>8. CASE \E p \in Processes : Sign(p)
  BY Zenon, <1>8, SignKeepsInv
<1> QED BY Zenon, <1>1, <1>2, <1>3, <1>4, <1>5, <1>6, <1>7, <1>8 DEF CosmosSubNext

LEMMA CosmosSubInvariant == CosmosSubSpec => []CosmosSubInv
BY CosmosSubInitInv, CosmosSubStepInv, PTL DEF CosmosSubSpec

\* No call of handleBurnLockMsg, of the subscription or of the replay, brings two
\* transactions to Ethereum, whatever the number of attempts.
THEOREM OneTransaction == CosmosSubSpec => []OneTransactionPerCall
<1>1. CosmosSubInv => OneTransactionPerCall
  BY Zenon DEF CosmosSubInv, SentInv, OneTransactionPerCall
<1> QED BY <1>1, CosmosSubInvariant, PTL

\* A subscription that had a block number from the start has finished with every event of
\* the blocks up to its number, whatever crashed in between.
THEOREM BlocksAreFinished == CosmosSubSpec => []EveryBlockFinished
<1>1. CosmosSubInv => EveryBlockFinished
  BY Zenon DEF CosmosSubInv
<1> QED BY <1>1, CosmosSubInvariant, PTL
=============================================================================
