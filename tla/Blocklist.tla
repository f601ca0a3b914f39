------------------------------ MODULE Blocklist ------------------------------
(***************************************************************************)
(* The contract Blocklist: an array of addresses and the index of each     *)
(* address in it.  Removing an address moves the last one into its place;  *)
(* the index of the removed address is left behind.  A call runs one step  *)
(* for each of its addresses; a step whose requirement fails reverts the   *)
(* storage to what it was when the call began.                             *)
(***************************************************************************)
EXTENDS Integers, Sequences

CONSTANTS
  Addresses,       \* addresses
  NoOwner,        \* the owner after renounceOwnership
  Batches,        \* arguments of the batch calls
  NoCall          \* no call is running

ASSUME BlocklistAssumption ==
  /\ Batches \subseteq Seq(Addresses)
  /\ NoOwner \notin Addresses
  /\ NoCall \notin [op : {"add", "remove"}, accounts : Batches, done : Nat]
  /\ NoCall \notin [op : {"add", "remove"}, accounts : Batches]

VARIABLES
  listOwner,      \* _owner
  userList,       \* _userList, counted from 1
  userIndex,      \* _userIndex, counted from 0 as in the contract
  call,           \* the running call and how many of its addresses are done
  saved           \* the storage when it began

blocklistVars == <<listOwner, userList, userIndex, call, saved>>

Operations == {"add", "remove"}

Members(list) == {list[i] : i \in DOMAIN list}

NextAccount == call.accounts[call.done + 1]

InCall(op) == call # NoCall /\ call.op = op

isBlocklisted(account) ==
  /\ Len(userList) # 0
  /\ userIndex[account] < Len(userList)
  /\ userList[userIndex[account] + 1] = account

----------------------------------------------------------------------------
(* The steps.                                                               *)

\* addToBlocklist, removeFromBlocklist and their batch forms are entered.
Enter(sender, op, accounts) ==
  /\ call = NoCall
  /\ sender = listOwner
  /\ call' = [op |-> op, accounts |-> accounts, done |-> 0]
  /\ saved' = [list |-> userList, index |-> userIndex]
  /\ UNCHANGED <<listOwner, userList, userIndex>>

addToBlocklist ==
  /\ InCall("add")
  /\ call.done < Len(call.accounts)
  /\ ~isBlocklisted(NextAccount)
  /\ userIndex' = [userIndex EXCEPT ![NextAccount] = Len(userList)]
  /\ userList' = Append(userList, NextAccount)
  /\ call' = [call EXCEPT !.done = @ + 1]
  /\ UNCHANGED <<listOwner, saved>>

removeFromBlocklist ==
  /\ InCall("remove")
  /\ call.done < Len(call.accounts)
  /\ isBlocklisted(NextAccount)
  /\ LET rowToDelete == userIndex[NextAccount]
         keyToMove   == userList[Len(userList)]
     IN  /\ userList' = [i \in 1 .. Len(userList) - 1 |->
                           IF i = rowToDelete + 1 THEN keyToMove ELSE userList[i]]
         /\ userIndex' = [userIndex EXCEPT ![keyToMove] = rowToDelete]
  /\ call' = [call EXCEPT !.done = @ + 1]
  /\ UNCHANGED <<listOwner, saved>>

\* Mutant: the addresses done before the one that fails stay.
Revert_Partial ==
  /\ call # NoCall
  /\ call.done < Len(call.accounts)
  /\ isBlocklisted(NextAccount) <=> call.op = "add"
  /\ call' = NoCall
  /\ UNCHANGED <<listOwner, userList, userIndex, saved>>

Revert ==
  /\ call # NoCall
  /\ call.done < Len(call.accounts)
  /\ isBlocklisted(NextAccount) <=> call.op = "add"
  /\ userList' = saved.list
  /\ userIndex' = saved.index
  /\ call' = NoCall
  /\ UNCHANGED <<listOwner, saved>>

Return ==
  /\ call # NoCall
  /\ call.done = Len(call.accounts)
  /\ call' = NoCall
  /\ UNCHANGED <<listOwner, userList, userIndex, saved>>

\* Ownable.
transferOwnership(sender, newOwner) ==
  /\ call = NoCall
  /\ sender = listOwner
  /\ listOwner' = newOwner
  /\ UNCHANGED <<userList, userIndex, call, saved>>

----------------------------------------------------------------------------
NewIndex == [account \in Addresses |-> 0]

BlocklistInit ==
  /\ listOwner \in Addresses
  /\ userList = << >>
  /\ userIndex = NewIndex
  /\ call = NoCall
  /\ saved = [list |-> << >>, index |-> NewIndex]

BlocklistNext ==
  \/ \E sender \in Addresses, op \in Operations, accounts \in Batches : Enter(sender, op, accounts)
  \/ addToBlocklist
  \/ removeFromBlocklist
  \/ Revert
  \/ Return
  \/ \E sender \in Addresses, newOwner \in Addresses \cup {NoOwner} : transferOwnership(sender, newOwner)

BlocklistSpec == BlocklistInit /\ [][BlocklistNext]_blocklistVars

----------------------------------------------------------------------------
(* What the blocklist promises.                                             *)

BlocklistTypeOK ==
  /\ listOwner \in Addresses \cup {NoOwner}
  /\ userList \in Seq(Addresses)
  /\ userIndex \in [Addresses -> Nat]
  /\ call = NoCall \/ call \in [op : Operations, accounts : Batches, done : Nat]
  /\ saved \in [list : Seq(Addresses), index : [Addresses -> Nat]]

\* isBlocklisted, which looks at one entry of an array that shrinks and at an index
\* that removal leaves behind, answers true for the addresses in the array and for
\* no other.
AnswersMatchList == \A account \in Addresses : isBlocklisted(account) <=> account \in Members(userList)

\* What a caller sees: the addresses in the list between calls, and the call.
Committed == Members(IF call = NoCall THEN userList ELSE saved.list)

Requested == IF call = NoCall THEN NoCall ELSE [op |-> call.op, accounts |-> call.accounts]

AddressSet == INSTANCE AddressSet WITH members <- Committed, request <- Requested

\* The array and the index implement a set of addresses: a call adds or removes all
\* of its addresses, and fails, changing nothing, exactly when "at least one of the
\* addresses was already blocklisted" (batchAddToBlocklist) or was not.
ImplementsAddressSet == AddressSet!SetSpec
=============================================================================
