----------------------------- MODULE AddressSet -----------------------------
(***************************************************************************)
(* What the blocklist promises: a set of addresses.  A request adds or     *)
(* removes a list of addresses; it is carried out as a whole, or, when one *)
(* of the addresses cannot be added or removed, not at all.                *)
(***************************************************************************)
EXTENDS Integers, Sequences

CONSTANTS Addresses, NoCall

VARIABLES members, request

Operations == {"add", "remove"}

Members(list) == {list[i] : i \in DOMAIN list}

Distinct(list) == \A i, j \in DOMAIN list : list[i] = list[j] => i = j

Possible(op, accounts, S) ==
  /\ Distinct(accounts)
  /\ op = "add" => Members(accounts) \cap S = {}
  /\ op = "remove" => Members(accounts) \subseteq S

Applied(op, accounts, S) ==
  IF op = "add" THEN S \cup Members(accounts) ELSE S \ Members(accounts)

Request ==
  /\ request = NoCall
  /\ request' \in [op : Operations, accounts : Seq(Addresses)]
  /\ UNCHANGED members

Perform ==
  /\ request # NoCall
  /\ Possible(request.op, request.accounts, members)
  /\ members' = Applied(request.op, request.accounts, members)
  /\ request' = NoCall

Refuse ==
  /\ request # NoCall
  /\ ~Possible(request.op, request.accounts, members)
  /\ request' = NoCall
  /\ UNCHANGED members

SetInit == members = {} /\ request = NoCall

SetNext == Request \/ Perform \/ Refuse

SetSpec == SetInit /\ [][SetNext]_<<members, request>>
=============================================================================
