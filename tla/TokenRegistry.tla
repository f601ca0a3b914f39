--------------------------- MODULE TokenRegistry ----------------------------
(***************************************************************************)
(* The registry of tokens (x/tokenregistry): an ordered list of entries    *)
(* that an admin account edits.  Names are compared without regard to the  *)
(* case of their letters, and a whole list may be set that names a token   *)
(* more than once.                                                         *)
(***************************************************************************)
EXTENDS Sequences, FiniteSetsExt, Functions

CONSTANTS
  Denoms,          \* names of coins
  NoDenom,         \* the empty name
  Fold,            \* each name in lower case
  Accounts,
  AdminAccount,
  Entries,         \* valid entries that a message may carry
  Lists            \* lists of valid entries that a message may carry

Permissions == {"CLP", "IBCEXPORT", "IBCIMPORT"}

RegistryEntry ==
  [denom : Denoms, unit : Denoms \cup {NoDenom}, decimals : Nat \ {0},
   permissions : SUBSET Permissions]

ASSUME RegistryAssumption ==
  /\ NoDenom \notin Denoms
  /\ DOMAIN Fold = Denoms
  /\ AdminAccount \in Accounts
  /\ Entries \subseteq RegistryEntry
  /\ Lists \subseteq Seq(Entries)

VARIABLE registry

\* strings.EqualFold of two names.
EqualFold(m, n) == NoDenom \notin {m, n} /\ Fold[m] = Fold[n]

\* The position of the first entry of a name in a list, 0 when there is none.
Find(wl, denom) ==
  LET named == {i \in DOMAIN wl : EqualFold(wl[i].denom, denom)}
  IN  IF named = {} THEN 0 ELSE Min(named)

Position(denom) == Find(registry, denom)

Listed(denom) == Position(denom) # 0

GetEntry(denom) == registry[Position(denom)]

CheckEntryPermissions(entry, required) == required \subseteq entry.permissions

\* The n-th smallest member of a set of numbers.
Nth(S, n) == CHOOSE i \in S : Cardinality({j \in S : j <= i}) = n

SetToken(entry) ==
  registry' = IF Listed(entry.denom)
                THEN [registry EXCEPT ![Position(entry.denom)] = entry]
                ELSE Append(registry, entry)

\* Mutant: only the first entry of the name is dropped.
RemoveToken_First(denom) ==
  LET first == Position(denom)
  IN  registry' = IF Listed(denom)
                    THEN SubSeq(registry, 1, first - 1) \o SubSeq(registry, first + 1, Len(registry))
                    ELSE registry

\* The entries of other names are copied, in their order.
RemoveToken(denom) ==
  LET kept == {i \in DOMAIN registry : ~EqualFold(registry[i].denom, denom)}
  IN  registry' = [n \in 1 .. Cardinality(kept) |-> registry[Nth(kept, n)]]

IsAdminAccount(account) == account = AdminAccount

Register(from, entry) ==
  /\ IsAdminAccount(from)
  /\ SetToken(entry)

SetRegistry(from, list) ==
  /\ IsAdminAccount(from)
  /\ registry' = list

Deregister(from, denom) ==
  /\ IsAdminAccount(from)
  /\ RemoveToken(denom)

\* Entries for pools that can be exported may also be imported from version 2 on.
MigrateToVer2 ==
  registry' = [i \in DOMAIN registry |->
    IF registry[i].decimals > 9 /\ CheckEntryPermissions(registry[i], {"CLP", "IBCEXPORT"})
      THEN [registry[i] EXCEPT !.permissions = @ \cup {"IBCIMPORT"}]
      ELSE registry[i]]

\* The entries that the names of S find.
Found(S) == [d \in {n \in S : Listed(n)} |-> GetEntry(d)]

Others(denom) == {n \in Denoms : ~EqualFold(n, denom)}

\* The list answers as a map from names to entries would, also when a list with repeated
\* names was set (GetEntry, SetToken and RemoveToken each decide which of them counts): a
\* registered entry is the one found, a removed name is not found, other names find what
\* they found before.
LookupFollowsMessages ==
  [][registry' # registry =>
       /\ \A e \in Entries : Register(AdminAccount, e) =>
            /\ GetEntry(e.denom)' = e
            /\ Found(Others(e.denom))' = Found(Others(e.denom))
       /\ \A d \in Denoms : Deregister(AdminAccount, d) =>
            /\ ~Listed(d)'
            /\ Found(Others(d))' = Found(Others(d))]_registry
=============================================================================
