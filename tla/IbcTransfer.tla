---------------------------- MODULE IbcTransfer -----------------------------
(***************************************************************************)
(* Transfers of tokens to and from other chains (x/ibctransfer), allowed   *)
(* and converted by the token registry.  The transfer module and the       *)
(* channels of ibc-go are external: a coin of this chain is held in escrow *)
(* for each channel while a voucher for it is abroad, a coin from abroad   *)
(* is minted here as a voucher, a packet is received, or refused, or times *)
(* out, once, and a refused packet leaves no trace in the state.           *)
(*                                                                         *)
(* Some coins were sent abroad as an alias with fewer decimals: alias and  *)
(* coin are both in escrow.  They come home as the alias and are converted *)
(* here.                                                                   *)
(***************************************************************************)
EXTENDS TokenRegistry, Weights

CONSTANTS
  Users,
  Channels,
  Voucher,        \* the name that the token of the chain behind a channel has here
  AliasOf,        \* the coin that each alias stands for, and
  Precision,      \* the coins that one of the alias is worth
  InitialHeld,    \* coins that the users hold at first,
  InitialAliases, \* aliases of each channel that are abroad,
  InitialList,    \* the registry
  Amounts,
  MaxPackets      \* bound on the packets

VARIABLES
  held,      \* balances of the users
  escrow,    \* balances of the escrow account of each channel
  abroad,    \* coins of this chain that the chain behind each channel holds vouchers for
  vouched,   \* tokens of that chain that are in escrow there
  packets,   \* packets on their way
  sent       \* number of packets sent so far

Aliases == DOMAIN AliasOf

\* The coins that exist: those of the users, of aliases, and of other chains.
Coins ==
  {d \in Denoms : InitialHeld[d] > 0} \cup Aliases \cup Range(AliasOf) \cup Range(Voucher)

ASSUME IbcAssumption ==
  /\ IsFiniteSet(Users) /\ IsFiniteSet(Channels) /\ IsFiniteSet(Aliases)
  /\ Voucher \in Injection(Channels, Denoms)
  /\ Aliases \subseteq Denoms /\ AliasOf \in [Aliases -> Denoms]
  /\ Precision \in [Aliases -> Nat \ {0}]
  /\ InitialHeld \in [Denoms -> Nat]
  /\ InitialAliases \in [Channels -> Nat]
  /\ InitialList \in Seq(Entries)
  /\ Amounts \subseteq Nat \ {0}
  /\ MaxPackets \in Nat

\* A coin from another chain is none of this chain's and none of its aliases, and the names
\* of two coins that exist differ by more than the case of their letters.
ASSUME CoinsAssumption ==
  /\ \A c \in Channels : InitialHeld[Voucher[c]] = 0
  /\ Range(Voucher) \cap (Aliases \cup Range(AliasOf)) = {}
  /\ \A d, e \in Coins : Fold[d] = Fold[e] => d = e

\* The entries that the admin writes agree with the aliases that are abroad: the entry of an
\* alias names another unit, and where one entry is converted into another, the first is that
\* of an alias, the second that of its coin, and the decimals differ by its precision.
ASSUME EntriesAssumption ==
  /\ \A e \in Entries, x \in Aliases : Fold[e.denom] = Fold[x] => e.unit \notin {NoDenom, e.denom}
  /\ \A e, f \in Entries : EqualFold(f.denom, e.unit) /\ f.decimals > e.decimals =>
       \E x \in Aliases : /\ Fold[x] = Fold[e.denom]
                          /\ Fold[AliasOf[x]] = Fold[f.denom]
                          /\ Precision[x] = 10 ^ (f.decimals - e.decimals)

ibcVars == <<registry, held, escrow, abroad, vouched, packets, sent>>

\* A packet leaves for (or comes from) the chain behind channel c.  Its token belongs to
\* the chain that receives it when it is returning.
Emit(home, c, returning, denom, amount, user) ==
  /\ sent < MaxPackets
  /\ sent' = sent + 1
  /\ packets' = packets \cup
       {[id |-> sent, home |-> home, channel |-> c, returning |-> returning, denom |-> denom,
         amount |-> amount, user |-> user]}

----------------------------------------------------------------------------
(* To other chains.                                                         *)

\* Mutant: the alias itself may be sent.
Transfer_Alias(u, c, denom, amount) ==
  /\ Listed(denom)
  /\ CheckEntryPermissions(GetEntry(denom), {"IBCEXPORT"})
  /\ amount > 0
  /\ amount <= held[u][denom]
  /\ held' = [held EXCEPT ![u][denom] = @ - amount]
  /\ escrow' = IF denom = Voucher[c] THEN escrow ELSE [escrow EXCEPT ![c][denom] = @ + amount]
  /\ Emit(FALSE, c, denom = Voucher[c], denom, amount, u)
  /\ UNCHANGED <<registry, abroad, vouched>>

\* A coin of this chain goes to escrow, a voucher is burnt.
Transfer(u, c, denom, amount) ==
  /\ Listed(denom)
  /\ GetEntry(denom).unit \in {NoDenom, GetEntry(denom).denom}
  /\ CheckEntryPermissions(GetEntry(denom), {"IBCEXPORT"})
  /\ amount > 0
  /\ amount <= held[u][denom]
  /\ held' = [held EXCEPT ![u][denom] = @ - amount]
  /\ escrow' = IF denom = Voucher[c] THEN escrow ELSE [escrow EXCEPT ![c][denom] = @ + amount]
  /\ Emit(FALSE, c, denom = Voucher[c], denom, amount, u)
  /\ UNCHANGED <<registry, abroad, vouched>>

\* The other chain accepts the packet.
OnAcknowledgementPacket(p) ==
  /\ p \in packets /\ ~p.home
  /\ IF p.returning
       THEN vouched' = [vouched EXCEPT ![p.channel] = @ - p.amount] /\ UNCHANGED abroad
       ELSE abroad' = [abroad EXCEPT ![p.channel][p.denom] = @ + p.amount] /\ UNCHANGED vouched
  /\ packets' = packets \ {p}
  /\ UNCHANGED <<registry, held, escrow, sent>>

\* The other chain refuses the packet, or it times out: the sender is refunded.
OnTimeoutPacket(p) ==
  /\ p \in packets /\ ~p.home
  /\ p.returning \/ p.amount <= escrow[p.channel][p.denom]
  /\ held' = [held EXCEPT ![p.user][p.denom] = @ + p.amount]
  /\ escrow' = IF p.returning THEN escrow ELSE [escrow EXCEPT ![p.channel][p.denom] = @ - p.amount]
  /\ packets' = packets \ {p}
  /\ UNCHANGED <<registry, abroad, vouched, sent>>

----------------------------------------------------------------------------
(* From other chains.                                                       *)

\* The chain behind channel c returns coins of this chain, or sends its own.
SendHome(u, c, returning, denom, amount) ==
  /\ IF returning
       THEN /\ amount <= abroad[c][denom]
            /\ abroad' = [abroad EXCEPT ![c][denom] = @ - amount]
            /\ UNCHANGED vouched
       ELSE /\ denom = Voucher[c]
            /\ vouched' = [vouched EXCEPT ![c] = @ + amount]
            /\ UNCHANGED abroad
  /\ Emit(TRUE, c, returning, denom, amount, u)
  /\ UNCHANGED <<registry, held, escrow>>

GetMintedDenomFromPacket(p) == IF p.returning THEN p.denom ELSE Voucher[p.channel]

\* Balances after the transfer module has received p: a coin leaves the escrow of the
\* channel, a voucher is minted.
Received(p) ==
  LET denom == GetMintedDenomFromPacket(p)
  IN  [ok     |-> p.returning => p.amount <= escrow[p.channel][denom],
       held   |-> [held EXCEPT ![p.user][denom] = @ + p.amount],
       escrow |-> IF p.returning THEN [escrow EXCEPT ![p.channel][denom] = @ - p.amount] ELSE escrow]

IsRecvPacketAllowed(p) ==
  p.returning \/ CheckEntryPermissions(GetEntry(GetMintedDenomFromPacket(p)), {"IBCIMPORT"})

ConvertIncomingCoins(amount, diff) == amount * 10 ^ diff

\* Balances after the alias that s has credited is burnt and converted into its unit.  The
\* names of both coins are those of the entries.
ExecConvForIncomingCoins(p, s, minted, unit) ==
  LET paid  == ConvertIncomingCoins(p.amount, unit.decimals - minted.decimals)
      burnt == [s.held EXCEPT ![p.user][minted.denom] = @ - p.amount]
  IN  [ok     |-> /\ s.ok
                  /\ p.amount <= s.held[p.user][minted.denom]
                  /\ paid <= s.escrow[p.channel][unit.denom],
       held   |-> [burnt EXCEPT ![p.user][unit.denom] = @ + paid],
       escrow |-> [s.escrow EXCEPT ![p.channel][unit.denom] = @ - paid]]

\* Balances after the packet, when every check passes.
Converted(p) ==
  LET minted == GetEntry(GetMintedDenomFromPacket(p))
  IN  IF Listed(minted.unit) /\ GetEntry(minted.unit).decimals > minted.decimals
        THEN ExecConvForIncomingCoins(p, Received(p), minted, GetEntry(minted.unit))
        ELSE Received(p)

Allowed(p) ==
  /\ Received(p).ok
  /\ Listed(GetMintedDenomFromPacket(p))
  /\ IsRecvPacketAllowed(p)
  /\ Converted(p).ok

\* Mutant: a packet that the registry refuses keeps what the transfer module credited.
OnRecvPacketWhitelistConvert_Kept(p) ==
  /\ p \in packets /\ p.home
  /\ IF Allowed(p)
       THEN /\ held' = Converted(p).held
            /\ escrow' = Converted(p).escrow
            /\ UNCHANGED <<abroad, vouched>>
       ELSE /\ held' = Received(p).held
            /\ escrow' = Received(p).escrow
            /\ IF p.returning
                 THEN abroad' = [abroad EXCEPT ![p.channel][p.denom] = @ + p.amount] /\ UNCHANGED vouched
                 ELSE vouched' = [vouched EXCEPT ![p.channel] = @ - p.amount] /\ UNCHANGED abroad
  /\ packets' = packets \ {p}
  /\ UNCHANGED <<registry, sent>>

\* The packet is accepted with all its effects, or refused with none: the other chain then
\* takes its coins back.
OnRecvPacketWhitelistConvert(p) ==
  /\ p \in packets /\ p.home
  /\ IF Allowed(p)
       THEN /\ held' = Converted(p).held
            /\ escrow' = Converted(p).escrow
            /\ UNCHANGED <<abroad, vouched>>
       ELSE /\ IF p.returning
                 THEN abroad' = [abroad EXCEPT ![p.channel][p.denom] = @ + p.amount] /\ UNCHANGED vouched
                 ELSE vouched' = [vouched EXCEPT ![p.channel] = @ - p.amount] /\ UNCHANGED abroad
            /\ UNCHANGED <<held, escrow>>
  /\ packets' = packets \ {p}
  /\ UNCHANGED <<registry, sent>>

\* The packet expires before it arrives, and its sender is refunded.
TimeoutAbroad(p) ==
  /\ p \in packets /\ p.home
  /\ IF p.returning
       THEN abroad' = [abroad EXCEPT ![p.channel][p.denom] = @ + p.amount] /\ UNCHANGED vouched
       ELSE vouched' = [vouched EXCEPT ![p.channel] = @ - p.amount] /\ UNCHANGED abroad
  /\ packets' = packets \ {p}
  /\ UNCHANGED <<registry, held, escrow, sent>>

----------------------------------------------------------------------------

\* Coins of denom that n of each alias of it are worth.
Worth(denom, n) ==
  Weight({x \in Aliases : AliasOf[x] = denom}, [x \in Aliases |-> Precision[x] * n[x]])

\* The aliases that left through channel c before they were forbidden.
FirstAbroad(c) == [d \in Denoms |-> IF d \in Aliases THEN InitialAliases[c] ELSE 0]

IbcInit ==
  /\ registry = InitialList
  /\ held = [u \in Users |-> [d \in Denoms |-> InitialHeld[d]]]
  /\ abroad = [c \in Channels |-> FirstAbroad(c)]
  /\ escrow = [c \in Channels |-> [d \in Denoms |-> FirstAbroad(c)[d] + Worth(d, FirstAbroad(c))]]
  /\ vouched = [c \in Channels |-> 0]
  /\ packets = {}
  /\ sent = 0

Administer ==
  /\ \/ \E from \in Accounts :
            \/ \E e \in Entries : Register(from, e)
            \/ \E l \in Lists : SetRegistry(from, l)
            \/ \E d \in Denoms : Deregister(from, d)
     \/ MigrateToVer2
  /\ UNCHANGED <<held, escrow, abroad, vouched, packets, sent>>

IbcNext ==
  \/ Administer
  \/ \E u \in Users, c \in Channels, d \in Denoms, n \in Amounts :
       Transfer(u, c, d, n) \/ \E returning \in BOOLEAN : SendHome(u, c, returning, d, n)
  \/ \E p \in packets : \/ OnAcknowledgementPacket(p) \/ OnTimeoutPacket(p)
                        \/ OnRecvPacketWhitelistConvert(p) \/ TimeoutAbroad(p)

IbcSpec == IbcInit /\ [][IbcNext]_ibcVars

----------------------------------------------------------------------------
(* What the transfers guarantee.                                            *)

\* Coins of denom that packets of channel c carry, those that return to their chain (or not).
Carried(c, denom, returning, home) ==
  Weight({p \in packets : /\ p.channel = c /\ p.denom = denom
                          /\ p.returning = returning /\ p.home = home},
         [p \in packets |-> p.amount])

\* Coins of denom that left through channel c and may come back through it.
Outside(c) ==
  [d \in Denoms |-> abroad[c][d] + Carried(c, d, FALSE, FALSE) + Carried(c, d, TRUE, TRUE)]

HeldByAll(denom) == Weight(Users, [u \in Users |-> held[u][denom]])

\* Every coin that is abroad can come home: the escrow of its channel holds it, and holds
\* besides what the aliases that are abroad on that channel are worth, whatever the registry
\* was when they left and when others came back (the payment of ExecConvForIncomingCoins
\* comes out of the same account as the coins themselves).
VouchersBacked ==
  \A c \in Channels :
    LET outside == Outside(c)
    IN  \A d \in Denoms : escrow[c][d] >= outside[d] + Worth(d, outside)

EscrowTotal(denom) == Weight(Channels, [c \in Channels |-> escrow[c][denom]])

\* No coin is made or lost by transfers, refusals and refunds: of every coin of this chain
\* that is not an alias as many exist as at first, and of every voucher as many as the other
\* chain holds in escrow for it.
CoinsKept ==
  /\ \A d \in Denoms \ (Aliases \cup Range(Voucher)) :
       HeldByAll(d) + EscrowTotal(d) =
         Weight(Users, [u \in Users |-> InitialHeld[d]])
           + Weight(Channels, [c \in Channels |-> Worth(d, FirstAbroad(c))])
  /\ \A c \in Channels :
       HeldByAll(Voucher[c]) + EscrowTotal(Voucher[c]) + Carried(c, Voucher[c], TRUE, FALSE)
         + Carried(c, Voucher[c], FALSE, TRUE) = vouched[c]
=============================================================================
