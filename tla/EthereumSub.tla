---------------------------- MODULE EthereumSub -----------------------------
(***************************************************************************)
(* The relayers' way from Ethereum to the chain (cmd/ebrelayer): each      *)
(* validator runs one.  On every new Ethereum header a relayer reads the   *)
(* deposits of the blocks since its cursor that have TrailingBlocks blocks *)
(* on top, sends its votes on all of them in one transaction, and saves    *)
(* the cursor.  It may crash between any two of these, the chain may take  *)
(* its transaction late, refuse it as a whole or never see it, and heights *)
(* of headers may fall back in a reorganisation.  Operators replay what a  *)
(* relayer missed, one deposit at a time.                                  *)
(*                                                                         *)
(* The votes are those of module Oracle; an identifier is one deposit that *)
(* converts to a claim.  Block 0 stands for "not mined", cursor 0 for      *)
(* "nothing stored".                                                       *)
(***************************************************************************)
EXTENDS Oracle, Sequences

CONSTANTS
  TrailingBlocks,  \* trailingBlocks, 50 in the code
  Relayers,        \* validators whose relayer is modelled step by step
  Refused,         \* deposits that the bank cannot pay out, say to a module account
  MaxBlock,        \* bound on the Ethereum height
  MaxReorgs,       \* bounds on reorganisations, crashes and waiting transactions
  MaxCrashes,
  MaxPending

ASSUME EthereumSubAssumption ==
  /\ Refused \subseteq Ids /\ Relayers \subseteq Validators /\ Contents # {}
  /\ {TrailingBlocks, MaxBlock, MaxReorgs, MaxCrashes, MaxPending} \subseteq Nat
  /\ TrailingBlocks <= MaxBlock

VARIABLES
  head,       \* height of the current Ethereum header
  top,        \* highest header so far
  block,      \* block of each deposit
  reorgs,     \* reorganisations so far
  running,    \* relayers whose subscription is up
  last,       \* lastProcessedBlock in memory: the next block to read
  saving,     \* what a relayer is about to save, 0 when it waits for a header
  db,         \* the cursor in the relayer's database
  seeded,     \* relayers whose database had a cursor from the start
  crashes,    \* crashes so far
  mempool,    \* transactions of each relayer that the chain has not taken yet
  relayed     \* deposits that each relayer has sent its vote on, replays aside

ethereumVars == <<head, top, block, reorgs>>
cursorVars == <<running, last, saving, db, seeded, crashes>>
relayVars == <<oracleVars, ethereumVars, cursorVars, mempool, relayed>>

\* All relayers derive the same claim from a deposit.
Claimed == CHOOSE c \in Contents : TRUE

\* Deposits of the blocks first to end.
Mined(first, end) == {e \in Ids : block[e] # 0 /\ first <= block[e] /\ block[e] <= end}

----------------------------------------------------------------------------
(* Ethereum.                                                                *)

Mine ==
  /\ head < MaxBlock
  /\ head' = head + 1
  /\ top' = IF head' > top THEN head' ELSE top
  /\ \E new \in SUBSET {e \in Ids : block[e] = 0} :
       block' = [e \in Ids |-> IF e \in new THEN head' ELSE block[e]]
  /\ UNCHANGED <<reorgs, oracleVars, cursorVars, mempool, relayed>>

\* The last block is dropped.  What has TrailingBlocks blocks on top stays.
Reorganise ==
  /\ reorgs < MaxReorgs
  /\ head > top - TrailingBlocks /\ head > 0
  /\ head' = head - 1
  /\ block' = [e \in Ids |-> IF block[e] = head THEN 0 ELSE block[e]]
  /\ reorgs' = reorgs + 1
  /\ UNCHANGED <<top, oracleVars, cursorVars, mempool, relayed>>

----------------------------------------------------------------------------
(* A relayer.                                                               *)

\* BroadcastTx answers before the chain takes the transaction; an error is only
\* logged, and either way the transaction may never arrive.
Broadcast(v, batch) ==
  \/ mempool' = mempool
  \/ /\ batch # {} /\ Len(mempool[v]) < MaxPending
     /\ mempool' = [mempool EXCEPT ![v] = Append(@, batch)]

\* Mutant: one block on top less.
EndingBlock_Early == head - TrailingBlocks + 1

EndingBlock == head - TrailingBlocks

\* Mutant: the block at the cursor counts as read.
FromBlock_After(v) == IF last[v] = 0 THEN EndingBlock ELSE last[v] + 1

\* Without a cursor the relayer starts at the present.
FromBlock(v) == IF last[v] = 0 THEN EndingBlock ELSE last[v]

\* A new header.  FilterLogs may fail: the header is skipped.
NewHead(v) ==
  /\ v \in running /\ saving[v] = 0
  /\ EndingBlock >= 0
  /\ last' = [last EXCEPT ![v] = FromBlock(v)]
  /\ \/ UNCHANGED <<saving, mempool, relayed>>
     \/ /\ Broadcast(v, Mined(FromBlock(v), EndingBlock))
        /\ relayed' = [relayed EXCEPT ![v] = @ \cup Mined(FromBlock(v), EndingBlock)]
        /\ saving' = [saving EXCEPT ![v] = EndingBlock + 1]
  /\ UNCHANGED <<running, db, seeded, crashes, ethereumVars, oracleVars>>

Save(v) ==
  /\ v \in running /\ saving[v] # 0
  /\ db' = [db EXCEPT ![v] = saving[v]]
  /\ last' = [last EXCEPT ![v] = saving[v]]
  /\ saving' = [saving EXCEPT ![v] = 0]
  /\ UNCHANGED <<running, seeded, crashes, ethereumVars, oracleVars, mempool, relayed>>

\* A crash, a failed write to the database or a broken subscription.
Crash(v) ==
  /\ v \in running /\ crashes < MaxCrashes
  /\ running' = running \ {v}
  /\ crashes' = crashes + 1
  /\ last' = [last EXCEPT ![v] = 0]
  /\ saving' = [saving EXCEPT ![v] = 0]
  /\ UNCHANGED <<db, seeded, ethereumVars, oracleVars, mempool, relayed>>

Start(v) ==
  /\ v \notin running
  /\ running' = running \cup {v}
  /\ last' = [last EXCEPT ![v] = db[v]]
  /\ UNCHANGED <<saving, db, seeded, crashes, ethereumVars, oracleVars, mempool, relayed>>

EventProcessed(v, e) == prophecies[e].claims[v] # NoClaim

\* Mutant: what was missed is replayed in one transaction.
Replay_Together(v, e) ==
  LET missed == {d \in Mined(1, EndingBlock) : ~EventProcessed(v, d)}
  IN  /\ e \in missed
      /\ Broadcast(v, missed)
      /\ UNCHANGED <<ethereumVars, cursorVars, oracleVars, relayed>>

\* One deposit of a replay of blocks that have TrailingBlocks blocks on top.
Replay(v, e) ==
  /\ e \in Mined(1, EndingBlock)
  /\ ~EventProcessed(v, e)
  /\ Broadcast(v, {e})
  /\ UNCHANGED <<ethereumVars, cursorVars, oracleVars, relayed>>

----------------------------------------------------------------------------
(* The chain.                                                               *)

Voted(v, e) == processCompletion(AddClaim(prophecies[e], v, Claimed), Claimed)

\* The vote that decides a prophecy also pays; when it cannot, the vote fails.
Accepted(v, e) ==
  /\ CanClaim(v, e, Claimed)
  /\ ~(e \in Refused /\ Voted(v, e).status = "success")

\* The messages of a transaction take effect together or not at all.
Deliver(v, batch) ==
  IF \A e \in batch : Accepted(v, e)
    THEN [e \in Ids |-> IF e \in batch THEN Voted(v, e) ELSE prophecies[e]]
    ELSE prophecies

DeliverTx(v) ==
  /\ mempool[v] # <<>>
  /\ prophecies' = Deliver(v, Head(mempool[v]))
  /\ mempool' = [mempool EXCEPT ![v] = Tail(@)]
  /\ UNCHANGED <<whitelist, bonded, power, ethereumVars, cursorVars, relayed>>

\* The vote of a validator whose relayer is not followed step by step.
OtherVote(v, e) ==
  /\ e \in Mined(1, EndingBlock)
  /\ Accepted(v, e)
  /\ prophecies' = [prophecies EXCEPT ![e] = Voted(v, e)]
  /\ UNCHANGED <<whitelist, bonded, power, ethereumVars, cursorVars, mempool, relayed>>

----------------------------------------------------------------------------

RelayInit ==
  /\ whitelist = Validators /\ bonded = Validators
  /\ power \in [Validators -> 1 .. MaxPower]
  /\ prophecies = [e \in Ids |-> NewProphecy]
  /\ head = 0 /\ top = 0 /\ reorgs = 0 /\ crashes = 0
  /\ block = [e \in Ids |-> 0]
  /\ running = {}
  /\ last = [v \in Relayers |-> 0]
  /\ saving = [v \in Relayers |-> 0]
  /\ db \in [Relayers -> {0, 1}]
  /\ seeded = {v \in Relayers : db[v] = 1}
  /\ mempool = [v \in Relayers |-> <<>>]
  /\ relayed = [v \in Relayers |-> {}]

RelayStep ==
  \/ Mine
  \/ Reorganise
  \/ \E v \in Relayers : \/ NewHead(v) \/ Save(v) \/ Crash(v) \/ Start(v) \/ DeliverTx(v)
  \/ \E v \in Validators \ Relayers, e \in Ids : OtherVote(v, e)

RelayNext == RelayStep \/ \E v \in Relayers, e \in Ids : Replay(v, e)

\* Headers keep coming, every request to Ethereum succeeds again and again, a relayer that
\* is down is started again and the chain takes what is in its mempool.
RelayFairness ==
  /\ WF_relayVars(Mine)
  /\ \A v \in Validators \ Relayers, e \in Ids : WF_relayVars(OtherVote(v, e))
  /\ \A v \in Relayers :
       /\ WF_relayVars(Save(v))
       /\ WF_relayVars(Start(v))
       /\ WF_relayVars(DeliverTx(v))
       /\ SF_relayVars(NewHead(v) /\ saving' # saving)

\* Operators replay what a relayer missed, and some of their transactions arrive.
ReplayFairness ==
  \A v \in Relayers, e \in Ids : SF_relayVars(Replay(v, e) /\ mempool' # mempool)

RelaySpec == RelayInit /\ [][RelayNext]_relayVars /\ RelayFairness /\ ReplayFairness

----------------------------------------------------------------------------
(* What the relayers guarantee.                                             *)

\* The chain holds votes only on deposits that have TrailingBlocks blocks on top in the
\* longest chain so far, whatever reorganisation, crash, delay or replay came before: the
\* deposit can no longer disappear (Start of ethereum.go reads up to head - trailingBlocks).
VotesFinal ==
  \A v \in Validators, e \in Ids :
    prophecies[e].claims[v] # NoClaim => e \in Mined(1, top - TrailingBlocks)

\* A relayer that had a cursor from the start has sent its vote on every deposit below the
\* cursor in its database: no crash between sending and saving, failed request or
\* reorganisation makes it pass over one.
EveryBlockRead ==
  \A v \in seeded : Mined(1, db[v] - 1) \subseteq relayed[v]

\* With replays, every deposit that the bank can pay out is decided in the end, though
\* transactions get lost and one vote that is refused takes its whole batch with it.
EveryDepositDecided ==
  \A e \in Ids \ Refused :
    e \in Mined(1, top - TrailingBlocks) ~> prophecies[e].status = "success"
=============================================================================
