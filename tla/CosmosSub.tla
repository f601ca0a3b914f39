----------------------------- MODULE CosmosSub ------------------------------
(***************************************************************************)
(* The relayer's way from the chain to Ethereum (cmd/ebrelayer), for one   *)
(* validator.  The subscription goes through the blocks of the chain, has  *)
(* every lock and burn event of a block signed on Ethereum, and saves the  *)
(* block number.  The replay command, a process of its own with the same   *)
(* Ethereum account, has the events signed that it finds no transaction of *)
(* the account for.                                                        *)
(*                                                                         *)
(* Both sign an event by a transaction with the pending nonce of the       *)
(* account, sent a number of times until a receipt is there.  Ethereum     *)
(* mines transactions in the order of their nonces, may drop one that      *)
(* waits, and refuses a second one for a nonce or lets it replace the      *)
(* first when it pays more.  What the contract makes of a transaction is   *)
(* the subject of module CosmosBridge.                                     *)
(***************************************************************************)
EXTENDS FiniteSets, Sequences, Functions

CONSTANTS
  Events,       \* lock and burn events that convert to a message
  Key,          \* Key[e]: sender and sequence of event e
  NoEvent,
  Chains,       \* histories of the chain: the events of each block
  MaxRetries,   \* maxRetries, 5 in the code
  MaxStops,     \* bounds on crashes, dropped transactions and nonces
  MaxDrops,
  MaxNonce

ASSUME CosmosSubAssumption ==
  /\ NoEvent \notin Events
  /\ Chains \subseteq Seq(Seq(Events)) /\ \A c \in Chains : c # <<>>
  /\ MaxRetries \in Nat \ {0} /\ {MaxStops, MaxDrops, MaxNonce} \subseteq Nat
  /\ Cardinality(Events) <= MaxNonce

VARIABLES
  blocks,     \* the events of each block of the chain
  mined,      \* the account's transactions by nonce (counted from 1), as the event they sign
  waiting,    \* waiting[n]: the transaction with nonce n that waits
  drops,      \* transactions dropped so far
  subscribed, \* the subscription is up
  lastBlock,  \* lastProcessedBlock in memory, 0 before the first block
  dbBlock,    \* the block number in the database, 0 for none
  hadBlock,   \* the database had a block number from the start
  stops,      \* crashes so far
  todo,       \* todo[p]: events that process p has to sign, the present one first
  step,       \* step[p]: what it does with it
  nonce,      \* nonce[p]: the nonce of its transaction
  attempt,    \* attempt[p]: attempts that failed
  sent,       \* sent[p]: nonces of the transactions that its attempts brought to Ethereum
  taken       \* events that the subscription has finished with

chainVars == <<blocks, mined, waiting, drops>>
blockVars == <<subscribed, lastBlock, dbBlock, hadBlock, stops, taken>>
signingVars == <<todo, step, nonce, attempt, sent>>
cosmosSubVars == <<chainVars, blockVars, signingVars>>

Processes == {"subscription", "replay"}

AllNonces == 1 .. MaxNonce

EventsOf(c) == UNION {Range(c[b]) : b \in DOMAIN c}

Emitted == EventsOf(blocks)

\* The chain may still become c.
Possible(c) == Len(blocks) <= Len(c) /\ blocks = SubSeq(c, 1, Len(blocks))

\* What the bound on nonces asks of the waiting transactions: one nonce is left for each
\* event, past or to come, that has no transaction.
NoncesLeft(pool) ==
  LET free == {n \in AllNonces : n > Len(mined) /\ pool[n] = NoEvent}
      events == UNION {EventsOf(c) : c \in {c \in Chains : Possible(c)}}
  IN  Cardinality(events \ (Range(mined) \cup Range(pool))) <= Cardinality(free)

----------------------------------------------------------------------------
(* The two chains.                                                          *)

NewBlock ==
  /\ \E c \in Chains : /\ Len(blocks) < Len(c) /\ Possible(c)
                       /\ blocks' = SubSeq(c, 1, Len(blocks) + 1)
  /\ UNCHANGED <<mined, waiting, drops, blockVars, signingVars>>

MineTx ==
  /\ Len(mined) + 1 \in AllNonces
  /\ waiting[Len(mined) + 1] # NoEvent
  /\ mined' = Append(mined, waiting[Len(mined) + 1])
  /\ waiting' = [waiting EXCEPT ![Len(mined) + 1] = NoEvent]
  /\ UNCHANGED <<blocks, drops, blockVars, signingVars>>

DropTx(n) ==
  /\ drops < MaxDrops
  /\ waiting[n] # NoEvent
  /\ waiting' = [waiting EXCEPT ![n] = NoEvent]
  /\ drops' = drops + 1
  /\ UNCHANGED <<blocks, mined, blockVars, signingVars>>

\* PendingNonceAt: the first nonce that no transaction has.
PendingNonce ==
  CHOOSE n \in Len(mined) + 1 .. MaxNonce + 1 :
    /\ n \notin AllNonces \/ waiting[n] = NoEvent
    /\ \A k \in Len(mined) + 1 .. n - 1 : waiting[k] # NoEvent

----------------------------------------------------------------------------
(* A process signs the first event of its list.                             *)

Signing(p, e) == todo[p] # <<>> /\ Head(todo[p]) = e

Rest(p) == IF p = "subscription" THEN "save" ELSE "idle"

\* On to the next event.
Finished(p) ==
  /\ todo' = [todo EXCEPT ![p] = Tail(@)]
  /\ step' = [step EXCEPT ![p] = IF Len(todo[p]) > 1 THEN "prepare" ELSE Rest(p)]
  /\ nonce' = [nonce EXCEPT ![p] = 0]
  /\ attempt' = [attempt EXCEPT ![p] = 0]
  /\ sent' = [sent EXCEPT ![p] = {}]
  /\ taken' = IF p = "subscription" THEN taken \cup {Head(todo[p])} ELSE taken

\* The nonce is asked for once, before the first attempt.
tryInitRelayConfig(p, e) ==
  /\ step[p] = "prepare" /\ Signing(p, e)
  /\ nonce' = [nonce EXCEPT ![p] = PendingNonce]
  /\ step' = [step EXCEPT ![p] = "send"]
  /\ UNCHANGED <<chainVars, blockVars, todo, attempt, sent>>

\* All attempts to ask fail, or the replay does not get the block of the event.
GiveUp(p) ==
  /\ step[p] = "prepare"
  /\ Finished(p)
  /\ UNCHANGED <<chainVars, subscribed, lastBlock, dbBlock, hadBlock, stops>>

\* Mutant: every attempt asks for the nonce.
Failed_NewNonce(p) ==
  IF attempt[p] + 1 = MaxRetries
    THEN Finished(p)
    ELSE /\ attempt' = [attempt EXCEPT ![p] = @ + 1]
         /\ step' = [step EXCEPT ![p] = "send"]
         /\ nonce' = [nonce EXCEPT ![p] = PendingNonce]
         /\ UNCHANGED <<todo, sent, taken>>

\* The same transaction again, at most MaxRetries times.
Failed(p) ==
  IF attempt[p] + 1 = MaxRetries
    THEN Finished(p)
    ELSE /\ attempt' = [attempt EXCEPT ![p] = @ + 1]
         /\ step' = [step EXCEPT ![p] = "send"]
         /\ UNCHANGED <<todo, nonce, sent, taken>>

\* Ethereum takes the transaction: its nonce is free, or the transaction replaces one of
\* another process.
Taken(p) ==
  LET e == Head(todo[p])
  IN  /\ nonce[p] \in AllNonces /\ nonce[p] > Len(mined)
      /\ waiting[nonce[p]] # e
      /\ waiting' = [waiting EXCEPT ![nonce[p]] = e]
      /\ NoncesLeft(waiting')
      /\ UNCHANGED <<blocks, mined, drops>>

NewProphecyClaim(p, e) ==
  /\ step[p] = "send" /\ Signing(p, e)
  /\ Taken(p)
  /\ step' = [step EXCEPT ![p] = "await"]
  /\ sent' = [sent EXCEPT ![p] = @ \cup {nonce[p]}]
  /\ UNCHANGED <<blockVars, todo, nonce, attempt>>

\* Ethereum does not get the transaction or does not take it.  (An error although it does
\* take it is NewProphecyClaim and NoReceipt.)
SendFails(p) ==
  /\ step[p] = "send"
  /\ Failed(p)
  /\ UNCHANGED <<chainVars, subscribed, lastBlock, dbBlock, hadBlock, stops>>

TransactionReceipt(p) ==
  /\ step[p] = "await"
  /\ nonce[p] \in DOMAIN mined /\ mined[nonce[p]] = Head(todo[p])
  /\ Finished(p)
  /\ UNCHANGED <<chainVars, subscribed, lastBlock, dbBlock, hadBlock, stops>>

\* No query brings the receipt, though the transaction may be mined.
NoReceipt(p) ==
  /\ step[p] = "await"
  /\ Failed(p)
  /\ UNCHANGED <<chainVars, subscribed, lastBlock, dbBlock, hadBlock, stops>>

----------------------------------------------------------------------------
(* The subscription.                                                        *)

\* The first block seen without a number in the database counts as done.
FirstBlock ==
  /\ subscribed /\ lastBlock = 0 /\ blocks # <<>>
  /\ lastBlock' = Len(blocks)
  /\ UNCHANGED <<chainVars, subscribed, dbBlock, hadBlock, stops, taken, signingVars>>

\* Process p gets a list of events.
Begin(p, events) ==
  /\ todo' = [todo EXCEPT ![p] = events]
  /\ step' = [step EXCEPT ![p] = IF events = <<>> THEN Rest(p) ELSE "prepare"]
  /\ UNCHANGED <<chainVars, subscribed, hadBlock, stops, taken, nonce, attempt, sent>>

\* Mutant: the number is saved before the events are signed.
ReadBlock_Saved ==
  /\ subscribed /\ step["subscription"] = "idle"
  /\ lastBlock # 0 /\ lastBlock < Len(blocks)
  /\ dbBlock' = lastBlock + 1
  /\ Begin("subscription", blocks[lastBlock + 1])
  /\ UNCHANGED lastBlock

\* The next block; BlockResults is repeated until it answers.
ReadBlock ==
  /\ subscribed /\ step["subscription"] = "idle"
  /\ lastBlock # 0 /\ lastBlock < Len(blocks)
  /\ Begin("subscription", blocks[lastBlock + 1])
  /\ UNCHANGED <<lastBlock, dbBlock>>

SaveBlock ==
  /\ subscribed /\ step["subscription"] = "save"
  /\ lastBlock' = lastBlock + 1
  /\ dbBlock' = lastBlock + 1
  /\ step' = [step EXCEPT !["subscription"] = "idle"]
  /\ UNCHANGED <<chainVars, subscribed, hadBlock, stops, taken, todo, nonce, attempt, sent>>

\* A crash, or the end of the process when the number cannot be saved.
Stop ==
  /\ subscribed /\ stops < MaxStops
  /\ subscribed' = FALSE
  /\ stops' = stops + 1
  /\ lastBlock' = 0
  /\ todo' = [todo EXCEPT !["subscription"] = <<>>]
  /\ step' = [step EXCEPT !["subscription"] = "idle"]
  /\ nonce' = [nonce EXCEPT !["subscription"] = 0]
  /\ attempt' = [attempt EXCEPT !["subscription"] = 0]
  /\ sent' = [sent EXCEPT !["subscription"] = {}]
  /\ UNCHANGED <<chainVars, dbBlock, hadBlock, taken>>

Subscribe ==
  /\ ~subscribed
  /\ subscribed' = TRUE
  /\ lastBlock' = dbBlock
  /\ UNCHANGED <<chainVars, dbBlock, hadBlock, stops, taken, signingVars>>

----------------------------------------------------------------------------
(* The replay command.                                                      *)

\* Mutant: what the subscription has finished with counts as done.
MessageProcessed_Taken(e, claims) == e \in taken

\* One of the account's mined transactions has the sender and the sequence of e.
MessageProcessed(e, claims) == \E n \in claims : Key[mined[n]] = Key[e]

\* The transactions that are mined when a replay begins, without those of blocks that it
\* does not get from Ethereum.
GetAllProphecyClaim == SUBSET DOMAIN mined

\* The events of all blocks in their order.
AllEvents ==
  LET upTo[b \in 0 .. Len(blocks)] == IF b = 0 THEN <<>> ELSE upTo[b - 1] \o blocks[b]
  IN  upTo[Len(blocks)]

\* A run over all blocks, started when something is missing.
ReplayEvents ==
  /\ step["replay"] = "idle"
  /\ \E e \in Emitted : ~MessageProcessed(e, DOMAIN mined)
  /\ \E claims \in GetAllProphecyClaim :
       Begin("replay", SelectSeq(AllEvents, LAMBDA e : ~MessageProcessed(e, claims)))
  /\ UNCHANGED <<lastBlock, dbBlock>>

----------------------------------------------------------------------------

CosmosSubInit ==
  /\ blocks \in {SubSeq(c, 1, 1) : c \in Chains} /\ mined = <<>> /\ drops = 0 /\ stops = 0
  /\ waiting = [n \in AllNonces |-> NoEvent]
  /\ subscribed = FALSE /\ lastBlock = 0
  /\ dbBlock \in {0, 1} /\ hadBlock = (dbBlock = 1)
  /\ todo = [p \in Processes |-> <<>>]
  /\ step = [p \in Processes |-> "idle"]
  /\ nonce = [p \in Processes |-> 0]
  /\ attempt = [p \in Processes |-> 0]
  /\ sent = [p \in Processes |-> {}]
  /\ taken = {}

Sign(p) ==
  \/ GiveUp(p) \/ SendFails(p) \/ TransactionReceipt(p) \/ NoReceipt(p)
  \/ \E e \in Events : tryInitRelayConfig(p, e) \/ NewProphecyClaim(p, e)

CosmosSubNext ==
  \/ NewBlock \/ MineTx \/ \E n \in AllNonces : DropTx(n)
  \/ FirstBlock \/ ReadBlock \/ SaveBlock \/ Stop \/ Subscribe
  \/ \E p \in Processes : Sign(p)
  \/ ReplayEvents

\* The subscription is started again after a crash and the processes go on.  Operators
\* replay as long as something is missing, and requests succeed again and again.
CosmosSubFairness ==
  /\ WF_cosmosSubVars(NewBlock) /\ WF_cosmosSubVars(MineTx)
  /\ WF_cosmosSubVars(Subscribe \/ ReadBlock \/ SaveBlock \/ Sign("subscription"))
  /\ WF_cosmosSubVars(ReplayEvents \/ Sign("replay"))
  /\ \A e \in Events : /\ SF_cosmosSubVars(tryInitRelayConfig("replay", e))
                       /\ SF_cosmosSubVars(NewProphecyClaim("replay", e))

CosmosSubSpec == CosmosSubInit /\ [][CosmosSubNext]_cosmosSubVars /\ CosmosSubFairness

----------------------------------------------------------------------------
(* What the relayer guarantees.                                             *)

\* One call of handleBurnLockMsg never leaves two transactions on Ethereum, however often it
\* sends: after errors that came although Ethereum had the transaction, receipts that came
\* too late, a drop, and another process that took the nonce in between.
OneTransactionPerCall == \A p \in Processes : \A m, n \in sent[p] : m = n

\* With a block number in the database from the start, the subscription has finished with
\* every event up to the number that is there now, whatever crashed in between.
EveryBlockFinished ==
  hadBlock => \A b \in 2 .. dbBlock : Range(blocks[b]) \subseteq taken

\* With replays, every event in the end has a transaction with its sender and sequence
\* mined, though attempts fail, nonces collide between the processes and transactions get
\* dropped.
EverySignatureArrives == \A e \in Events : e \in Emitted ~> MessageProcessed(e, DOMAIN mined)
=============================================================================
