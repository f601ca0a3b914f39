-------------------------- MODULE EthBridgeProofs ---------------------------
(***************************************************************************)
(* Theorems about the bridge on the chain's side, for any validators,      *)
(* powers, accounts, denominations, claims and amounts: the oracle decides *)
(* by the votes, and the bridge module makes and destroys coins only with  *)
(* their counterpart.                                                      *)
(***************************************************************************)
EXTENDS EthBridge, WeightTheorems

----------------------------------------------------------------------------
(* Counting votes.                                                          *)

\* Every set of validators is finite and has a natural number as its power.
LEMMA PowerType ==
  ASSUME OracleTypeOK, NEW S, S \subseteq Validators
  PROVE  /\ IsFiniteSet(S)
         /\ \A v \in S : power[v] \in Nat
         /\ Weight(S, power) \in Nat
<1>1. IsFiniteSet(S)
  BY Zenon, OracleAssumption, FS_Subset
<1>2. \A v \in S : power[v] \in Nat
  BY OracleAssumption DEF OracleTypeOK
<1> QED BY Zenon, <1>1, <1>2, WeightType

\* The powers that FindHighestClaim adds up are natural numbers.
LEMMA CountsType ==
  ASSUME OracleTypeOK, NEW claims, NEW c
  PROVE  /\ TotalPower \in Nat
         /\ ClaimPower(claims, c) \in Nat
         /\ TotalClaimsPower(claims) \in Nat
<1>1. /\ whitelist \cap bonded \subseteq Validators
      /\ {v \in bonded : claims[v] = c} \subseteq Validators
      /\ {v \in bonded : claims[v] # NoClaim} \subseteq Validators
  BY Zenon DEF OracleTypeOK
<1> QED BY Zenon, <1>1, PowerType DEF TotalPower, ClaimPower, TotalClaimsPower

\* The prophecy that processCompletion returns keeps the votes and is well formed.
LEMMA CompletionType ==
  ASSUME NEW p \in Prophecy, p.status = "pending", p.finalClaim = NoClaim,
         NEW h \in Contents
  PROVE  /\ processCompletion(p, h) \in Prophecy
         /\ processCompletion(p, h).claims = p.claims
         /\ processCompletion(p, h).status = "success"
              <=> processCompletion(p, h).finalClaim # NoClaim
BY Zenon, OracleAssumption DEF processCompletion, Prophecy, Statuses

\* What a vote that is accepted does to the prophecy it is for, where p is the
\* prophecy with the vote added.
VoteOutcome(v, id, content, p) ==
  /\ CanClaim(v, id, content)
  /\ content \in Contents
  /\ p \in Prophecy
  /\ p.status = "pending"
  /\ p.finalClaim = NoClaim
  /\ p.claims = [prophecies[id].claims EXCEPT ![v] = content]
  /\ \E h \in HighestClaims(p.claims) :
       h \in Contents /\ prophecies'[id] = processCompletion(p, h)
  /\ \A i \in Ids \ {id} : prophecies'[i] = prophecies[i]
  /\ prophecies' = [prophecies EXCEPT ![id] = prophecies'[id]]
  /\ prophecies'[id] \in Prophecy
  /\ prophecies'[id].claims = p.claims
  /\ prophecies'[id].status = "success" <=> prophecies'[id].finalClaim # NoClaim

\* Every vote that ProcessClaim accepts has that outcome.
LEMMA ClaimResult ==
  ASSUME OracleTypeOK, NEW v \in Validators, NEW id \in Ids,
         NEW content \in Contents \cup {NoClaim}, ProcessClaim(v, id, content)
  PROVE  content \in Contents /\ \E p \in Prophecy : VoteOutcome(v, id, content, p)
<1> DEFINE p == AddClaim(prophecies[id], v, content)
<1>1. CanClaim(v, id, content) /\ content \in Contents
  BY Zenon DEF ProcessClaim, CanClaim
<1>2. /\ p \in Prophecy
      /\ p.status = "pending"
      /\ p.finalClaim = NoClaim
      /\ p.claims = [prophecies[id].claims EXCEPT ![v] = content]
  BY Zenon, <1>1 DEF AddClaim, CanClaim, OracleTypeOK, Prophecy
<1>3. PICK h \in HighestClaims(p.claims) :
        prophecies' = [prophecies EXCEPT ![id] = processCompletion(p, h)]
  BY Zenon DEF ProcessClaim
<1>4. h \in Contents
  BY <1>2, <1>3 DEF HighestClaims, ClaimsMade, Prophecy
<1>5. /\ prophecies'[id] = processCompletion(p, h)
      /\ \A i \in Ids \ {id} : prophecies'[i] = prophecies[i]
  BY Zenon, <1>3 DEF OracleTypeOK
<1> HIDE DEF p
<1>6. /\ processCompletion(p, h) \in Prophecy
      /\ processCompletion(p, h).claims = p.claims
      /\ processCompletion(p, h).status = "success"
           <=> processCompletion(p, h).finalClaim # NoClaim
  BY Zenon, <1>2, <1>4, CompletionType
<1>7. VoteOutcome(v, id, content, p)
  BY Zenon, <1>1, <1>2, <1>3, <1>4, <1>5, <1>6 DEF VoteOutcome
<1> QED BY Zenon, <1>1, <1>2, <1>7

\* So every vote is one of a validator, for a prophecy, with that outcome.
LEMMA VoteResult ==
  ASSUME OracleTypeOK, Vote
  PROVE  \E v \in Validators, id \in Ids, content \in Contents, p \in Prophecy :
           VoteOutcome(v, id, content, p)
BY Zenon, ClaimResult DEF Vote

----------------------------------------------------------------------------
(* Well-formed prophecies.                                                  *)

\* Each step of the oracle keeps the stored prophecies well formed.
LEMMA StepKeepsType ==
  ASSUME OracleTypeOK, [OracleNext]_oracleVars
  PROVE  OracleTypeOK'
<1>1. CASE Vote
  <2>1. PICK v \in Validators, id \in Ids, content \in Contents, p \in Prophecy :
          VoteOutcome(v, id, content, p)
    BY Zenon, <1>1, VoteResult
  <2>2. UNCHANGED <<whitelist, bonded, power>>
    BY Zenon, <1>1 DEF Vote, ProcessClaim
  <2> QED BY Zenon, <2>1, <2>2 DEF VoteOutcome, OracleTypeOK
<1>2. CASE Staking
  BY Zenon, <1>2 DEF Staking, StakingUpdate, OracleTypeOK
<1>3. CASE Whitelisting
  BY Zenon, <1>3 DEF Whitelisting, ProcessUpdateWhiteListValidator, AddOracleWhiteList,
              RemoveOracleWhiteList, OracleTypeOK
<1>4. CASE UNCHANGED oracleVars
  BY Zenon, <1>4 DEF oracleVars, OracleTypeOK
<1> QED BY Zenon, <1>1, <1>2, <1>3, <1>4 DEF OracleNext

\* An initial state is well formed.
LEMMA InitType ==
  ASSUME OracleInit
  PROVE  OracleTypeOK
BY Zenon DEF OracleInit, OracleTypeOK, NewProphecy, Prophecy, Statuses

\* For every whitelist, every staking history and every order of votes, a
\* stored prophecy has a final claim exactly when it succeeded.
THEOREM OracleTypeCorrect == OracleSpec => []OracleTypeOK
<1>1. OracleInit => OracleTypeOK
  BY Zenon, InitType
<1>2. OracleTypeOK /\ [OracleNext]_oracleVars => OracleTypeOK'
  BY Zenon, StepKeepsType
<1> QED BY <1>1, <1>2, PTL DEF OracleSpec

----------------------------------------------------------------------------
(* Decisions and votes are kept.                                            *)

\* ProcessClaim, whitelist updates and staking changes revise no decision and
\* replace no vote, for any number of validators and prophecies.
THEOREM DecisionsKept == OracleSpec => DecisionsAndVotesKept
<1> DEFINE Kept == \A id \in Ids : DecisionAndVotesKept(prophecies[id], prophecies'[id])
<1>1. ASSUME OracleTypeOK, [OracleNext]_oracleVars
      PROVE  Kept
  <2>1. CASE Vote
    <3>1. PICK v \in Validators, id \in Ids, content \in Contents, p \in Prophecy :
            VoteOutcome(v, id, content, p)
      BY Zenon, <1>1, <2>1, VoteResult
    <3>2. prophecies[id].claims \in [Validators -> Contents \cup {NoClaim}]
      BY Zenon, <1>1 DEF OracleTypeOK, Prophecy
    <3>3. DecisionAndVotesKept(prophecies[id], prophecies'[id])
      BY Zenon, <3>1, <3>2 DEF VoteOutcome, CanClaim, DecisionAndVotesKept
    <3>4. \A i \in Ids \ {id} : prophecies'[i] = prophecies[i]
      BY Zenon, <3>1 DEF VoteOutcome
    <3> QED BY Zenon, <3>3, <3>4 DEF DecisionAndVotesKept
  <2>2. CASE Staking \/ Whitelisting \/ UNCHANGED oracleVars
    <3>1. prophecies' = prophecies
      BY Zenon, <2>2 DEF Staking, StakingUpdate, Whitelisting, ProcessUpdateWhiteListValidator,
                  oracleVars
    <3> QED BY Zenon, <3>1 DEF DecisionAndVotesKept
  <2> QED BY Zenon, <1>1, <2>1, <2>2 DEF OracleNext
<1>2. OracleTypeOK /\ [OracleNext]_oracleVars => [Kept]_oracleVars
  BY Zenon, <1>1
<1> QED BY <1>2, OracleTypeCorrect, PTL DEF OracleSpec, DecisionsAndVotesKept

----------------------------------------------------------------------------
(* The outcome of a vote that whitelisted validators decide.                *)

\* Two shares of more than half of t do not fit into t.
LEMMA TwoMajorities ==
  ASSUME NEW n \in Nat, NEW d \in Nat, NEW x \in Nat, NEW t \in Nat,
         2 * n > d, t > 0, x * d >= n * t
  PROVE  2 * x > t
<1>1. SUFFICES ASSUME 2 * x <= t PROVE FALSE
  OBVIOUS
<1>2. (2 * x) * d <= t * d
  BY <1>1
<1>3. (2 * n) * t > d * t
  OBVIOUS
<1>4. 2 * (x * d) >= 2 * (n * t)
  OBVIOUS
<1> QED BY <1>2, <1>3, <1>4

\* A content that reaches a threshold of more than one half is the only highest one.
LEMMA HighestUnique ==
  ASSUME OracleTypeOK, 2 * ConsensusNum > ConsensusDen,
         NEW claims \in [Validators -> Contents \cup {NoClaim}],
         VotersListed(claims), NEW h \in HighestClaims(claims), NEW g \in HighestClaims(claims),
         RatioAtLeastNeeded(ClaimPower(claims, h), TotalPower)
  PROVE  h = g
<1> DEFINE H == {v \in bonded : claims[v] = h}
           G == {v \in bonded : claims[v] = g}
           W == whitelist \cap bonded
<1>1. SUFFICES ASSUME h # g PROVE FALSE
  BY Zenon
<1>2. h # NoClaim /\ g # NoClaim
  BY Zenon DEF HighestClaims, ClaimsMade
<1>3. H \subseteq W /\ G \subseteq W /\ H \cap G = {} /\ W \subseteq Validators
  BY Zenon, <1>1, <1>2 DEF OracleTypeOK, VotersListed
<1>4. /\ IsFiniteSet(H) /\ IsFiniteSet(G) /\ IsFiniteSet(W)
      /\ \A v \in W : power[v] \in Nat
      /\ \A v \in H \cup G : power[v] \in Nat
  BY Zenon, <1>3, PowerType
<1>5. ClaimPower(claims, h) = Weight(H, power) /\ ClaimPower(claims, g) = Weight(G, power)
  BY Zenon DEF ClaimPower
<1>6. Weight(H \cup G, power) = Weight(H, power) + Weight(G, power)
  <2> HIDE DEF H, G
  <2> QED BY <1>3, <1>4, WeightDisjointUnion
<1>7. Weight(H \cup G, power) <= TotalPower
  <2>1. H \cup G \subseteq W
    BY Zenon, <1>3
  <2>2. Weight(H \cup G, power) <= Weight(W, power)
    <3> HIDE DEF H, G, W
    <3> QED BY Zenon, <1>4, <2>1, WeightMonotone
  <2> QED BY Zenon, <2>2 DEF TotalPower
<1>8. TotalPower \in Nat /\ ClaimPower(claims, h) \in Nat /\ ClaimPower(claims, g) \in Nat
  BY Zenon, CountsType
<1>9. ClaimPower(claims, h) = ClaimPower(claims, g)
  <2>1. /\ ClaimPower(claims, h) <= ClaimPower(claims, g)
        /\ ClaimPower(claims, g) <= ClaimPower(claims, h)
    BY Zenon DEF HighestClaims
  <2> QED BY <1>8, <2>1
<1>10. 2 * ClaimPower(claims, h) <= TotalPower
  <2> HIDE DEF H, G
  <2> QED BY <1>5, <1>6, <1>7, <1>8, <1>9
<1>11. CASE TotalPower = 0
  BY SMTT(15), <1>8, <1>10, <1>11 DEF RatioAtLeastNeeded
<1>12. CASE TotalPower > 0
  <2>1. ClaimPower(claims, h) * ConsensusDen >= ConsensusNum * TotalPower
    BY <1>8, <1>12 DEF RatioAtLeastNeeded
  <2>2. 2 * ClaimPower(claims, h) > TotalPower
    BY Zenon, <1>8, <1>12, <2>1, TwoMajorities, ConsensusNeededAssumption
  <2> QED BY <1>8, <1>10, <2>2
<1> QED BY <1>8, <1>11, <1>12

\* With a threshold above one half, as the default of 0.7 is, all nodes compute
\* the same result from a vote, whatever order their maps iterate in, as long as
\* the validators whose votes count are whitelisted.
THEOREM VoteOutcomeUnique ==
  ASSUME 2 * ConsensusNum > ConsensusDen
  PROVE  OracleSpec => []ListedOutcomeUnique
<1>1. ASSUME OracleTypeOK
      PROVE  ListedOutcomeUnique
  <2>1. SUFFICES ASSUME NEW id \in Ids, NEW v \in Validators, NEW content \in Contents,
                        CanClaim(v, id, content), VotersListed(prophecies[id].claims),
                        NEW h \in HighestClaims(AddClaim(prophecies[id], v, content).claims),
                        NEW g \in HighestClaims(AddClaim(prophecies[id], v, content).claims)
                 PROVE  processCompletion(AddClaim(prophecies[id], v, content), h)
                          = processCompletion(AddClaim(prophecies[id], v, content), g)
    BY Zenon DEF ListedOutcomeUnique, OutcomeIndependent
  <2> DEFINE p == AddClaim(prophecies[id], v, content)
             claims == p.claims
  <2>2. /\ claims \in [Validators -> Contents \cup {NoClaim}]
        /\ claims = [prophecies[id].claims EXCEPT ![v] = content]
        /\ prophecies[id].claims \in [Validators -> Contents \cup {NoClaim}]
    BY Zenon, <1>1 DEF OracleTypeOK, Prophecy, AddClaim
  <2>3. VotersListed(claims)
    <3>1. v \in whitelist /\ bonded \subseteq Validators
      BY Zenon, <1>1, <2>1 DEF CanClaim, OracleTypeOK
    <3> HIDE DEF p
    <3> QED BY Zenon, <2>1, <2>2, <3>1 DEF VotersListed
  <2> HIDE DEF p
  <2>4. CASE RatioAtLeastNeeded(ClaimPower(claims, h), TotalPower)
    <3>1. h = g
      BY Zenon, <1>1, <2>1, <2>2, <2>3, <2>4, HighestUnique DEF p
    <3> QED BY Zenon, <3>1
  <2>5. CASE ~RatioAtLeastNeeded(ClaimPower(claims, h), TotalPower)
    <3>1. ClaimPower(claims, h) \in Nat /\ ClaimPower(claims, g) \in Nat
      BY Zenon, <1>1, CountsType
    <3>2. /\ ClaimPower(claims, h) <= ClaimPower(claims, g)
          /\ ClaimPower(claims, g) <= ClaimPower(claims, h)
      BY Zenon, <2>1 DEF HighestClaims, p
    <3>3. ClaimPower(claims, h) = ClaimPower(claims, g)
      BY <3>1, <3>2
    <3> QED BY Zenon, <2>5, <3>3 DEF processCompletion, p
  <2> QED BY Zenon, <2>4, <2>5 DEF p
<1> QED BY <1>1, OracleTypeCorrect, PTL

\* A prophecy that only whitelisted validators decide succeeds only when they hold
\* the needed power for its final claim.
THEOREM SuccessIsBacked == OracleSpec => SuccessBacked
<1> DEFINE Backed == \A id \in Ids :
             /\ prophecies[id].status = "pending"
             /\ prophecies'[id].status = "success"
             /\ VotersListed(prophecies'[id].claims)
             => LET q == prophecies'[id]
                IN  Weight({v \in whitelist \cap bonded : q.claims[v] = q.finalClaim}, power)
                      * ConsensusDen >= ConsensusNum * TotalPower
<1>1. ASSUME OracleTypeOK, [OracleNext]_oracleVars
      PROVE  Backed
  <2>1. CASE Vote
    <3>1. PICK v \in Validators, id \in Ids, content \in Contents, p \in Prophecy :
            VoteOutcome(v, id, content, p)
      BY Zenon, <1>1, <2>1, VoteResult
    <3> DEFINE q == prophecies'[id]
    <3>2. PICK h \in HighestClaims(p.claims) : h \in Contents /\ q = processCompletion(p, h)
      BY Zenon, <3>1 DEF VoteOutcome
    <3>3. p.status = "pending" /\ q.claims = p.claims
      BY Zenon, <3>1 DEF VoteOutcome
    <3>4. \A i \in Ids \ {id} : prophecies'[i] = prophecies[i]
      BY Zenon, <3>1 DEF VoteOutcome
    <3>5. ASSUME q.status = "success", VotersListed(q.claims)
          PROVE  Weight({u \in whitelist \cap bonded : q.claims[u] = q.finalClaim}, power)
                   * ConsensusDen >= ConsensusNum * TotalPower
      <4>1. RatioAtLeastNeeded(ClaimPower(p.claims, h), TotalPower) /\ q.finalClaim = h
        <5> HIDE DEF q
        <5> QED BY Zenon, <3>2, <3>3, <3>5 DEF processCompletion, Prophecy
      <4>2. {u \in whitelist \cap bonded : q.claims[u] = h} = {u \in bonded : q.claims[u] = h}
        BY Zenon, <3>2, <3>5, OracleAssumption DEF VotersListed
      <4>3. Weight({u \in whitelist \cap bonded : q.claims[u] = q.finalClaim}, power)
              = ClaimPower(p.claims, h)
        BY Zenon, <3>3, <4>1, <4>2 DEF ClaimPower
      <4>4. TotalPower \in Nat /\ ClaimPower(p.claims, h) \in Nat
        BY Zenon, <1>1, CountsType
      <4>5. ClaimPower(p.claims, h) * ConsensusDen >= ConsensusNum * TotalPower
        BY <4>1, <4>4, ConsensusNeededAssumption DEF RatioAtLeastNeeded
      <4> QED BY Zenon, <4>3, <4>5
    <3> QED BY Zenon, <3>4, <3>5
  <2>2. CASE Staking \/ Whitelisting \/ UNCHANGED oracleVars
    <3>1. prophecies' = prophecies
      BY Zenon, <2>2 DEF Staking, StakingUpdate, Whitelisting, ProcessUpdateWhiteListValidator,
                  oracleVars
    <3> QED BY Zenon, <3>1
  <2> QED BY Zenon, <1>1, <2>1, <2>2 DEF OracleNext
<1>2. OracleTypeOK /\ [OracleNext]_oracleVars => [Backed]_oracleVars
  BY Zenon, <1>1
<1> QED BY <1>2, OracleTypeCorrect, PTL DEF OracleSpec, SuccessBacked

----------------------------------------------------------------------------
(* Exact decisions.                                                         *)

Electors == whitelist \cap bonded

\* Those whose votes count.
VotersOf(claims) == {v \in bonded : claims[v] # NoClaim}

\* The power that has not voted yet is what remains of the total.
LEMMA RemainingPower ==
  ASSUME OracleTypeOK, NEW claims, VotersOf(claims) \subseteq Electors
  PROVE  /\ Weight(Electors \ VotersOf(claims), power) = TotalPower - TotalClaimsPower(claims)
         /\ Weight(Electors \ VotersOf(claims), power) \in Nat
<1> DEFINE V == VotersOf(claims)
           R == Electors \ VotersOf(claims)
<1>1. V \subseteq Validators /\ R \subseteq Validators /\ V \cap R = {} /\ V \cup R = Electors
  BY Zenon DEF Electors, VotersOf, OracleTypeOK
<1>2. TotalClaimsPower(claims) = Weight(V, power)
  <2>1. {v \in bonded : claims[v] # NoClaim} = V
    BY Zenon DEF VotersOf, Electors, OracleTypeOK
  <2> QED BY Zenon, <2>1 DEF TotalClaimsPower
<1> HIDE DEF V, R
<1>3. IsFiniteSet(V) /\ IsFiniteSet(R) /\ (\A v \in V \cup R : power[v] \in Nat)
      /\ Weight(V, power) \in Nat /\ Weight(R, power) \in Nat
  BY Zenon, <1>1, PowerType
<1>4. Weight(V \cup R, power) = Weight(V, power) + Weight(R, power)
  BY <1>1, <1>3, WeightDisjointUnion
<1>5. TotalPower = Weight(V \cup R, power)
  BY Zenon, <1>1 DEF TotalPower, Electors
<1>6. Weight(R, power) = TotalPower - TotalClaimsPower(claims)
  BY <1>2, <1>3, <1>4, <1>5
<1> QED BY Zenon, <1>3, <1>6 DEF R

\* No continuation gives a content more than its votes and the power that remains.
LEMMA ContinuationBound ==
  ASSUME OracleTypeOK, NEW claims, VotersOf(claims) \subseteq Electors,
         NEW q \in Continuations(claims), NEW c \in Contents
  PROVE  ClaimPower(q, c)
           <= ClaimPower(claims, c) + (TotalPower - TotalClaimsPower(claims))
<1> DEFINE C == {v \in bonded : claims[v] = c}
           Q == {v \in bonded : q[v] = c}
           R == Electors \ VotersOf(claims)
<1>1. C \subseteq Validators /\ R \subseteq Validators /\ C \cap R = {}
  BY Zenon, OracleAssumption DEF Electors, VotersOf, OracleTypeOK
<1>2. Q \subseteq C \cup R
  BY Zenon DEF Continuations, Electors, VotersOf, OracleTypeOK
<1>3. Weight(R, power) = TotalPower - TotalClaimsPower(claims)
  BY Zenon, RemainingPower
<1>4. ClaimPower(claims, c) = Weight(C, power) /\ ClaimPower(q, c) = Weight(Q, power)
  BY Zenon DEF ClaimPower
<1> HIDE DEF C, Q, R
<1>5. IsFiniteSet(C) /\ IsFiniteSet(R) /\ IsFiniteSet(C \cup R)
      /\ \A v \in C \cup R : power[v] \in Nat
  BY Zenon, <1>1, PowerType
<1>6. Weight(C \cup R, power) = Weight(C, power) + Weight(R, power)
  BY <1>1, <1>5, WeightDisjointUnion
<1>7. Weight(Q, power) <= Weight(C \cup R, power)
  BY Zenon, <1>2, <1>5, WeightMonotone
<1> QED BY Zenon, <1>3, <1>4, <1>6, <1>7

\* If all who have not voted follow one content, it gets the power that remains.
LEMMA ContinuationReached ==
  ASSUME OracleTypeOK, NEW claims \in [Validators -> Contents \cup {NoClaim}],
         VotersOf(claims) \subseteq Electors, NEW c \in Contents
  PROVE  \E q \in Continuations(claims) :
           ClaimPower(q, c) = ClaimPower(claims, c) + (TotalPower - TotalClaimsPower(claims))
<1> DEFINE C == {v \in bonded : claims[v] = c}
           R == Electors \ VotersOf(claims)
           q == [v \in Validators |-> IF v \in R THEN c ELSE claims[v]]
           Q == {v \in bonded : q[v] = c}
<1>1. C \subseteq Validators /\ R \subseteq Validators /\ C \cap R = {}
  BY Zenon, OracleAssumption DEF Electors, VotersOf, OracleTypeOK
<1>2. q \in Continuations(claims)
  BY Zenon DEF Continuations, Electors, VotersOf
<1>3. Q = C \cup R
  BY Zenon DEF Electors, VotersOf, OracleTypeOK
<1>4. Weight(R, power) = TotalPower - TotalClaimsPower(claims)
  BY Zenon, RemainingPower
<1>5. ClaimPower(claims, c) = Weight(C, power) /\ ClaimPower(q, c) = Weight(Q, power)
  BY Zenon DEF ClaimPower
<1> HIDE DEF C, R, q, Q
<1>6. IsFiniteSet(C) /\ IsFiniteSet(R) /\ \A v \in C \cup R : power[v] \in Nat
  BY Zenon, <1>1, PowerType
<1>7. Weight(C \cup R, power) = Weight(C, power) + Weight(R, power)
  BY <1>1, <1>6, WeightDisjointUnion
<1>8. ClaimPower(q, c) = ClaimPower(claims, c) + (TotalPower - TotalClaimsPower(claims))
  BY Zenon, <1>3, <1>4, <1>5, <1>7
<1> QED BY Zenon, <1>2, <1>8

\* The two ratios exclude each other, and for a positive total power one of
\* them holds; a ratio that is reached is reached by every larger power.
LEMMA Ratios ==
  ASSUME NEW t \in Nat, t > 0, NEW x \in Int, NEW y \in Int
  PROVE  /\ RatioAtLeastNeeded(x, t) <=> ~RatioBelowNeeded(x, t)
         /\ x <= y /\ RatioAtLeastNeeded(x, t) => RatioAtLeastNeeded(y, t)
<1>1. ASSUME x <= y PROVE x * ConsensusDen <= y * ConsensusDen
  BY <1>1, ConsensusNeededAssumption
<1>2. x * ConsensusDen \in Int /\ y * ConsensusDen \in Int /\ ConsensusNum * t \in Int
  BY ConsensusNeededAssumption
<1> QED BY <1>1, <1>2 DEF RatioAtLeastNeeded, RatioBelowNeeded

\* The votes as they are, are one of their continuations.
LEMMA NoMoreVotes ==
  ASSUME NEW claims \in [Validators -> Contents \cup {NoClaim}]
  PROVE  claims \in Continuations(claims)
BY Zenon DEF Continuations

\* The content that FindHighestClaim returns has the most power of all.
LEMMA HighestIsMaximal ==
  ASSUME OracleTypeOK, NEW claims \in [Validators -> Contents \cup {NoClaim}],
         NEW h \in HighestClaims(claims), NEW c \in Contents
  PROVE  ClaimPower(claims, c) <= ClaimPower(claims, h)
<1>1. CASE c \in ClaimsMade(claims)
  BY Zenon, <1>1 DEF HighestClaims
<1>2. CASE c \notin ClaimsMade(claims)
  <2>1. {v \in bonded : claims[v] = c} = {}
    BY Zenon, <1>2, OracleAssumption DEF ClaimsMade, OracleTypeOK
  <2>2. ClaimPower(claims, c) = 0
    BY Zenon, <2>1, WeightEmpty DEF ClaimPower
  <2>3. ClaimPower(claims, h) \in Nat
    BY Zenon, CountsType
  <2> QED BY <2>2, <2>3
<1> QED BY Zenon, <1>1, <1>2

\* processCompletion decides exactly when all voters are electors.
LEMMA CompletionExact ==
  ASSUME OracleTypeOK, TotalPower > 0,
         NEW p \in Prophecy, p.status = "pending", p.finalClaim = NoClaim,
         VotersOf(p.claims) \subseteq Electors,
         NEW h \in HighestClaims(p.claims), h \in Contents
  PROVE  ExactlyDecided(processCompletion(p, h))
<1> DEFINE t == TotalPower
           k == TotalClaimsPower(p.claims)
           x == ClaimPower(p.claims, h)
           q == processCompletion(p, h)
<1>1. p.claims \in [Validators -> Contents \cup {NoClaim}]
  BY Zenon DEF Prophecy
<1>2. t \in Nat /\ k \in Nat /\ x \in Nat /\ t > 0
  BY Zenon, CountsType
<1>3. q.claims = p.claims
  BY Zenon, CompletionType
<1>4. \A c \in Contents : ClaimPower(p.claims, c) \in Nat /\ ClaimPower(p.claims, c) <= x
  BY Zenon, <1>1, CountsType, HighestIsMaximal
<1>5. CASE RatioAtLeastNeeded(x, t)
  <2>1. q.status = "success"
    BY Zenon, <1>5 DEF processCompletion, Prophecy
  <2>2. CanSucceed(p.claims)
    BY Zenon, <1>1, <1>5, NoMoreVotes DEF CanSucceed
  <2> QED BY Zenon, <1>3, <1>5, <2>1, <2>2 DEF ExactlyDecided
<1>6. CASE ~RatioAtLeastNeeded(x, t)
  <2>1. \A c \in Contents : ~RatioAtLeastNeeded(ClaimPower(p.claims, c), t)
    BY <1>2, <1>4, <1>6, Ratios
  <2>2. CASE RatioBelowNeeded(x + t - k, t)
    <3>1. q.status = "failed"
      BY Zenon, <1>6, <2>2 DEF processCompletion, Prophecy
    <3>2. ASSUME NEW r \in Continuations(p.claims), NEW c \in Contents
          PROVE  ~RatioAtLeastNeeded(ClaimPower(r, c), t)
      <4>1. ClaimPower(r, c) <= ClaimPower(p.claims, c) + (t - k)
        BY Zenon, ContinuationBound
      <4>2. ClaimPower(r, c) \in Nat
        BY Zenon, CountsType
      <4>3. ClaimPower(r, c) <= x + t - k
        BY <1>2, <1>4, <4>1, <4>2
      <4> QED BY <1>2, <2>2, <4>2, <4>3, Ratios
    <3>3. ~CanSucceed(p.claims)
      BY Zenon, <3>2 DEF CanSucceed
    <3> QED BY Zenon, <1>3, <2>1, <3>1, <3>3 DEF ExactlyDecided
  <2>3. CASE ~RatioBelowNeeded(x + t - k, t)
    <3>1. q.status = "pending"
      BY Zenon, <1>6, <2>3 DEF processCompletion, Prophecy
    <3>2. PICK r \in Continuations(p.claims) : ClaimPower(r, h) = x + (t - k)
      BY Zenon, <1>1, ContinuationReached
    <3>3. x + (t - k) = x + t - k /\ x + t - k \in Int
      BY <1>2
    <3>4. RatioAtLeastNeeded(x + t - k, t)
      BY Zenon, <1>2, <2>3, <3>3, Ratios
    <3>5. CanSucceed(p.claims)
      BY Zenon, <3>2, <3>3, <3>4 DEF CanSucceed
    <3> QED BY Zenon, <1>3, <2>1, <3>1, <3>5 DEF ExactlyDecided
  <2> QED BY Zenon, <2>2, <2>3
<1> QED BY Zenon, <1>5, <1>6

\* Whatever happened to whitelist, bonding and powers between the votes, a vote
\* leaves its prophecy failed exactly when it cannot succeed any more and successful
\* exactly when a content has the needed power, for any number of validators.
THEOREM DecisionExact == OracleSpec => DecidedExactly
<1> DEFINE Exact == \A id \in Ids :
             /\ prophecies'[id] # prophecies[id]
             /\ VotersListed(prophecies'[id].claims)
             /\ TotalPower > 0
             => ExactlyDecided(prophecies'[id])
<1>1. ASSUME OracleTypeOK, [OracleNext]_oracleVars
      PROVE  Exact
  <2>1. CASE Vote
    <3>1. PICK v \in Validators, id \in Ids, content \in Contents, p \in Prophecy :
            VoteOutcome(v, id, content, p)
      BY Zenon, <1>1, <2>1, VoteResult
    <3>2. PICK h \in HighestClaims(p.claims) :
            h \in Contents /\ prophecies'[id] = processCompletion(p, h)
      BY Zenon, <3>1 DEF VoteOutcome
    <3>3. prophecies'[id].claims = p.claims
      BY Zenon, <3>1 DEF VoteOutcome
    <3>4. \A i \in Ids \ {id} : prophecies'[i] = prophecies[i]
      BY Zenon, <3>1 DEF VoteOutcome
    <3>5. ASSUME VotersListed(p.claims), TotalPower > 0
          PROVE  ExactlyDecided(prophecies'[id])
      <4>1. VotersOf(p.claims) \subseteq Electors
        BY Zenon, <3>5 DEF VotersListed, VotersOf, Electors
      <4> QED BY <1>1, <3>1, <3>2, <3>5, <4>1, CompletionExact DEF VoteOutcome
    <3> QED BY Zenon, <3>3, <3>4, <3>5
  <2>2. CASE Staking \/ Whitelisting \/ UNCHANGED oracleVars
    <3>1. prophecies' = prophecies
      BY Zenon, <2>2 DEF Staking, StakingUpdate, Whitelisting, ProcessUpdateWhiteListValidator,
                  oracleVars
    <3> QED BY Zenon, <3>1
  <2> QED BY Zenon, <1>1, <2>1, <2>2 DEF OracleNext
<1>2. OracleTypeOK /\ [OracleNext]_oracleVars => [Exact]_oracleVars
  BY Zenon, <1>1
<1> QED BY <1>2, OracleTypeCorrect, PTL DEF OracleSpec, DecidedExactly

----------------------------------------------------------------------------
(* Coins.                                                                   *)

Balances == [Holders -> [Denoms -> Nat]]

----------------------------------------------------------------------------
(* The bank operations and the supply.                                      *)

\* The supply of a denomination is a natural number.
LEMMA SupplyType ==
  ASSUME NEW b \in Balances, NEW d \in Denoms
  PROVE  IsFiniteSet(Holders) /\ SupplyIn(b, d) \in Nat
<1>1. IsFiniteSet(Holders)
  BY Zenon, EthBridgeAssumption, FS_AddElement DEF Holders
<1>2. \A h \in Holders : [x \in Holders |-> b[x][d]][h] \in Nat
  BY Zenon DEF Balances
<1> QED BY Zenon, <1>1, <1>2, WeightType DEF SupplyIn

\* The balances c are b but for k more coins d of h.
Changed(b, c, h, d, k) ==
  /\ c \in Balances
  /\ c[h][d] = b[h][d] + k
  /\ \A e \in Denoms \ {d} : c[h][e] = b[h][e]
  /\ \A x \in Holders \ {h} : c[x] = b[x]

\* Adding to a balance changes nothing else.
LEMMA AddChanges ==
  ASSUME NEW b \in Balances, NEW h \in Holders, NEW d \in Denoms, NEW n \in Nat
  PROVE  Changed(b, [b EXCEPT ![h][d] = @ + n], h, d, n)
<1>1. [b[h] EXCEPT ![d] = @ + n] \in [Denoms -> Nat]
  BY DEF Balances
<1>2. PICK f \in [Denoms -> Nat] : f = [b[h] EXCEPT ![d] = @ + n]
  BY Zenon, <1>1
<1>3. f[d] = b[h][d] + n /\ \A e \in Denoms \ {d} : f[e] = b[h][e]
  BY Zenon, <1>2 DEF Balances
<1>4. [b EXCEPT ![h][d] = @ + n] = [b EXCEPT ![h] = f]
  BY Zenon, <1>2
<1> QED BY Zenon, <1>3, <1>4 DEF Changed, Balances

\* Taking no more than there is from a balance changes nothing else.
LEMMA SubtractChanges ==
  ASSUME NEW b \in Balances, NEW h \in Holders, NEW d \in Denoms, NEW n \in Nat,
         b[h][d] >= n
  PROVE  Changed(b, [b EXCEPT ![h][d] = @ - n], h, d, 0 - n)
<1>1. [b[h] EXCEPT ![d] = @ - n] \in [Denoms -> Nat]
  BY DEF Balances
<1>2. PICK f \in [Denoms -> Nat] : f = [b[h] EXCEPT ![d] = @ - n]
  BY Zenon, <1>1
<1>3. f[d] = b[h][d] + (0 - n) /\ \A e \in Denoms \ {d} : f[e] = b[h][e]
  BY <1>2 DEF Balances
<1>4. [b EXCEPT ![h][d] = @ - n] = [b EXCEPT ![h] = f]
  BY Zenon, <1>2
<1> QED BY Zenon, <1>3, <1>4 DEF Changed, Balances

\* Changing one balance changes the supply of its denomination by the same amount.
LEMMA ChangeSupply ==
  ASSUME NEW b \in Balances, NEW c, NEW h \in Holders, NEW d \in Denoms,
         NEW k \in Int, Changed(b, c, h, d, k)
  PROVE  /\ SupplyIn(c, d) = SupplyIn(b, d) + k
         /\ \A e \in Denoms \ {d} : SupplyIn(c, e) = SupplyIn(b, e)
<1>1. IsFiniteSet(Holders) /\ SupplyIn(b, d) \in Nat
  BY Zenon, SupplyType
<1>2. c \in Balances
  BY Zenon DEF Changed
<1>3. PICK w : w = [x \in Holders |-> b[x][d]]
  BY Zenon
<1>4. PICK v : v = [x \in Holders |-> c[x][d]]
  BY Zenon
<1>5. /\ \A x \in Holders : w[x] \in Nat
      /\ \A x \in Holders : v[x] \in Nat
      /\ \A x \in Holders \ {h} : v[x] = w[x]
      /\ v[h] = w[h] + k
  BY Zenon, <1>2, <1>3, <1>4 DEF Balances, Changed
<1>6. Weight(Holders, v) = Weight(Holders, w) - w[h] + v[h]
  BY <1>1, <1>5, WeightUpdate
<1>7. SupplyIn(b, d) = Weight(Holders, w) /\ SupplyIn(c, d) = Weight(Holders, v)
  BY Zenon, <1>3, <1>4 DEF SupplyIn
<1>8. w[h] \in Nat
  BY Zenon, <1>5
<1>9. SupplyIn(c, d) = SupplyIn(b, d) + k
  BY <1>1, <1>5, <1>6, <1>7, <1>8
<1>10. ASSUME NEW e \in Denoms \ {d}
       PROVE  SupplyIn(c, e) = SupplyIn(b, e)
  <2>1. [x \in Holders |-> c[x][e]] = [x \in Holders |-> b[x][e]]
    BY Zenon DEF Changed
  <2> QED BY Zenon, <2>1 DEF SupplyIn
<1> QED BY Zenon, <1>9, <1>10

\* The balances s are b after a transfer.
Sent(b, s, from, to, d, n) ==
  \E c \in Balances :
    /\ Changed(b, c, from, d, 0 - n)
    /\ Changed(c, s, to, d, n)
    /\ \A e \in Denoms : SupplyIn(s, e) = SupplyIn(b, e)

\* Sending coins that the sender has keeps every supply.
LEMMA SendKeepsSupply ==
  ASSUME NEW b \in Balances, NEW from \in Holders, NEW to \in Holders,
         NEW d \in Denoms, NEW n \in Nat, b[from][d] >= n
  PROVE  Sent(b, Send(b, from, to, d, n), from, to, d, n)
<1>1. PICK c : c = [b EXCEPT ![from][d] = @ - n]
  BY Zenon
<1>2. Changed(b, c, from, d, 0 - n)
  BY Zenon, <1>1, SubtractChanges
<1>3. c \in Balances
  BY Zenon, <1>2 DEF Changed
<1>4. PICK s : s = Send(b, from, to, d, n)
  BY Zenon
<1>5. Changed(c, s, to, d, n)
  BY Zenon, <1>1, <1>3, <1>4, AddChanges DEF Send
<1>6. 0 - n \in Int
  OBVIOUS
<1>7. /\ SupplyIn(c, d) = SupplyIn(b, d) + (0 - n)
      /\ \A e \in Denoms \ {d} : SupplyIn(c, e) = SupplyIn(b, e)
  BY <1>2, <1>6, ChangeSupply
<1>8. /\ SupplyIn(s, d) = SupplyIn(c, d) + n
      /\ \A e \in Denoms \ {d} : SupplyIn(s, e) = SupplyIn(c, e)
  BY <1>3, <1>5, ChangeSupply
<1>9. SupplyIn(b, d) \in Nat
  BY Zenon, SupplyType
<1>10. SupplyIn(s, d) = SupplyIn(b, d)
  BY <1>7, <1>8, <1>9
<1>11. \A e \in Denoms : SupplyIn(s, e) = SupplyIn(b, e)
  BY Zenon, <1>7, <1>8, <1>10
<1> QED BY Zenon, <1>2, <1>3, <1>4, <1>5, <1>11 DEF Sent

----------------------------------------------------------------------------
(* What a message and a mint do to the balances.                            *)

\* The balances c are b without the coins of message m; the module keeps nothing
\* but fees.
MessageEffect(b, c, m) ==
  /\ c \in Balances
  /\ SupplyIn(c, m.denom) = SupplyIn(b, m.denom) - m.amount
  /\ \A e \in Denoms \ {m.denom} : SupplyIn(c, e) = SupplyIn(b, e)
  /\ \A e \in Denoms \ {Ceth} : c[Module][e] = b[Module][e]

\* ProcessLock and ProcessBurn destroy the amount and move the fee.
LEMMA MessageDestroys ==
  ASSUME NEW b \in Balances, NEW sender \in Accounts, NEW m \in Messages,
         cethReceiver \in Accounts \cup {NoAccount}, MessageOK(b, sender, m)
  PROVE  MessageEffect(b, ProcessMessage(b, sender, m), m)
<1>1. /\ sender \in Holders /\ sender # Module /\ FeeAccount \in Holders
      /\ Module \in Holders /\ Ceth \in Denoms /\ m.denom \in Denoms
      /\ m.fee \in Nat /\ m.amount \in Nat
  BY Zenon, EthBridgeAssumption DEF Holders, FeeAccount, Messages
<1>2. PICK a : a = AfterFee(b, sender, m)
  BY Zenon
<1>3. b[sender][Ceth] >= m.fee /\ a[sender][m.denom] >= m.amount
  BY Zenon, <1>2 DEF MessageOK
<1>4. /\ a \in Balances
      /\ \A e \in Denoms : SupplyIn(a, e) = SupplyIn(b, e)
      /\ \A e \in Denoms \ {Ceth} : a[Module][e] = b[Module][e]
  <2>1. Sent(b, a, sender, FeeAccount, Ceth, m.fee)
    BY Zenon, <1>1, <1>2, <1>3, SendKeepsSupply DEF AfterFee
  <2>2. PICK c \in Balances :
          /\ Changed(b, c, sender, Ceth, 0 - m.fee)
          /\ Changed(c, a, FeeAccount, Ceth, m.fee)
          /\ \A e \in Denoms : SupplyIn(a, e) = SupplyIn(b, e)
    BY Zenon, <2>1 DEF Sent
  <2> QED BY <1>1, <2>2 DEF Changed
<1>5. PICK s : s = Send(a, sender, Module, m.denom, m.amount)
  BY Zenon
<1>6. /\ s \in Balances
      /\ \A e \in Denoms : SupplyIn(s, e) = SupplyIn(a, e)
      /\ s[Module][m.denom] = a[Module][m.denom] + m.amount
      /\ \A e \in Denoms \ {m.denom} : s[Module][e] = a[Module][e]
  <2>1. Sent(a, s, sender, Module, m.denom, m.amount)
    BY Zenon, <1>1, <1>3, <1>4, <1>5, SendKeepsSupply
  <2>2. PICK c \in Balances :
          /\ Changed(a, c, sender, m.denom, 0 - m.amount)
          /\ Changed(c, s, Module, m.denom, m.amount)
          /\ \A e \in Denoms : SupplyIn(s, e) = SupplyIn(a, e)
    BY Zenon, <2>1 DEF Sent
  <2> QED BY Zenon, <1>1, <2>2 DEF Changed
<1>7. PICK c : c = BurnCoins(s, m.denom, m.amount)
  BY Zenon
<1>8. a[Module][m.denom] \in Nat
  BY Zenon, <1>1, <1>4 DEF Balances
<1>9. s[Module][m.denom] >= m.amount
  BY <1>1, <1>6, <1>8
<1>10. Changed(s, c, Module, m.denom, 0 - m.amount)
  BY Zenon, <1>1, <1>6, <1>7, <1>9, SubtractChanges DEF BurnCoins
<1>11. 0 - m.amount \in Int
  BY <1>1
<1>12. /\ SupplyIn(c, m.denom) = SupplyIn(s, m.denom) + (0 - m.amount)
       /\ \A e \in Denoms \ {m.denom} : SupplyIn(c, e) = SupplyIn(s, e)
  BY <1>1, <1>6, <1>10, <1>11, ChangeSupply
<1>13. SupplyIn(b, m.denom) \in Nat
  BY Zenon, <1>1, SupplyType
<1>14. SupplyIn(c, m.denom) = SupplyIn(b, m.denom) - m.amount
  BY SMTT(15), <1>1, <1>4, <1>6, <1>12, <1>13
<1>15. c[Module][m.denom] = a[Module][m.denom]
  BY <1>1, <1>6, <1>8, <1>10 DEF Changed
<1>16. \A e \in Denoms : c[Module][e] = a[Module][e]
  BY Zenon, <1>1, <1>6, <1>10, <1>15 DEF Changed
<1>17. c \in Balances
  BY Zenon, <1>10 DEF Changed
<1>18. c = ProcessMessage(b, sender, m)
  BY Zenon, <1>2, <1>5, <1>7 DEF ProcessMessage
<1> QED BY Zenon, <1>1, <1>4, <1>6, <1>12, <1>14, <1>16, <1>17, <1>18 DEF MessageEffect

\* The balances c are b with n more coins d; the module keeps nothing.
MintEffect(b, c, d, n) ==
  /\ c \in Balances
  /\ SupplyIn(c, d) = SupplyIn(b, d) + n
  /\ \A e \in Denoms \ {d} : SupplyIn(c, e) = SupplyIn(b, e)
  /\ c[Module] = b[Module]

\* Minting and sending on adds the amount to the supply and leaves the module's
\* account as it was.
LEMMA MintPaysOut ==
  ASSUME NEW b \in Balances, NEW d \in Denoms, NEW n \in Nat,
         NEW r \in Holders, r # Module
  PROVE  MintEffect(b, Send(MintCoins(b, d, n), Module, r, d, n), d, n)
<1>1. Module \in Holders
  BY Zenon DEF Holders
<1>2. PICK a : a = MintCoins(b, d, n)
  BY Zenon
<1>3. Changed(b, a, Module, d, n)
  BY Zenon, <1>1, <1>2, AddChanges DEF MintCoins
<1>4. /\ SupplyIn(a, d) = SupplyIn(b, d) + n
      /\ \A e \in Denoms \ {d} : SupplyIn(a, e) = SupplyIn(b, e)
  BY <1>1, <1>3, ChangeSupply
<1>5. a \in Balances /\ b[Module][d] \in Nat /\ a[Module][d] = b[Module][d] + n
  BY Zenon, <1>1, <1>3 DEF Changed, Balances
<1>6. a[Module][d] >= n
  BY <1>5
<1>7. PICK s : s = Send(a, Module, r, d, n)
  BY Zenon
<1>8. PICK c \in Balances :
        /\ Changed(a, c, Module, d, 0 - n)
        /\ Changed(c, s, r, d, n)
        /\ \A e \in Denoms : SupplyIn(s, e) = SupplyIn(a, e)
  <2>1. Sent(a, s, Module, r, d, n)
    BY Zenon, <1>1, <1>5, <1>6, <1>7, SendKeepsSupply
  <2> QED BY Zenon, <2>1 DEF Sent
<1>9. s \in Balances /\ s[Module] = c[Module]
  BY Zenon, <1>1, <1>8 DEF Changed
<1>10. c[Module] = b[Module]
  <2>1. c[Module] \in [Denoms -> Nat] /\ b[Module] \in [Denoms -> Nat]
    BY Zenon, <1>1 DEF Balances
  <2>2. c[Module][d] = b[Module][d]
    BY <1>5, <1>8 DEF Changed
  <2>3. \A e \in Denoms \ {d} : c[Module][e] = b[Module][e]
    BY Zenon, <1>3, <1>8 DEF Changed
  <2> QED BY <2>1, <2>2, <2>3
<1> QED BY Zenon, <1>2, <1>4, <1>7, <1>8, <1>9, <1>10 DEF MintEffect

----------------------------------------------------------------------------
(* The amounts of the events and of the prophecies.                         *)

\* What the events destroyed is a natural number.
LEMMA DestroyedType ==
  ASSUME NEW evs \in Seq(Events), NEW e \in Denoms
  PROVE  DestroyedIn(evs, e) \in Nat
<1>1. PICK n \in Nat : DOMAIN evs = 1 .. n
  OBVIOUS
<1>2. PICK s : s = {i \in DOMAIN evs : evs[i].denom = e}
  BY Zenon
<1>3. IsFiniteSet(s)
  BY <1>1, <1>2, FS_Interval, FS_Subset
<1>4. PICK w : w = [i \in DOMAIN evs |-> evs[i].amount]
  BY Zenon
<1>5. \A i \in s : w[i] \in Nat
  <2>1. \A y \in Events : y.amount \in Nat
    BY Zenon, EthBridgeAssumption DEF Events
  <2> QED BY <1>2, <1>4, <2>1
<1>6. Weight(s, w) \in Nat
  BY Zenon, <1>3, <1>5, WeightType
<1> QED BY Zenon, <1>2, <1>4, <1>6 DEF DestroyedIn

\* An event adds its amount to what was destroyed of its denomination.
LEMMA EventDestroys ==
  ASSUME NEW evs \in Seq(Events), NEW x \in Events
  PROVE  /\ Append(evs, x) \in Seq(Events)
         /\ DestroyedIn(evs, x.denom) \in Nat
         /\ DestroyedIn(Append(evs, x), x.denom) = DestroyedIn(evs, x.denom) + x.amount
         /\ \A e \in Denoms \ {x.denom} : DestroyedIn(Append(evs, x), e) = DestroyedIn(evs, e)
<1>1. PICK n \in Nat : n = Len(evs) /\ DOMAIN evs = 1 .. n
  OBVIOUS
<1>2. PICK q : q = Append(evs, x)
  BY Zenon
<1>3. /\ q \in Seq(Events)
      /\ DOMAIN q = 1 .. n + 1
      /\ q[n + 1] = x
      /\ \A i \in 1 .. n : q[i] = evs[i]
  BY <1>1, <1>2
<1>4. /\ \A i \in 1 .. n : evs[i] \in Events
      /\ \A i \in 1 .. n + 1 : q[i] \in Events
  BY <1>1, <1>3
<1>5. PICK w : w = [i \in 1 .. n |-> evs[i].amount]
  BY Zenon
<1>6. PICK v : v = [i \in 1 .. n + 1 |-> q[i].amount]
  BY Zenon
<1>7. /\ \A i \in 1 .. n : w[i] \in Nat
      /\ \A i \in 1 .. n + 1 : v[i] \in Nat
      /\ \A i \in 1 .. n : v[i] = w[i]
      /\ v[n + 1] = x.amount
  <2>1. \A y \in Events : y.amount \in Nat
    BY Zenon, EthBridgeAssumption DEF Events
  <2> QED BY <1>3, <1>4, <1>5, <1>6, <2>1
<1> DEFINE S(e) == {i \in 1 .. n : evs[i].denom = e}
<1>8. ASSUME NEW e \in Denoms
      PROVE  /\ IsFiniteSet(S(e)) /\ S(e) \subseteq 1 .. n
             /\ DestroyedIn(evs, e) = Weight(S(e), v)
             /\ DestroyedIn(evs, e) \in Nat
  <2>1. PICK s : s = S(e)
    BY Zenon
  <2>2. s \subseteq 1 .. n /\ IsFiniteSet(s)
    <3>1. IsFiniteSet(1 .. n)
      BY FS_Interval
    <3> QED BY Zenon, <2>1, <3>1, FS_Subset
  <2>3. DestroyedIn(evs, e) = Weight(s, w)
    BY Zenon, <1>1, <1>5, <2>1 DEF DestroyedIn
  <2>4. \A i \in s : w[i] = v[i] /\ w[i] \in Nat
    BY Zenon, <1>7, <2>2
  <2>5. Weight(s, w) = Weight(s, v)
    BY Zenon, <2>4, WeightCongruence
  <2>6. Weight(s, w) \in Nat
    BY Zenon, <2>2, <2>4, WeightType
  <2> QED BY Zenon, <2>1, <2>2, <2>3, <2>5, <2>6
<1>9. ASSUME NEW e \in Denoms \ {x.denom}
      PROVE  DestroyedIn(q, e) = DestroyedIn(evs, e)
  <2>1. {i \in 1 .. n + 1 : q[i].denom = e} = S(e)
    BY <1>3
  <2>2. DestroyedIn(q, e) = Weight(S(e), v)
    BY Zenon, <1>3, <1>6, <2>1 DEF DestroyedIn
  <2> QED BY Zenon, <1>8, <2>2
<1>10. DestroyedIn(q, x.denom) = DestroyedIn(evs, x.denom) + x.amount
  <2>1. x.denom \in Denoms
    BY Zenon DEF Events
  <2>2. PICK s : s = S(x.denom)
    BY Zenon
  <2>3. {i \in 1 .. n + 1 : q[i].denom = x.denom} = s \cup {n + 1}
    BY <1>3, <2>2
  <2>4. DestroyedIn(q, x.denom) = Weight(s \cup {n + 1}, v)
    BY Zenon, <1>3, <1>6, <2>3 DEF DestroyedIn
  <2>5. /\ IsFiniteSet(s) /\ s \subseteq 1 .. n
        /\ DestroyedIn(evs, x.denom) = Weight(s, v)
    BY Zenon, <1>8, <2>1, <2>2
  <2>6. PICK t : t = {n + 1}
    BY Zenon
  <2>7. s \cap t = {} /\ \A i \in s \cup t : v[i] \in Nat
    BY <1>7, <2>5, <2>6
  <2>8. IsFiniteSet(s) /\ IsFiniteSet(t)
    BY Zenon, <2>5, <2>6, FS_Singleton
  <2>9. Weight(s \cup t, v) = Weight(s, v) + Weight(t, v)
    <3> HIDE DEF S
    <3> QED BY <2>7, <2>8, WeightDisjointUnion
  <2>10. v[n + 1] \in Nat
    BY <1>7
  <2>11. Weight(t, v) = x.amount
    BY Zenon, <1>7, <2>6, <2>10, WeightSingleton
  <2> QED BY Zenon, <2>4, <2>5, <2>6, <2>9, <2>11
<1>11. DestroyedIn(evs, x.denom) \in Nat
  <2>1. x.denom \in Denoms
    BY Zenon DEF Events
  <2> QED BY Zenon, <1>8, <2>1
<1> QED BY Zenon, <1>2, <1>3, <1>9, <1>10, <1>11

WellFormed(p) ==
  /\ p \in [Ids -> Prophecy]
  /\ \A i \in Ids : p[i].status = "success" <=> p[i].finalClaim # NoClaim

\* The mints of the prophecies that succeeded have amounts, finitely many.
LEMMA MintedType ==
  ASSUME NEW p, WellFormed(p), NEW d \in Denoms
  PROVE  /\ IsFiniteSet(SuccessfulMints(p, d))
         /\ \A i \in SuccessfulMints(p, d) : p[i].finalClaim.amount \in Nat
         /\ MintedIn(p, d) \in Nat
<1>1. IsFiniteSet(SuccessfulMints(p, d))
  BY Zenon, EthBridgeAssumption, FS_Subset DEF SuccessfulMints
<1>2. \A i \in SuccessfulMints(p, d) : i \in Ids /\ p[i].finalClaim \in Contents
  BY Zenon DEF SuccessfulMints, WellFormed, Prophecy
<1>3. \A i \in SuccessfulMints(p, d) : p[i].finalClaim.amount \in Nat
  BY Zenon, <1>2, EthBridgeAssumption
<1>4. PICK w : w = [i \in Ids |-> p[i].finalClaim.amount]
  BY Zenon
<1>5. \A i \in SuccessfulMints(p, d) : w[i] \in Nat
  BY Zenon, <1>2, <1>3, <1>4
<1>6. Weight(SuccessfulMints(p, d), w) \in Nat
  BY Zenon, <1>1, <1>5, WeightType
<1> QED BY Zenon, <1>1, <1>3, <1>4, <1>6 DEF MintedIn

\* A vote that does not decide for success mints nothing.
LEMMA NoSuccessNoMint ==
  ASSUME NEW p, NEW q, NEW id \in Ids,
         p[id].status # "success", q[id].status # "success",
         \A i \in Ids \ {id} : q[i] = p[i], NEW d \in Denoms
  PROVE  MintedIn(q, d) = MintedIn(p, d)
<1>1. PICK s : s = SuccessfulMints(p, d)
  BY Zenon
<1>2. SuccessfulMints(q, d) = s
  BY Zenon, <1>1 DEF SuccessfulMints
<1>3. \A i \in s : i \in Ids \ {id}
  BY Zenon, <1>1 DEF SuccessfulMints
<1>4. PICK w : w = [i \in Ids |-> p[i].finalClaim.amount]
  BY Zenon
<1>5. PICK v : v = [i \in Ids |-> q[i].finalClaim.amount]
  BY Zenon
<1>6. \A i \in s : w[i] = v[i]
  BY Zenon, <1>3, <1>4, <1>5
<1>7. Weight(s, w) = Weight(s, v)
  BY Zenon, <1>6, WeightCongruence
<1> QED BY Zenon, <1>1, <1>2, <1>4, <1>5, <1>7 DEF MintedIn

\* From p to q exactly the prophecy id succeeds.
Succeeds(p, q, id) ==
  /\ WellFormed(p) /\ WellFormed(q)
  /\ p[id].status # "success" /\ q[id].status = "success"
  /\ \A i \in Ids \ {id} : q[i] = p[i]

\* A prophecy that succeeds adds the amount of its final claim, once.
LEMMA SuccessMints ==
  ASSUME NEW p, NEW q, NEW id \in Ids, Succeeds(p, q, id),
         NEW d \in Denoms, d = MintDenom(q[id].finalClaim)
  PROVE  /\ MintedIn(q, d) = MintedIn(p, d) + q[id].finalClaim.amount
         /\ \A e \in Denoms \ {d} : MintedIn(q, e) = MintedIn(p, e)
<1> USE DEF Succeeds
<1>1. PICK w : w = [i \in Ids |-> p[i].finalClaim.amount]
  BY Zenon
<1>2. PICK v : v = [i \in Ids |-> q[i].finalClaim.amount]
  BY Zenon
<1>3. \A i \in Ids \ {id} : w[i] = v[i]
  BY Zenon, <1>1, <1>2
<1>4. MintedIn(q, d) = MintedIn(p, d) + q[id].finalClaim.amount
  <2>1. PICK s : s = SuccessfulMints(p, d)
    BY Zenon
  <2>2. PICK t : t = {id}
    BY Zenon
  <2>3. SuccessfulMints(q, d) = s \cup t /\ s \cap t = {} /\ s \subseteq Ids
    BY Zenon, <2>1, <2>2 DEF SuccessfulMints
  <2>4. IsFiniteSet(s) /\ IsFiniteSet(t)
    BY Zenon, <2>1, <2>2, MintedType, FS_Singleton
  <2>5. \A i \in s \cup t : q[i].finalClaim.amount \in Nat
    BY Zenon, <2>3, MintedType
  <2>6. \A i \in s \cup t : v[i] \in Nat
    BY Zenon, <1>2, <2>2, <2>3, <2>5
  <2>7. Weight(s \cup t, v) = Weight(s, v) + Weight(t, v)
    BY <2>3, <2>4, <2>6, WeightDisjointUnion
  <2>8. \A i \in s : w[i] = v[i]
    BY Zenon, <1>3, <2>2, <2>3
  <2>9. Weight(s, w) = Weight(s, v)
    BY Zenon, <2>8, WeightCongruence
  <2>10. v[id] \in Nat /\ v[id] = q[id].finalClaim.amount
    BY Zenon, <1>2, <2>2, <2>6
  <2>11. Weight(t, v) = v[id]
    BY Zenon, <2>2, <2>10, WeightSingleton
  <2>12. MintedIn(q, d) = Weight(s \cup t, v) /\ MintedIn(p, d) = Weight(s, w)
    BY Zenon, <1>1, <1>2, <2>1, <2>3 DEF MintedIn
  <2> QED BY Zenon, <2>7, <2>9, <2>10, <2>11, <2>12
<1>5. ASSUME NEW e \in Denoms \ {d}
      PROVE  MintedIn(q, e) = MintedIn(p, e)
  <2>1. PICK s : s = SuccessfulMints(p, e)
    BY Zenon
  <2>2. SuccessfulMints(q, e) = s
    BY Zenon, <2>1 DEF SuccessfulMints
  <2>3. \A i \in s : w[i] = v[i]
    BY Zenon, <1>3, <2>1 DEF SuccessfulMints
  <2>4. Weight(s, w) = Weight(s, v)
    BY Zenon, <2>3, WeightCongruence
  <2> QED BY Zenon, <1>1, <1>2, <2>1, <2>2, <2>4 DEF MintedIn
<1> QED BY Zenon, <1>4, <1>5

----------------------------------------------------------------------------
(* The inductive invariant.  SupplyAccounted alone is not inductive: that a  *)
(* vote adds the amount of its final claim once needs the prophecies to be   *)
(* well formed, and that a mint can pay out needs balances that are numbers. *)

BridgeInv == OracleTypeOK /\ BridgeTypeOK /\ ModuleHoldsOnlyFees /\ SupplyAccounted

\* The state at genesis.
LEMMA BridgeInitInv ==
  ASSUME Init
  PROVE  BridgeInv
<1>1. OracleTypeOK
  BY Zenon, InitType DEF Init
<1>2. BridgeTypeOK /\ ModuleHoldsOnlyFees
  BY EthBridgeAssumption DEF Init, BridgeInit, BridgeTypeOK, ModuleHoldsOnlyFees
<1>3. ASSUME NEW d \in Denoms
      PROVE  MintedIn(prophecies, d) = 0 /\ DestroyedIn(events, d) = 0
  <2>1. SuccessfulMints(prophecies, d) = {}
    BY Zenon DEF SuccessfulMints, Init, OracleInit, NewProphecy
  <2>2. {i \in DOMAIN events : events[i].denom = d} = {}
    BY DEF Init, BridgeInit
  <2> QED BY Zenon, <2>1, <2>2, WeightEmpty DEF MintedIn, DestroyedIn
<1>4. ASSUME NEW d \in Denoms
      PROVE  SupplyIn(balances, d) \in Nat /\ balances = InitialBalances
  BY Zenon, <1>2, SupplyType DEF BridgeTypeOK, Balances, Init, BridgeInit
<1>5. SupplyAccounted
  BY Zenon, <1>3, <1>4 DEF SupplyAccounted
<1> QED BY Zenon, <1>1, <1>2, <1>5 DEF BridgeInv

\* A vote, with the mint of a vote that decides for success.
LEMMA ClaimKeepsInv ==
  ASSUME BridgeInv, NEW v \in Validators, NEW id \in Ids, NEW content \in Contents,
         CreateEthBridgeClaim(v, id, content)
  PROVE  BridgeInv'
<1>1. OracleTypeOK /\ BridgeTypeOK /\ ModuleHoldsOnlyFees /\ SupplyAccounted
  BY Zenon DEF BridgeInv
<1>2. ProcessClaim(v, id, content)
  BY Zenon DEF CreateEthBridgeClaim
<1>3. OracleTypeOK'
  BY Zenon, <1>1, <1>2, StepKeepsType DEF OracleNext, Vote
<1>4. PICK p \in Prophecy : VoteOutcome(v, id, content, p)
  BY Zenon, <1>1, <1>2, ClaimResult
<1>5. /\ prophecies[id].status # "success"
      /\ \A i \in Ids \ {id} : prophecies'[i] = prophecies[i]
  BY Zenon, <1>4 DEF VoteOutcome, CanClaim
<1>6. WellFormed(prophecies) /\ WellFormed(prophecies')
  BY Zenon, <1>1, <1>3 DEF WellFormed, OracleTypeOK
<1>7. UNCHANGED <<cethReceiver, blacklist, sequence, events>>
  BY Zenon DEF CreateEthBridgeClaim
<1>8. balances \in Balances
  BY Zenon, <1>1 DEF BridgeTypeOK, Balances
<1>9. CASE prophecies'[id].status # "success"
  <2>1. UNCHANGED <<balances, peggyTokens>>
    BY Zenon, <1>9 DEF CreateEthBridgeClaim
  <2>2. \A d \in Denoms : MintedIn(prophecies', d) = MintedIn(prophecies, d)
    BY Zenon, <1>5, <1>9, NoSuccessNoMint
  <2>3. SupplyAccounted'
    BY Zenon, <1>1, <1>7, <2>1, <2>2 DEF SupplyAccounted
  <2>4. BridgeTypeOK' /\ ModuleHoldsOnlyFees'
    BY Zenon, <1>1, <1>7, <2>1 DEF BridgeTypeOK, ModuleHoldsOnlyFees
  <2> QED BY Zenon, <1>3, <2>3, <2>4 DEF BridgeInv
<1>10. CASE prophecies'[id].status = "success"
  <2>1. PICK c : c = prophecies'[id].finalClaim
    BY Zenon
  <2>2. c \in Contents
    BY Zenon, <1>6, <1>10, <2>1 DEF WellFormed, Prophecy
  <2>3. PICK d : d = MintDenom(c)
    BY Zenon
  <2>4. d \in Denoms /\ c.amount \in Nat /\ c.receiver \in Holders
    BY Zenon, <2>2, <2>3, EthBridgeAssumption DEF MintDenom
  <2>5. ProcessSuccessfulClaim(c)
    BY Zenon, <1>10, <2>1 DEF CreateEthBridgeClaim
  <2>6. /\ c.receiver # Module
        /\ peggyTokens' \subseteq peggyTokens \cup {d}
        /\ balances' = Send(MintCoins(balances, d, c.amount), Module, c.receiver, d, c.amount)
    BY Zenon, <2>3, <2>5, EthBridgeAssumption DEF ProcessSuccessfulClaim
  <2>7. MintEffect(balances, balances', d, c.amount)
    BY Zenon, <1>8, <2>4, <2>6, MintPaysOut
  <2>8. /\ MintedIn(prophecies', d) = MintedIn(prophecies, d) + c.amount
        /\ \A e \in Denoms \ {d} : MintedIn(prophecies', e) = MintedIn(prophecies, e)
    <3>1. PICK r : r = prophecies
      BY Zenon
    <3>2. PICK q : q = prophecies'
      BY Zenon
    <3>3. Succeeds(r, q, id)
      BY Zenon, <1>5, <1>6, <1>10, <3>1, <3>2 DEF Succeeds
    <3>4. d \in Denoms /\ d = MintDenom(q[id].finalClaim) /\ c = q[id].finalClaim
      BY Zenon, <2>1, <2>3, <2>4, <3>2
    <3>5. /\ MintedIn(q, d) = MintedIn(r, d) + q[id].finalClaim.amount
          /\ \A e \in Denoms \ {d} : MintedIn(q, e) = MintedIn(r, e)
      BY SMTT(30), <3>3, <3>4, SuccessMints
    <3> QED BY Zenon, <3>1, <3>2, <3>4, <3>5
  <2>9. BridgeTypeOK' /\ ModuleHoldsOnlyFees'
    BY Zenon, <1>1, <1>7, <2>4, <2>6, <2>7
    DEF BridgeTypeOK, ModuleHoldsOnlyFees, MintEffect, Balances
  <2>10. SupplyAccounted'
    <3>1. SupplyIn(balances, d) + DestroyedIn(events, d)
            = SupplyIn(InitialBalances, d) + MintedIn(prophecies, d)
      BY Zenon, <1>1, <2>4 DEF SupplyAccounted
    <3>2. /\ SupplyIn(balances, d) \in Nat /\ SupplyIn(InitialBalances, d) \in Nat
          /\ MintedIn(prophecies, d) \in Nat
      BY Zenon, <1>6, <1>8, <2>4, SupplyType, MintedType, EthBridgeAssumption DEF Balances
    <3>3. DestroyedIn(events, d) \in Nat
      BY Zenon, <1>1, <2>4, DestroyedType DEF BridgeTypeOK
    <3>4. SupplyIn(balances', d) + DestroyedIn(events, d)
            = SupplyIn(InitialBalances, d) + MintedIn(prophecies', d)
      BY <2>4, <2>7, <2>8, <3>1, <3>2, <3>3 DEF MintEffect
    <3> QED BY Zenon, <1>1, <1>7, <2>7, <2>8, <3>4 DEF SupplyAccounted, MintEffect
  <2> QED BY Zenon, <1>3, <2>9, <2>10 DEF BridgeInv
<1> QED BY Zenon, <1>9, <1>10

\* The ledger that the invariant is about, for balances and events in the middle
\* of a transaction.
Ledger(b, evs) ==
  /\ b \in Balances
  /\ evs \in Seq(Events)
  /\ \A d \in Denoms \ {Ceth} : b[Module][d] = 0
  /\ \A d \in Denoms : SupplyIn(b, d) + DestroyedIn(evs, d)
                         = SupplyIn(InitialBalances, d) + MintedIn(prophecies, d)

\* A message that is accepted keeps the ledger: the coins of the event it emits
\* are the ones it destroys.
LEMMA MessageKeepsLedger ==
  ASSUME NEW b, NEW evs, Ledger(b, evs), NEW sender \in Accounts, NEW m \in Messages,
         NEW seq \in Nat, cethReceiver \in Accounts \cup {NoAccount},
         MessageOK(b, sender, m)
  PROVE  Ledger(ProcessMessage(b, sender, m), Append(evs, EventOf(sender, seq, m)))
<1>1. b \in Balances /\ evs \in Seq(Events)
  BY Zenon DEF Ledger
<1>2. PICK c : c = ProcessMessage(b, sender, m)
  BY Zenon
<1>3. MessageEffect(b, c, m)
  BY Zenon, <1>1, <1>2, MessageDestroys
<1>4. PICK x : x = EventOf(sender, seq, m)
  BY Zenon
<1>5. x \in Events /\ x.denom = m.denom /\ x.amount = m.amount
  BY Zenon, <1>4 DEF EventOf, Events, Messages
<1>6. PICK q : q = Append(evs, x)
  BY Zenon
<1>7. /\ q \in Seq(Events)
      /\ DestroyedIn(evs, m.denom) \in Nat
      /\ DestroyedIn(q, m.denom) = DestroyedIn(evs, m.denom) + m.amount
      /\ \A e \in Denoms \ {m.denom} : DestroyedIn(q, e) = DestroyedIn(evs, e)
  <2>1. /\ Append(evs, x) \in Seq(Events)
        /\ DestroyedIn(evs, x.denom) \in Nat
        /\ DestroyedIn(Append(evs, x), x.denom) = DestroyedIn(evs, x.denom) + x.amount
        /\ \A e \in Denoms \ {x.denom} : DestroyedIn(Append(evs, x), e) = DestroyedIn(evs, e)
    <3>1. evs \in Seq(Events) /\ x \in Events
      BY Zenon, <1>1, <1>5
    <3> QED BY Zenon, <3>1, EventDestroys
  <2>2. /\ q \in Seq(Events)
        /\ DestroyedIn(evs, x.denom) \in Nat
        /\ DestroyedIn(q, x.denom) = DestroyedIn(evs, x.denom) + x.amount
        /\ \A e \in Denoms \ {x.denom} : DestroyedIn(q, e) = DestroyedIn(evs, e)
    BY Zenon, <1>6, <2>1
  <2> QED BY Zenon, <1>5, <2>2
<1>8. m.denom \in Denoms /\ m.amount \in Nat
  BY Zenon, EthBridgeAssumption DEF Messages
<1>9. SupplyIn(b, m.denom) \in Nat
  BY Zenon, <1>1, <1>8, SupplyType
<1>10. SupplyIn(c, m.denom) + DestroyedIn(q, m.denom)
         = SupplyIn(b, m.denom) + DestroyedIn(evs, m.denom)
  <2>1. SupplyIn(c, m.denom) = SupplyIn(b, m.denom) - m.amount
    BY Zenon, <1>3 DEF MessageEffect
  <2>2. DestroyedIn(q, m.denom) = DestroyedIn(evs, m.denom) + m.amount
    BY Zenon, <1>7
  <2>3. DestroyedIn(evs, m.denom) \in Nat
    BY Zenon, <1>7
  <2>4. m.amount \in Nat
    BY Zenon, <1>8
  <2> QED BY <1>9, <2>1, <2>2, <2>3, <2>4
<1>11. \A d \in Denoms : SupplyIn(c, d) + DestroyedIn(q, d)
                           = SupplyIn(b, d) + DestroyedIn(evs, d)
  BY Zenon, <1>3, <1>7, <1>10 DEF MessageEffect
<1>12. Ledger(c, q)
  BY Zenon, <1>3, <1>7, <1>11 DEF Ledger, MessageEffect
<1> QED BY Zenon, <1>2, <1>4, <1>6, <1>12

\* A transaction whose messages keep the ledger keeps the invariant.
LEMMA LedgerIsInv ==
  ASSUME BridgeInv, Ledger(balances', events'), NEW sender \in Accounts,
         NextSequence(sender), UNCHANGED <<oracleVars, peggyTokens, cethReceiver, blacklist>>
  PROVE  BridgeInv'
<1>1. OracleTypeOK'
  BY Zenon, StepKeepsType DEF BridgeInv
<1>2. BridgeTypeOK'
  <2>1. sequence' \in [Accounts -> 0 .. MaxSequence]
    BY SMTT(30), EthBridgeAssumption DEF BridgeInv, BridgeTypeOK, NextSequence
  <2> QED BY Zenon, <2>1 DEF BridgeInv, BridgeTypeOK, Ledger, Balances
<1>3. ModuleHoldsOnlyFees' /\ SupplyAccounted'
  BY Zenon DEF Ledger, ModuleHoldsOnlyFees, SupplyAccounted, oracleVars
<1> QED BY Zenon, <1>1, <1>2, <1>3 DEF BridgeInv

\* Every step keeps the invariant.
LEMMA BridgeStepInv ==
  ASSUME BridgeInv, [Next]_vars
  PROVE  BridgeInv'
<1>1. /\ OracleTypeOK /\ BridgeTypeOK /\ ModuleHoldsOnlyFees /\ SupplyAccounted
      /\ cethReceiver \in Accounts \cup {NoAccount}
      /\ \A a \in Accounts : sequence[a] + 1 \in Nat
  BY SMTT(30), EthBridgeAssumption DEF BridgeInv, BridgeTypeOK
<1>2. Ledger(balances, events)
  BY Zenon, <1>1 DEF Ledger, BridgeTypeOK, ModuleHoldsOnlyFees, SupplyAccounted, Balances
<1>3. CASE Claims
  BY Zenon, <1>3, OracleIDAssumption, ClaimKeepsInv DEF Claims
<1>4. ASSUME NEW sender \in Accounts, NEW m \in Messages, LockOrBurn(sender, m)
      PROVE  BridgeInv'
  <2>1. Ledger(balances', events')
    BY Zenon, <1>1, <1>2, <1>4, MessageKeepsLedger DEF LockOrBurn
  <2> QED BY Zenon, <1>4, <2>1, LedgerIsInv DEF LockOrBurn
<1>5. ASSUME NEW sender \in Accounts, NEW m \in Messages, NEW n \in Messages,
             LockOrBurnTwice(sender, m, n)
      PROVE  BridgeInv'
  <2>1. PICK b : b = ProcessMessage(balances, sender, m)
    BY Zenon
  <2>2. PICK q : q = Append(events, EventOf(sender, sequence[sender] + 1, m))
    BY Zenon
  <2>3. /\ NextSequence(sender)
        /\ MessageOK(balances, sender, m)
        /\ MessageOK(b, sender, n)
        /\ balances' = ProcessMessage(b, sender, n)
        /\ events' = Append(q, EventOf(sender, sequence[sender] + 1, n))
        /\ UNCHANGED <<oracleVars, peggyTokens, cethReceiver, blacklist>>
    BY Zenon, <1>5, <2>1, <2>2 DEF LockOrBurnTwice
  <2>4. Ledger(b, q)
    BY Zenon, <1>1, <1>2, <2>1, <2>2, <2>3, MessageKeepsLedger
  <2>5. Ledger(balances', events')
    BY Zenon, <1>1, <2>3, <2>4, MessageKeepsLedger
  <2> QED BY Zenon, <2>3, <2>5, LedgerIsInv
<1>6. ASSUME NEW sender \in Accounts, OtherTransaction(sender)
      PROVE  BridgeInv'
  BY Zenon, <1>2, <1>6, LedgerIsInv DEF OtherTransaction
<1>7. CASE Administration
  <2>1. PICK sender \in Accounts :
          \/ \E v \in Validators, operation \in {"add", "remove"} :
               UpdateWhiteListValidator(sender, v, operation)
          \/ \E account \in Accounts : UpdateCethReceiverAccount(sender, account)
          \/ \E receiver \in Holders, n \in Amounts : RescueCeth(sender, receiver, n)
          \/ \E addresses \in SUBSET EthAddresses : SetBlacklist(sender, addresses)
    BY Zenon, <1>7 DEF Administration
  <2>2. ASSUME NEW v \in Validators, NEW operation \in {"add", "remove"},
               UpdateWhiteListValidator(sender, v, operation)
        PROVE  BridgeInv'
    <3>1. OracleTypeOK' /\ UNCHANGED <<bridgeVars, prophecies>>
      BY Zenon, <1>1, <2>2, StepKeepsType
      DEF OracleNext, Whitelisting, UpdateWhiteListValidator, ProcessUpdateWhiteListValidator
    <3> QED BY Zenon, <1>1, <3>1
        DEF BridgeInv, BridgeTypeOK, ModuleHoldsOnlyFees, SupplyAccounted, bridgeVars
  <2>3. ASSUME NEW account \in Accounts, UpdateCethReceiverAccount(sender, account)
        PROVE  BridgeInv'
    <3>1. OracleTypeOK'
      BY Zenon, <1>1, <2>3, StepKeepsType DEF UpdateCethReceiverAccount
    <3> QED BY Zenon, <1>1, <2>3, <3>1
        DEF BridgeInv, BridgeTypeOK, ModuleHoldsOnlyFees, SupplyAccounted,
            UpdateCethReceiverAccount, oracleVars
  <2>4. ASSUME NEW receiver \in Holders, NEW n \in Amounts, RescueCeth(sender, receiver, n)
        PROVE  BridgeInv'
    <3>1. OracleTypeOK'
      BY Zenon, <1>1, <2>4, StepKeepsType DEF RescueCeth
    <3>2. /\ Module \in Holders /\ receiver # Module /\ Ceth \in Denoms /\ n \in Nat
          /\ balances \in Balances /\ balances[Module][Ceth] >= n
      BY Zenon, <1>2, <2>4, EthBridgeAssumption DEF Holders, RescueCeth, Ledger
    <3>3. PICK s : s = Send(balances, Module, receiver, Ceth, n)
      BY Zenon
    <3>4. PICK c \in Balances : /\ Changed(balances, c, Module, Ceth, 0 - n)
                                /\ Changed(c, s, receiver, Ceth, n)
                                /\ \A e \in Denoms : SupplyIn(s, e) = SupplyIn(balances, e)
      <4>1. Sent(balances, s, Module, receiver, Ceth, n)
        BY Zenon, <3>2, <3>3, SendKeepsSupply
      <4> QED BY Zenon, <4>1 DEF Sent
    <3>5. /\ balances' = s
          /\ UNCHANGED <<oracleVars, peggyTokens, cethReceiver, blacklist, sequence, events>>
      BY Zenon, <2>4, <3>3 DEF RescueCeth
    <3>6. s \in Balances /\ s[Module] = c[Module]
      BY Zenon, <3>2, <3>4 DEF Changed
    <3>7. \A e \in Denoms \ {Ceth} : s[Module][e] = balances[Module][e]
      BY Zenon, <3>4, <3>6 DEF Changed
    <3>8. BridgeTypeOK'
      BY Zenon, <1>1, <3>5, <3>6 DEF BridgeTypeOK, Balances
    <3>9. ModuleHoldsOnlyFees'
      BY Zenon, <1>1, <3>5, <3>7 DEF ModuleHoldsOnlyFees
    <3>10. SupplyAccounted'
      BY Zenon, <1>1, <3>4, <3>5 DEF SupplyAccounted, oracleVars
    <3> QED BY Zenon, <3>1, <3>8, <3>9, <3>10 DEF BridgeInv
  <2>5. ASSUME NEW addresses \in SUBSET EthAddresses, SetBlacklist(sender, addresses)
        PROVE  BridgeInv'
    <3>1. OracleTypeOK'
      BY Zenon, <1>1, <2>5, StepKeepsType DEF SetBlacklist
    <3> QED BY Zenon, <1>1, <2>5, <3>1
        DEF BridgeInv, BridgeTypeOK, ModuleHoldsOnlyFees, SupplyAccounted, SetBlacklist, oracleVars
  <2> QED BY Zenon, <2>1, <2>2, <2>3, <2>4, <2>5
<1>8. CASE Restart
  <2>1. OracleTypeOK'
    BY Zenon, <1>1, <1>8, StepKeepsType DEF Restart
  <2> QED BY Zenon, <1>1, <1>8, <2>1
      DEF BridgeInv, BridgeTypeOK, ModuleHoldsOnlyFees, SupplyAccounted, Restart, oracleVars
<1>9. CASE BridgeStaking
  <2>1. OracleTypeOK' /\ UNCHANGED <<bridgeVars, prophecies>>
    BY Zenon, <1>1, <1>9, StepKeepsType DEF BridgeStaking, OracleNext, Staking, StakingUpdate
  <2> QED BY Zenon, <1>1, <2>1
      DEF BridgeInv, BridgeTypeOK, ModuleHoldsOnlyFees, SupplyAccounted, bridgeVars
<1>10. CASE UNCHANGED vars
  <2>1. OracleTypeOK' /\ UNCHANGED <<bridgeVars, prophecies>>
    BY Zenon, <1>1, <1>10, StepKeepsType DEF vars, oracleVars
  <2> QED BY Zenon, <1>1, <2>1
      DEF BridgeInv, BridgeTypeOK, ModuleHoldsOnlyFees, SupplyAccounted, bridgeVars
<1> QED BY Zenon, <1>3, <1>4, <1>5, <1>6, <1>7, <1>8, <1>9, <1>10 DEF Next

\* The invariant holds in every state of the bridge.
LEMMA BridgeInvariant == Spec => []BridgeInv
<1>1. Init => BridgeInv
  BY Zenon, BridgeInitInv
<1>2. BridgeInv /\ [Next]_vars => BridgeInv'
  BY Zenon, BridgeStepInv
<1> QED BY <1>1, <1>2, PTL DEF Spec

\* No message, mint, fee or rescue drives a balance below zero, for any number of
\* accounts and denominations and any amounts (the checks of ProcessLock,
\* ProcessBurn and ProcessRescueCeth).
THEOREM BridgeTypeCorrect == Spec => []BridgeTypeOK
<1>1. BridgeInv => BridgeTypeOK
  BY Zenon DEF BridgeInv
<1> QED BY <1>1, BridgeInvariant, PTL

\* Every coin is accounted for: the supply of a denomination is the one at genesis
\* plus the successful prophecies minus the lock and burn events, for every history
\* of votes, staking changes, whitelist updates and multi-message transactions.
THEOREM SupplyIsAccounted == Spec => []SupplyAccounted
<1>1. BridgeInv => SupplyAccounted
  BY Zenon DEF BridgeInv
<1> QED BY <1>1, BridgeInvariant, PTL

\* The module's account never keeps locked, burned or minted coins.
THEOREM ModuleKeepsOnlyFees == Spec => []ModuleHoldsOnlyFees
<1>1. BridgeInv => ModuleHoldsOnlyFees
  BY Zenon DEF BridgeInv
<1> QED BY <1>1, BridgeInvariant, PTL
=============================================================================
