------------------------------- MODULE Oracle -------------------------------
(***************************************************************************)
(* The oracle module of the chain (x/oracle).  Whitelisted validators vote *)
(* on prophecies; the votes are weighed by the staking power that the      *)
(* validators have when a vote is processed.  The first content that holds *)
(* ConsensusNum/ConsensusDen of the whitelisted power becomes the final    *)
(* claim; a prophecy that can no longer get there fails.                   *)
(***************************************************************************)
EXTENDS Weights

CONSTANTS
  Validators,     \* validators of the staking module
  Ids,            \* identifiers of prophecies, all different from ""
  Contents,       \* the non-empty contents a validator may claim
  NoClaim,        \* the empty string: no vote, no final claim
  Accounts,       \* accounts that send whitelist updates
  Admin,          \* the admin account, set at genesis
  MaxPower,       \* bound on the power of one validator
  ConsensusNum,   \* consensusNeeded, 0.7 by default, as a fraction
  ConsensusDen

\* NewKeeper panics when consensusNeeded <= 0 or consensusNeeded > 1.
ASSUME ConsensusNeededAssumption ==
  /\ ConsensusNum \in Nat \ {0}
  /\ ConsensusDen \in Nat \ {0}
  /\ ConsensusNum <= ConsensusDen

ASSUME OracleAssumption ==
  /\ IsFiniteSet(Validators)
  /\ NoClaim \notin Contents
  /\ MaxPower \in Nat

VARIABLES
  whitelist,   \* validators whose votes are accepted
  bonded,      \* validators whose staking status is bonded
  power,       \* their consensus power in the power index, 0 while jailed
  prophecies   \* what is stored for each identifier

oracleVars == <<whitelist, bonded, power, prophecies>>

Statuses == {"pending", "success", "failed"}

Prophecy == [status : Statuses,
             finalClaim : Contents \cup {NoClaim},
             claims : [Validators -> Contents \cup {NoClaim}]]

\* GetProphecy returns this for an identifier that nothing is stored under.
NewProphecy == [status |-> "pending",
                finalClaim |-> NoClaim,
                claims |-> [v \in Validators |-> NoClaim]]

----------------------------------------------------------------------------
(* Counting the votes.                                                      *)

TotalPower == Weight(whitelist \cap bonded, power)

\* The votes of a validator that left the whitelist still count.
ClaimPower(claims, c) == Weight({v \in bonded : claims[v] = c}, power)

TotalClaimsPower(claims) == Weight({v \in bonded : claims[v] # NoClaim}, power)

ClaimsMade(claims) == {claims[v] : v \in Validators} \ {NoClaim}

\* Every content that FindHighestClaim can return: its loop keeps the first
\* of the contents with the most power in the iteration order of a Go map.
HighestClaims(claims) ==
  {c \in ClaimsMade(claims) :
     \A d \in ClaimsMade(claims) : ClaimPower(claims, d) <= ClaimPower(claims, c)}

\* Mutant: the threshold is what may be missing instead of what is needed.
RatioAtLeastNeeded_Complement(x, t) ==
  IF t = 0 THEN x > 0 ELSE x * ConsensusDen >= (ConsensusDen - ConsensusNum) * t

\* The float comparisons x/t >= consensusNeeded and x/t < consensusNeeded.
\* Dividing by zero gives an infinity with the sign of x, or NaN for x = 0,
\* which compares false both ways.  Powers are below 2^50, where the rounded
\* quotient compares as the exact one does.
RatioAtLeastNeeded(x, t) ==
  IF t = 0 THEN x > 0 ELSE x * ConsensusDen >= ConsensusNum * t

RatioBelowNeeded(x, t) ==
  IF t = 0 THEN x < 0 ELSE x * ConsensusDen < ConsensusNum * t

\* Mutant: the ratio is taken of the power that voted.
processCompletion_OfVotes(p, highestClaim) ==
  IF RatioAtLeastNeeded(ClaimPower(p.claims, highestClaim), TotalClaimsPower(p.claims))
    THEN [p EXCEPT !.status = "success", !.finalClaim = highestClaim]
    ELSE p

\* Mutant: the remaining power is not added to the highest claim's.
processCompletion_RemainingOnly(p, highestClaim) ==
  IF RatioAtLeastNeeded(ClaimPower(p.claims, highestClaim), TotalPower)
    THEN [p EXCEPT !.status = "success", !.finalClaim = highestClaim]
    ELSE IF RatioBelowNeeded(TotalPower - TotalClaimsPower(p.claims), TotalPower)
           THEN [p EXCEPT !.status = "failed"]
           ELSE p

processCompletion(p, highestClaim) ==
  LET highest  == ClaimPower(p.claims, highestClaim)
      possible == highest + TotalPower - TotalClaimsPower(p.claims)
  IN  CASE RatioAtLeastNeeded(highest, TotalPower) ->
             [p EXCEPT !.status = "success", !.finalClaim = highestClaim]
        [] /\ ~RatioAtLeastNeeded(highest, TotalPower)
           /\ RatioBelowNeeded(possible, TotalPower) ->
             [p EXCEPT !.status = "failed"]
        [] OTHER -> p

AddClaim(p, v, content) == [p EXCEPT !.claims[v] = content]

----------------------------------------------------------------------------
(* The operations.                                                          *)

\* Mutant: a finalized prophecy takes further votes.
CanClaim_Finalized(v, id, content) ==
  /\ v \in whitelist
  /\ v \in bonded
  /\ content # NoClaim
  /\ prophecies[id].claims[v] = NoClaim

CanClaim(v, id, content) ==
  /\ v \in whitelist
  /\ v \in bonded
  /\ content # NoClaim
  /\ prophecies[id].status = "pending"
  /\ prophecies[id].claims[v] = NoClaim

\* A claim that fails one of the checks returns an error and changes nothing.
ProcessClaim(v, id, content) ==
  /\ CanClaim(v, id, content)
  /\ LET p == AddClaim(prophecies[id], v, content)
     IN  \E h \in HighestClaims(p.claims) :
           prophecies' = [prophecies EXCEPT ![id] = processCompletion(p, h)]
  /\ UNCHANGED <<whitelist, bonded, power>>

AddOracleWhiteList(v) == whitelist' = whitelist \cup {v}

RemoveOracleWhiteList(v) == whitelist' = whitelist \ {v}

ProcessUpdateWhiteListValidator(sender, v, operation) ==
  /\ sender = Admin
  /\ \/ operation = "add" /\ AddOracleWhiteList(v)
     \/ operation = "remove" /\ RemoveOracleWhiteList(v)
  /\ UNCHANGED <<bonded, power, prophecies>>

\* Delegations, slashing and the end of a block change a validator's power
\* and whether it is bonded.  Its power may be 0 before the block ends.
StakingUpdate(v, isBonded, p) ==
  /\ bonded' = IF isBonded THEN bonded \cup {v} ELSE bonded \ {v}
  /\ power' = [power EXCEPT ![v] = p]
  /\ UNCHANGED <<whitelist, prophecies>>

OracleInit ==
  /\ whitelist \in SUBSET Validators
  /\ bonded \in SUBSET Validators
  /\ power \in [Validators -> 0 .. MaxPower]
  /\ prophecies = [id \in Ids |-> NewProphecy]

Vote == \E v \in Validators, id \in Ids, content \in Contents \cup {NoClaim} :
          ProcessClaim(v, id, content)

Staking == \E v \in Validators, isBonded \in BOOLEAN, p \in 0 .. MaxPower :
             StakingUpdate(v, isBonded, p)

Whitelisting ==
  \E sender \in Accounts, v \in Validators, operation \in {"add", "remove"} :
    ProcessUpdateWhiteListValidator(sender, v, operation)

OracleNext == Vote \/ Staking \/ Whitelisting

OracleSpec == OracleInit /\ [][OracleNext]_oracleVars

----------------------------------------------------------------------------
(* What the oracle promises.                                                *)

\* The stored prophecies are well formed: a prophecy has a final claim exactly
\* when it succeeded, so the mint that follows a success (processCompletion,
\* then ProcessSuccessfulClaim) never decodes an empty claim.
OracleTypeOK ==
  /\ whitelist \subseteq Validators
  /\ bonded \subseteq Validators
  /\ power \in [Validators -> 0 .. MaxPower]
  /\ prophecies \in [Ids -> Prophecy]
  /\ \A id \in Ids : prophecies[id].status = "success"
                       <=> prophecies[id].finalClaim # NoClaim

DecisionAndVotesKept(p, q) ==
  /\ p.status # "pending" => q = p
  /\ \A v \in Validators : p.claims[v] # NoClaim => q.claims[v] = p.claims[v]

\* A decision is never revised and a vote never replaced, whatever the admin
\* and the staking module do in between (the checks of ProcessClaim for
\* ErrProphecyFinalized and ErrDuplicateMessage).
DecisionsAndVotesKept ==
  [][\A id \in Ids : DecisionAndVotesKept(prophecies[id], prophecies'[id])]_oracleVars

OutcomeIndependent(p) ==
  \A h, g \in HighestClaims(p.claims) : processCompletion(p, h) = processCompletion(p, g)

\* The votes that FindHighestClaim counts are of whitelisted validators.
VotersListed(claims) == \A v \in bonded : claims[v] # NoClaim => v \in whitelist

\* As long as nobody whose vote counts was removed from the whitelist, all nodes
\* compute the same result of a vote, whatever order FindHighestClaim iterates in
\* and however powers changed since the votes were cast.
ListedOutcomeUnique ==
  \A id \in Ids, v \in Validators, content \in Contents :
    CanClaim(v, id, content) /\ VotersListed(prophecies[id].claims)
      => OutcomeIndependent(AddClaim(prophecies[id], v, content))

\* A prophecy succeeds only in a step in which bonded validators that are
\* whitelisted hold the needed share of the power for its final claim, the
\* votes they cast in earlier steps and under other powers included, unless a
\* vote counts whose validator was removed from the whitelist.
SuccessBacked ==
  [][\A id \in Ids :
       /\ prophecies[id].status = "pending"
       /\ prophecies'[id].status = "success"
       /\ VotersListed(prophecies'[id].claims)
       => LET q == prophecies'[id]
          IN  Weight({v \in whitelist \cap bonded : q.claims[v] = q.finalClaim}, power)
                * ConsensusDen >= ConsensusNum * TotalPower
    ]_oracleVars

\* The votes that can follow the given ones while whitelist and bonding stay.
Continuations(claims) ==
  {q \in [Validators -> Contents \cup {NoClaim}] :
     \A v \in Validators :
       \/ q[v] = claims[v]
       \/ claims[v] = NoClaim /\ v \in whitelist \cap bonded}

CanSucceed(claims) ==
  \E q \in Continuations(claims), c \in Contents :
    RatioAtLeastNeeded(ClaimPower(q, c), TotalPower)

ExactlyDecided(p) ==
  /\ p.status = "failed" <=> ~CanSucceed(p.claims)
  /\ p.status = "success"
       <=> \E c \in Contents : RatioAtLeastNeeded(ClaimPower(p.claims, c), TotalPower)

\* Every vote leaves its prophecy exactly decided for the powers of the moment: it
\* fails when, and not before, no votes that may follow can make it succeed, and
\* succeeds as soon as one content has the needed power (the two ratios of
\* processCompletion).  So the last vote that is possible always decides.
DecidedExactly ==
  [][\A id \in Ids :
       /\ prophecies'[id] # prophecies[id]
       /\ VotersListed(prophecies'[id].claims)
       /\ TotalPower > 0
       => ExactlyDecided(prophecies'[id])
    ]_oracleVars
=============================================================================
