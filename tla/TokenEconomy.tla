---- MODULE TokenEconomy -----------------------------------------------------
(****************************************************************************)
(* The token functions of amos-core: a day of emission, the fee pool, the   *)
(* decay of a stake, and trust levels.  These share no state; each has its  *)
(* own section.                                                             *)
(****************************************************************************)
EXTENDS Naturals, FiniteSets, FiniteSetsExt, Integers, Sequences

(****************************************************************************)
(* One day of the work-token economy: points are entered, bounties are      *)
(* awarded out of the day's emission, and at any moment the points so far   *)
(* divide an emission among the contributors.                               *)
(****************************************************************************)
CONSTANTS Contributors, Emission, MaxRaw, BountyValues, U64, MaxEntries

VARIABLES totalPoints, pointsToday, distributed, awards, entered

dayVars == <<totalPoints, pointsToday, distributed, awards, entered>>

BPS == 10000
ReviewerBps == 500
Saturated(n) == IF n > U64 THEN U64 ELSE n
Overflows(n) == n > U64

\* What an activity is worth; a bounty is worth its value.
FixedPoints == {1, 5, 10, 2}
PointsOfActivities == FixedPoints \cup BountyValues

\* Bug fixes, features and design, documents, content, support, tests and
\* infrastructure.
Multipliers == {12000, 10000, 8000, 9000, 7000, 11000, 13000}

TokenDayInit ==
  /\ totalPoints = [c \in Contributors |-> 0]
  /\ pointsToday = 0
  /\ distributed = 0
  /\ awards = 0
  /\ entered = 0

AddEntry(c, n) ==
  /\ entered < MaxEntries
  /\ entered' = entered + 1
  /\ totalPoints' = [totalPoints EXCEPT ![c] = Saturated(@ + n)]
  /\ UNCHANGED <<pointsToday, distributed, awards>>

Adjusted(raw, multiplier) == (raw * multiplier) \div BPS

TokensOfWhole(adjusted) ==
  LET total == pointsToday + adjusted IN
    IF total > 0 THEN (adjusted * Emission) \div total ELSE 0

\* The day's points include those of this bounty, and only what is left of the
\* emission is shared.
TokensFor(adjusted) ==
  LET total == pointsToday + adjusted
      remaining == IF distributed > Emission THEN 0 ELSE Emission - distributed IN
    IF total > 0 THEN (adjusted * remaining) \div total ELSE 0

\* Tokens of contributor and reviewer together.
CalculateBountyAward(raw, multiplier) ==
  /\ raw \in 1..MaxRaw
  /\ LET adjusted == Adjusted(raw, multiplier)
         tokens == TokensFor(adjusted)
         reviewer == (tokens * ReviewerBps) \div BPS IN
       /\ pointsToday' = pointsToday + adjusted
       /\ distributed' = distributed + reviewer + (tokens - reviewer)
  /\ awards' = awards + 1
  /\ UNCHANGED <<totalPoints, entered>>

TokenDayNext ==
  \/ \E c \in Contributors, n \in PointsOfActivities : AddEntry(c, n)
  \/ awards < 2 /\ \E raw \in 0..MaxRaw, m \in Multipliers : CalculateBountyAward(raw, m)

TokenDayTypeOK ==
  /\ totalPoints \in [Contributors -> 0..U64]
  /\ pointsToday \in Nat /\ distributed \in Nat /\ awards \in 0..2
  /\ entered \in 0..MaxEntries

----------------------------------------------------------------------------
\* The snapshot leaves out contributors without points.
Entries == {c \in Contributors : totalPoints[c] > 0}
SnapshotTotal ==
  Saturated(FoldSet(LAMBDA c, sum : sum + totalPoints[c], 0, Entries))

TokenReward(n, total) == (n * Emission) \div total

DailyRewards == [c \in Entries |-> TokenReward(totalPoints[c], SnapshotTotal)]
RewardsFail == SnapshotTotal = 0 \/ \E c \in Entries : Overflows(totalPoints[c] * Emission)

\* The rewards of a day never exceed its emission, and what rounding keeps back
\* is less than a token for each contributor, as long as the sum of the points
\* did not saturate.
RewardsWithinEmission ==
  RewardsFail \/ SnapshotTotal = U64 \/
    LET paid == FoldSet(LAMBDA c, sum : sum + DailyRewards[c], 0, Entries) IN
      paid <= Emission /\ Emission - paid < Cardinality(Entries)

\* However the awards of a day fall, they never exceed its emission.
PoolNeverOverspent == distributed <= Emission

(****************************************************************************)
(* Protocol fees: a fee is divided among holders, burning and the company,  *)
(* and holders claim their shares of the pool of a period.                  *)
(****************************************************************************)
CONSTANTS Holders, Fees, Stakes, MaxFees

VARIABLES collected, holderPool, feesBurned, labs, stakes, payouts, claimed

feeVars == <<collected, holderPool, feesBurned, labs, stakes, payouts, claimed>>

HolderBps == 5000
BurnBps == 4000
MinStake == 100

FeePoolInit ==
  /\ collected = <<0, 0>>
  /\ holderPool = 0 /\ feesBurned = 0 /\ labs = 0
  /\ stakes = [h \in Holders |-> 0]
  /\ payouts = [h \in Holders |-> 0]
  /\ claimed = FALSE

Share(amount, bps) == (amount * bps) \div BPS

\* The company gets what rounding leaves.
SplitProtocolFee(amount) ==
  /\ amount > 0
  /\ collected[1] < MaxFees
  /\ ~claimed
  /\ LET holders == Share(amount, HolderBps)
         burn == Share(amount, BurnBps) IN
       /\ holderPool' = holderPool + holders
       /\ feesBurned' = feesBurned + burn
       /\ labs' = labs + (amount - holders - burn)
  /\ collected' = <<collected[1] + 1, collected[2] + amount>>
  /\ UNCHANGED <<stakes, payouts, claimed>>

SetStake(h, n) ==
  /\ ~claimed
  /\ stakes[h] = 0
  /\ stakes' = [stakes EXCEPT ![h] = n]
  /\ UNCHANGED <<collected, holderPool, feesBurned, labs, payouts, claimed>>

EligibleStake ==
  FoldSet(LAMBDA h, sum : sum + stakes[h], 0, {h \in Holders : stakes[h] >= MinStake})

HolderShare(h) ==
  LET shareBps == (stakes[h] * BPS) \div EligibleStake IN (holderPool * shareBps) \div BPS

\* Every claim of the period is computed on the same pool and the same stakes.
CalculateHolderClaim(h) ==
  /\ EligibleStake > 0
  /\ stakes[h] >= MinStake
  /\ payouts[h] = 0
  /\ payouts' = [payouts EXCEPT ![h] = HolderShare(h)]
  /\ claimed' = TRUE
  /\ UNCHANGED <<collected, holderPool, feesBurned, labs, stakes>>

FeePoolNext ==
  \/ \E n \in Fees : SplitProtocolFee(n)
  \/ \E h \in Holders : CalculateHolderClaim(h) \/ \E n \in Stakes : SetStake(h, n)

FeePoolTypeOK ==
  /\ collected \in (0..MaxFees) \X Nat
  /\ holderPool \in Nat /\ feesBurned \in Nat /\ labs \in Nat
  /\ stakes \in [Holders -> Stakes \cup {0}]
  /\ payouts \in [Holders -> Nat] /\ claimed \in BOOLEAN

----------------------------------------------------------------------------
\* No fee is lost or made in the split, whatever rounding does to its parts.
FeesAddUp == holderPool + feesBurned + labs = collected[2]

\* All claims of a period together never exceed the pool.
ClaimsWithinPool ==
  FoldSet(LAMBDA h, sum : sum + payouts[h], 0, Holders) <= holderPool

(****************************************************************************)
(* The decay of one stake, day by day: no decay in the first year, a rate   *)
(* that follows the platform's profit, the tenure and the vault, and a      *)
(* floor that rises with the tenure.  Held is what is left of the original  *)
(* stake; days on which nothing is special are skipped.                     *)
(****************************************************************************)
CONSTANTS Original, Held, Revenues, Costs, Tiers, Tenures

VARIABLES balance, tenure, burned, recycled

decayVars == <<balance, tenure, burned, recycled>>

GracePeriod == 365
At(n, least, most) == IF n < least THEN least ELSE IF n > most THEN most ELSE n

Economies == [revenue : Revenues, costs : Costs]

\* Without costs the default applies.  Quotients are rounded
\* toward zero.
Quotient(a, b) == IF a < 0 THEN -((-a) \div b) ELSE a \div b

CalculateDynamicDecayRate(e) ==
  IF e.costs = 0 THEN 500
  ELSE LET ratio == Quotient((e.revenue - e.costs) * BPS, e.costs) IN
         At(1000 - Quotient(ratio * 500, BPS), 200, 2500)

\* The yearly rates up to which one, two, ... basis points a day suffice.
DailySteps == <<358, 704, 1037, 1358, 1668, 1967, 2255, 2533>>
AnnualToDailyRate(annual) ==
  CHOOSE d \in DOMAIN DailySteps :
    annual <= DailySteps[d] /\ \A k \in 1..(d - 1) : annual > DailySteps[k]

Years == tenure \div 365
TenureFloor == CASE Years = 0 -> 500 [] Years = 1 -> 1000 [] Years \in 2..4 -> 1500 [] OTHER -> 2500
TenureReduction == CASE Years = 0 -> 0 [] Years = 1 -> 2000 [] Years \in 2..4 -> 4000 [] OTHER -> 7000
VaultReduction(tier) ==
  CASE tier = "none" -> 0 [] tier = "bronze" -> 2000 [] tier = "silver" -> 5000
    [] tier = "gold" -> 8000 [] OTHER -> 9500

EffectiveAnnualRate(base, tier) ==
  LET afterTenure == (base * (BPS - TenureReduction)) \div BPS
      afterVault == (afterTenure * (BPS - VaultReduction(tier))) \div BPS IN
    At(afterVault, 200, BPS)

StakeDecayInit ==
  /\ balance = Held
  /\ tenure = 0
  /\ burned = 0 /\ recycled = 0

\* The next day that matters.
DaysPass ==
  /\ \E t \in Tenures : t > tenure /\ tenure' = t
  /\ UNCHANGED <<balance, burned, recycled>>

Floor == (Original * TenureFloor) \div BPS
Larger(m, n) == IF m > n THEN m ELSE n

\* At least one token, and never below the floor.
DailyDecay(rate) ==
  Larger(balance - Larger((balance * rate) \div BPS, 1), Floor)

ApplyDailyDecay(e, tier) ==
  /\ tenure >= GracePeriod
  /\ balance > Floor
  /\ LET rate == AnnualToDailyRate(EffectiveAnnualRate(CalculateDynamicDecayRate(e), tier))
         decayed == balance - DailyDecay(rate)
         burn == (decayed * 1000) \div BPS IN
       /\ balance' = balance - decayed
       /\ burned' = burned + burn
       /\ recycled' = recycled + (decayed - burn)
  /\ UNCHANGED tenure

StakeDecayNext ==
  \/ DaysPass
  \/ \E e \in Economies, tier \in Tiers : ApplyDailyDecay(e, tier)

StakeDecayTypeOK ==
  /\ balance \in 0..Held /\ tenure \in Tenures \cup {0}
  /\ burned \in 0..Held /\ recycled \in 0..Held

----------------------------------------------------------------------------
\* Every token that leaves a stake is burned or recycled, and none appears.
TokensConserved == balance + burned + recycled = Held

\* No sequence of rates, vaults and years takes a stake below the tenth that
\* the floor of its first year of decay preserves, and the first year takes
\* nothing.
FloorHolds ==
  /\ balance < Held => balance >= (Original * 1000) \div BPS
  /\ tenure < GracePeriod => balance = Held

\* A stake at or below the floor of its tenure is not touched any more.
AtFloorStays ==
  [][balance <= Floor => balance' = balance]_decayVars

(****************************************************************************)
(* The trust of one agent: the ladder of the protocol, climbed one level at *)
(* a time on demand, and the ladder of the fleet manager, which reads the   *)
(* telemetry of the loop at every tick and announces a level.               *)
(****************************************************************************)
CONSTANTS MaxBounties, MaxOpen

VARIABLES completions, rejections, open, trustLevel, announced, storedLevel

trustVars == <<completions, rejections, open, trustLevel, announced, storedLevel>>

MinCompletions == <<3, 10, 25, 50>>
MinReputation == <<5500, 6500, 7500, 8500>>

TrustInit ==
  /\ completions = 0 /\ rejections = 0 /\ open = 0
  /\ trustLevel = 1 /\ announced = 1 /\ storedLevel = 1

\* Half the reputation to begin with.
Reputation ==
  IF completions + rejections = 0 THEN 5000
  ELSE (completions * BPS) \div (completions + rejections)

Claim ==
  /\ open < MaxOpen
  /\ completions + rejections + open < MaxBounties
  /\ open' = open + 1
  /\ UNCHANGED <<completions, rejections, trustLevel, announced, storedLevel>>

RecordCompletion(approved) ==
  /\ open > 0
  /\ open' = open - 1
  /\ IF approved
       THEN completions' = completions + 1 /\ UNCHANGED rejections
       ELSE rejections' = rejections + 1 /\ UNCHANGED completions
  /\ UNCHANGED <<trustLevel, announced, storedLevel>>

CanUpgrade ==
  /\ trustLevel < 5
  /\ completions >= MinCompletions[trustLevel]
  /\ Reputation >= MinReputation[trustLevel]

TryUpgrade ==
  /\ CanUpgrade
  /\ trustLevel' = trustLevel + 1
  /\ UNCHANGED <<completions, rejections, open, announced, storedLevel>>

Claimed == completions + rejections + open
RateAbove(bps) == Claimed > 0 /\ completions * BPS > bps * Claimed

Deserved(l) == completions >= MinCompletions[l - 1] /\ RateAbove(MinReputation[l - 1])
FleetLevel ==
  IF \E l \in 2..5 : Deserved(l)
    THEN CHOOSE l \in 2..5 : Deserved(l) /\ \A k \in 2..5 : Deserved(k) => k <= l
    ELSE storedLevel

\* The statement that would store the level lacks a parameter, so it always
\* fails; the event is written each time.
CheckTrustProgression ==
  /\ FleetLevel > storedLevel
  /\ announced' = FleetLevel
  /\ UNCHANGED <<completions, rejections, open, trustLevel, storedLevel>>

TrustNext ==
  \/ Claim
  \/ \E approved \in BOOLEAN : RecordCompletion(approved)
  \/ TryUpgrade
  \/ CheckTrustProgression

TrustTypeOK ==
  /\ completions \in 0..MaxBounties /\ rejections \in 0..MaxBounties /\ open \in 0..MaxOpen
  /\ trustLevel \in 1..5 /\ announced \in 1..5 /\ storedLevel = 1

----------------------------------------------------------------------------
\* What the protocol would grant an agent with these verdicts that asks until
\* it is refused.
Grantable ==
  LET enough(l) == \A k \in 1..(l - 1) :
        completions >= MinCompletions[k] /\ Reputation >= MinReputation[k] IN
    CHOOSE l \in 1..5 : enough(l) /\ \A k \in 1..5 : enough(k) => k <= l

\* The level the fleet manager would announce is never above the one the
\* protocol would grant: it divides by all claims, open ones too, and asks for
\* more than the threshold where the protocol asks for the threshold itself.
FleetNeverAhead == FleetLevel <= Grantable

\* Nobody holds a level with fewer approvals than it asks for, however late the
\* upgrade was asked for and whatever verdicts came since: a level is climbed at
\* the thresholds of the level below, and never given back.
LevelEarned ==
  trustLevel > 1 => completions >= MinCompletions[trustLevel - 1]

(****************************************************************************)
(* All of it.                                                               *)
(****************************************************************************)
tokenEconomyVars == <<dayVars, feeVars, decayVars, trustVars>>

Init ==
  /\ TokenDayInit
  /\ FeePoolInit
  /\ StakeDecayInit
  /\ TrustInit

Next ==
  \/ TokenDayNext /\ UNCHANGED <<feeVars, decayVars, trustVars>>
  \/ FeePoolNext /\ UNCHANGED <<dayVars, decayVars, trustVars>>
  \/ StakeDecayNext /\ UNCHANGED <<dayVars, feeVars, trustVars>>
  \/ TrustNext /\ UNCHANGED <<dayVars, feeVars, decayVars>>

Spec == Init /\ [][Next]_tokenEconomyVars

TypeOK ==
  /\ TokenDayTypeOK
  /\ FeePoolTypeOK
  /\ StakeDecayTypeOK
  /\ TrustTypeOK
==============================================================================
