------------------------ MODULE BountySelectionProofs ------------------------
(***************************************************************************)
(* What the choice of the autonomous loop is worth, for any number of      *)
(* bounties, any rewards and any min_fit_score.                            *)
(***************************************************************************)
EXTENDS BountySelection, TLAPS

(***************************************************************************)
(* Scores.                                                                 *)
(***************************************************************************)

\* A quotient of naturals that is at most Scale rounds to at most Scale.
LEMMA RoundInScale ==
  ASSUME NEW n \in Nat, NEW d \in Nat \ {0}, n <= Scale * d
  PROVE  Round(n, d) \in 0 .. Scale
  <1> DEFINE m == 2 * n + d
             e == 2 * d
  <1>1. m \in Nat /\ e \in Nat \ {0} /\ m < (Scale + 1) * e
    BY DEF Scale
  <1>2. m \div e \in Nat /\ e * (m \div e) <= m
    BY <1>1
  <1>3. SUFFICES ASSUME m \div e >= Scale + 1 PROVE FALSE
    BY <1>2 DEF Round, Scale
  <1>4. e * (m \div e) >= e * (Scale + 1)
    BY <1>1, <1>2, <1>3 DEF Scale
  <1> QED BY <1>1, <1>2, <1>4 DEF Scale

\* Two factors grow, so does their product.
LEMMA TimesMonotone ==
  ASSUME NEW a \in Nat, NEW b \in Nat, NEW c \in Nat, NEW d \in Nat,
         a <= c, b <= d
  PROVE  a * b <= c * d
  <1>1. a * b <= c * b OBVIOUS
  <1>2. c * b <= c * d OBVIOUS
  <1>3. a * b \in Nat /\ c * b \in Nat /\ c * d \in Nat OBVIOUS
  <1> QED BY <1>1, <1>2, <1>3

\* The performance of an agent is at most 1.
LEMMA PerformanceInScale ==
  ASSUME TypeOK
  PROVE  Rows \in Nat \ {0} /\ Performance \in Nat
         /\ Performance <= Scale * Rows
  BY DEF TypeOK, Rows, Performance, Scale

\* So is what a count that may fail makes of it.
LEMMA PerformancesInScale ==
  ASSUME TypeOK, NEW perf \in Performances
  PROVE  perf \in Nat /\ perf <= Scale * Rows
  BY PerformanceInScale DEF Performances, Scale

\* The score of a bounty lies within 0 and 1.
LEMMA FitInScale ==
  ASSUME TypeOK, NEW offer \in Offer, NEW perf \in Performances
  PROVE  Fit(offer, perf) \in 0 .. Scale
  <1> DEFINE mult == IF offer.runnable THEN 100 ELSE 40
             n == offer.cap * perf * mult
             d == Scale * Scale * Rows
  <1>1. offer.cap \in 0 .. Scale /\ mult \in 0 .. Scale
    <2>1. offer.cap \in CapScores BY DEF Offer
    <2>2. mult = 100 \/ mult = 40 OBVIOUS
    <2> HIDE DEF mult
    <2>3. mult \in 0 .. Scale BY <2>2 DEF Scale
    <2>4. offer.cap \in 0 .. Scale BY <2>1, SelectionAssumption
    <2> QED BY <2>3, <2>4
  <1>2. Rows \in Nat \ {0} /\ perf \in Nat /\ perf <= Scale * Rows
    BY PerformanceInScale, PerformancesInScale
  <1>3. d \in Nat \ {0} BY <1>2 DEF Scale
  <1>4. offer.cap * perf <= Scale * (Scale * Rows)
    BY <1>1, <1>2, TimesMonotone DEF Scale
  <1>5. offer.cap * perf \in Nat BY <1>1, <1>2 DEF Scale
  <1>6. (offer.cap * perf) * mult <= (Scale * (Scale * Rows)) * Scale
    <2>1. Scale * (Scale * Rows) \in Nat BY <1>2 DEF Scale
    <2> QED BY <1>1, <1>4, <1>5, <2>1, TimesMonotone DEF Scale
  <1>7. n \in Nat /\ n <= Scale * d
    BY <1>1, <1>2, <1>5, <1>6 DEF Scale
  <1>8. Round(n, d) \in 0 .. Scale BY <1>3, <1>7, RoundInScale
  <1> QED BY <1>8 DEF Fit

(***************************************************************************)
(* Types.                                                                  *)
(***************************************************************************)

\* An assessment adds one scored bounty and may choose it.
LEMMA AssessTypes ==
  ASSUME TypeOK, Assess
  PROVE  /\ \E s \in Scored : /\ seen' = seen \cup {s}
                             /\ best' = IF Better(s) THEN s ELSE best
         /\ listed' \in Seq(Offer)
  <1>1. listed \in Seq(Offer) /\ listed # <<>> BY DEF TypeOK, Assess
  <1>2. Head(listed) \in Offer /\ Tail(listed) \in Seq(Offer) BY <1>1
  <1> DEFINE offer == Head(listed)
             scored(perf) == [id |-> offer.id, fit |-> Fit(offer, perf),
                              reward |-> offer.reward]
  <1>0. PICK perf \in Performances :
          /\ seen' = seen \cup {scored(perf)}
          /\ best' = IF Better(scored(perf)) THEN scored(perf) ELSE best
    BY DEF Assess
  <1> DEFINE s == scored(perf)
  <1>3. Fit(offer, perf) \in 0 .. Scale BY <1>2, FitInScale
  <1>4. offer.id \in Bounties /\ offer.reward \in Rewards
    BY <1>2 DEF Offer
  <1>5. s \in Scored BY <1>3, <1>4 DEF Scored
  <1>6. seen' = seen \cup {s} /\ best' = IF Better(s) THEN s ELSE best
    BY <1>0
  <1> HIDE DEF s
  <1>7. listed' = Tail(listed) BY DEF Assess
  <1> QED BY <1>2, <1>5, <1>6, <1>7

\* Whoever works, works on the bounty it chose.
WorkChosen == pc = "working" => best # NoChoice

\* Every step keeps the shape of every variable.
LEMMA TypeStep ==
  ASSUME TypeOK, WorkChosen, [Next]_vars
  PROVE  TypeOK'
  <1> USE DEF TypeOK
  <1>1. CASE Discover
    <2>1. listed' \in Seq(Offer)
      <3>1. PICK n \in 1 .. MaxListed :
              \E offers \in [1 .. n -> Offer] : listed' = offers
        BY <1>1 DEF Discover
      <3>2. n \in Nat BY <3>1, SelectionAssumption
      <3> QED BY <3>1, <3>2
    <2> QED BY <1>1, <2>1 DEF Discover
  <1>2. CASE Assess
    <2>1. PICK s \in Scored : /\ seen' = seen \cup {s}
                             /\ best' = IF Better(s) THEN s ELSE best
      BY <1>2, AssessTypes
    <2>2. listed' \in Seq(Offer) BY <1>2, AssessTypes
    <2>3. seen' \subseteq Scored /\ best' \in Scored \cup {NoChoice}
      BY <2>1
    <2> QED BY <1>2, <2>2, <2>3 DEF Assess
  <1>3. CASE NothingFits BY <1>3 DEF NothingFits
  <1>4. CASE Claim
    <2>1. best \in Scored BY <1>4 DEF Claim
    <2>2. best.id \in Bounties BY <2>1 DEF Scored
    <2> QED BY <1>4, <2>2 DEF Claim
  <1>5. CASE ClaimRefused BY <1>5 DEF ClaimRefused
  <1>6. CASE Approved
    <2>1. completed + open[best.id] \in Nat
      <3>1. best \in Scored BY <1>6 DEF Approved, WorkChosen
      <3>2. best.id \in Bounties BY <3>1 DEF Scored
      <3> QED BY <3>2
    <2> QED BY <1>6, <2>1 DEF Approved
  <1>7. CASE NotApproved BY <1>7 DEF NotApproved
  <1>8. CASE UNCHANGED vars BY <1>8 DEF vars
  <1> QED BY <1>1, <1>2, <1>3, <1>4, <1>5, <1>6, <1>7, <1>8 DEF Next

(***************************************************************************)
(* The worth of the choice.                                                *)
(***************************************************************************)

\* The reward of the choice bounds the value of all that was assessed: it
\* is what a later bounty has to beat, and no value exceeds its reward.
RewardBounds ==
  /\ best # NoChoice => best \in seen /\ best.fit >= MinFit
  /\ \A s \in seen :
       s.fit >= MinFit => best # NoChoice /\ Value(s) <= Scale * best.reward

\* The inductive invariant.
Inv == TypeOK /\ WorkChosen /\ RewardBounds

\* A scored bounty is a choice, of a value within its reward.
LEMMA ScoredValue ==
  ASSUME NEW s \in Scored
  PROVE  /\ s # NoChoice
         /\ s.fit \in 0 .. Scale /\ s.reward \in Nat
         /\ Value(s) \in Nat /\ Value(s) <= Scale * s.reward
  <1>1. s.id \in Bounties /\ s.fit \in 0 .. Scale /\ s.reward \in Nat
    BY SelectionAssumption DEF Scored
  <1>2. s # NoChoice BY <1>1, SelectionAssumption DEF NoChoice
  <1>3. s.fit * s.reward <= Scale * s.reward
    BY <1>1, TimesMonotone DEF Scale
  <1>4. s.fit * s.reward \in Nat BY <1>1 DEF Scale
  <1> QED BY <1>1, <1>2, <1>3, <1>4 DEF Value

\* An assessment keeps the bound, whether or not it changes the choice.
LEMMA AssessBounds ==
  ASSUME Inv, Assess
  PROVE  RewardBounds'
  <1>1. PICK s \in Scored : /\ seen' = seen \cup {s}
                           /\ best' = IF Better(s) THEN s ELSE best
    BY AssessTypes DEF Inv
  <1>2. /\ s # NoChoice
        /\ s.fit \in 0 .. Scale /\ s.reward \in Nat
        /\ Value(s) \in Nat /\ Value(s) <= Scale * s.reward
    BY ScoredValue
  <1>3. best # NoChoice => best \in Scored /\ best.reward \in Nat
    BY SelectionAssumption DEF Inv, TypeOK, Scored
  <1>4. \A t \in seen : Value(t) \in Nat
    BY ScoredValue DEF Inv, TypeOK
  <1>5. CASE Better(s)
    <2>1. best' = s /\ s.fit >= MinFit BY <1>1, <1>5 DEF Better
    <2>2. best' # NoChoice => best' \in seen' /\ best'.fit >= MinFit
      BY <1>1, <2>1
    <2>3. ASSUME NEW t \in seen, t.fit >= MinFit
          PROVE  Value(t) <= Scale * s.reward
      <3>1. best # NoChoice /\ Value(t) <= Scale * best.reward
        BY <2>3 DEF Inv, RewardBounds
      <3>2. Value(s) > Scale * best.reward BY <1>5, <3>1 DEF Better
      <3>3. Scale * best.reward \in Nat /\ Scale * s.reward \in Nat
        BY <1>2, <1>3, <3>1 DEF Scale
      <3>4. Value(t) \in Nat BY <1>4
      <3> QED BY <1>2, <3>1, <3>2, <3>3, <3>4
    <2>4. \A t \in seen' :
            t.fit >= MinFit =>
              best' # NoChoice /\ Value(t) <= Scale * best'.reward
      BY <1>1, <1>2, <2>1, <2>3
    <2> QED BY <2>2, <2>4 DEF RewardBounds, Value
  <1>6. CASE ~Better(s)
    <2>1. best' = best BY <1>1, <1>6
    <2>2. ASSUME s.fit >= MinFit
          PROVE  best # NoChoice /\ Value(s) <= Scale * best.reward
      <3>1. best # NoChoice /\ ~(Value(s) > Scale * best.reward)
        BY <1>6, <2>2 DEF Better
      <3>2. Scale * best.reward \in Nat BY <1>3, <3>1 DEF Scale
      <3> QED BY <1>2, <3>1, <3>2
    <2>3. best' # NoChoice => best' \in seen' /\ best'.fit >= MinFit
      BY <1>1, <2>1 DEF Inv, RewardBounds
    <2>4. \A t \in seen' :
            t.fit >= MinFit =>
              best' # NoChoice /\ Value(t) <= Scale * best'.reward
      BY <1>1, <2>1, <2>2 DEF Inv, RewardBounds
    <2> QED BY <2>3, <2>4 DEF RewardBounds, Value
  <1> QED BY <1>5, <1>6

\* The inductive invariant holds initially and is kept by every step.
THEOREM Invariance == Spec => []Inv
  <1>1. Init => Inv
    BY DEF Init, Inv, TypeOK, WorkChosen, RewardBounds
  <1>2. ASSUME Inv, [Next]_vars PROVE Inv'
    <2>1. TypeOK' BY <1>2, TypeStep DEF Inv
    <2>2. WorkChosen'
      BY <1>2 DEF Inv, WorkChosen, Next, vars, Discover, Assess,
                  NothingFits, Claim, ClaimRefused, Approved, NotApproved
    <2>3. RewardBounds'
      <3>1. CASE Assess BY <1>2, <3>1, AssessBounds
      <3>2. CASE Discover BY <3>2 DEF Discover, RewardBounds
      <3>3. CASE UNCHANGED <<seen, best>>
        BY <1>2, <3>3 DEF Inv, RewardBounds, Value
      <3>4. Assess \/ Discover \/ UNCHANGED <<seen, best>>
        BY <1>2 DEF Next, vars, NothingFits, Claim, ClaimRefused,
                    Approved, NotApproved
      <3> QED BY <3>1, <3>2, <3>3, <3>4
    <2> QED BY <2>1, <2>2, <2>3 DEF Inv
  <1> QED BY <1>1, <1>2, PTL DEF Spec

\* The variables of the selection keep their shape; scores stay within 0
\* and 1.
THEOREM TypeCorrect == Spec => []TypeOK
  <1>1. Inv => TypeOK BY DEF Inv
  <1> QED BY <1>1, Invariance, PTL

\* What the loop chose fits and is worth at least min_fit_score times any
\* bounty it passed over, although the loop compares a value with a reward.
THEOREM WorthChoosing == Spec => []ChoiceIsWorth
  <1>1. ASSUME Inv PROVE ChoiceIsWorth
    <2>1. best # NoChoice => best \in seen /\ best.fit >= MinFit
      BY <1>1 DEF Inv, RewardBounds
    <2>2. ASSUME NEW s \in seen, s.fit >= MinFit
          PROVE  best # NoChoice /\ MinFit * Value(s) <= Scale * Value(best)
      <3>1. best # NoChoice /\ Value(s) <= Scale * best.reward
        BY <1>1, <2>2 DEF Inv, RewardBounds
      <3>2. best \in Scored /\ s \in Scored
        BY <1>1, <3>1 DEF Inv, TypeOK
      <3>3. /\ best.fit \in Nat /\ best.reward \in Nat
            /\ Value(s) \in Nat /\ MinFit \in Nat
        BY <3>2, ScoredValue, SelectionAssumption DEF Scale
      <3>4. Scale * best.reward \in Nat BY <3>3 DEF Scale
      <3>5. MinFit * Value(s) <= best.fit * (Scale * best.reward)
        BY <2>1, <3>1, <3>3, <3>4, TimesMonotone
      <3>6. best.fit * (Scale * best.reward) = Scale * Value(best)
        BY <3>3 DEF Value, Scale
      <3> QED BY <3>1, <3>5, <3>6
    <2> QED BY <2>1, <2>2 DEF ChoiceIsWorth
  <1> QED BY <1>1, Invariance, PTL

(***************************************************************************)
(* An agent that is locked out stays so.                                   *)
(***************************************************************************)

\* Rounding a smaller quotient gives no more; the second one is written with
\* numerator and denominator k times as large.
LEMMA RoundScaled ==
  ASSUME NEW n \in Nat, NEW p \in Nat, NEW r \in Nat \ {0},
         NEW k \in Nat \ {0}, n <= k * p
  PROVE  Round(n, k * r) <= Round(p, r)
  <1> DEFINE x == Round(n, k * r)
             y == Round(p, r)
             e == 2 * (k * r)
  <1>1. k * r \in Nat \ {0} /\ k * p \in Nat OBVIOUS
  <1>2. e \in Nat \ {0} /\ 2 * n + k * r \in Nat BY <1>1
  <1>3. x \in Nat /\ e * x <= 2 * n + k * r BY <1>2 DEF Round
  <1>4. y \in Nat /\ 2 * p + r < (2 * r) * (y + 1)
    <2>1. 2 * r \in Nat \ {0} /\ 2 * p + r \in Nat OBVIOUS
    <2> QED BY <2>1 DEF Round
  <1>5. k * (2 * p + r) < k * ((2 * r) * (y + 1))
    <2>1. (2 * r) * (y + 1) \in Nat /\ 2 * p + r \in Nat BY <1>4
    <2> HIDE DEF y
    <2> QED BY <1>4, <2>1
  <1>6. k * (2 * p + r) = 2 * (k * p) + k * r OBVIOUS
  <1>7. k * ((2 * r) * (y + 1)) = e * (y + 1)
    <2> HIDE DEF y
    <2> QED BY <1>4
  <1> HIDE DEF x, y, e
  <1>8. e * x < e * (y + 1)
    <2>1. e * x \in Nat /\ e * (y + 1) \in Nat BY <1>2, <1>3, <1>4
    <2> QED BY <1>1, <1>3, <1>5, <1>6, <1>7, <2>1
  <1>9. x < y + 1 BY <1>2, <1>3, <1>4, <1>8
  <1>10. x <= y BY <1>3, <1>4, <1>9
  <1> QED BY <1>10 DEF x, y

\* No score exceeds the performance of the agent.
LEMMA FitWithinPerformance ==
  ASSUME TypeOK, NEW offer \in Offer
  PROVE  Fit(offer, Performance) <= Round(Performance, Rows)
  <1> DEFINE mult == IF offer.runnable THEN 100 ELSE 40
             n == offer.cap * Performance * mult
  <1>1. offer.cap \in 0 .. Scale /\ mult \in 0 .. Scale
    <2>1. offer.cap \in CapScores BY DEF Offer
    <2>2. mult = 100 \/ mult = 40 OBVIOUS
    <2> HIDE DEF mult
    <2>3. mult \in 0 .. Scale BY <2>2 DEF Scale
    <2>4. offer.cap \in 0 .. Scale BY <2>1, SelectionAssumption
    <2> QED BY <2>3, <2>4
  <1>2. Rows \in Nat \ {0} /\ Performance \in Nat BY PerformanceInScale
  <1>3. offer.cap * Performance <= Scale * Performance
    BY <1>1, <1>2, TimesMonotone DEF Scale
  <1>4. offer.cap * Performance \in Nat /\ Scale * Performance \in Nat
    BY <1>1, <1>2 DEF Scale
  <1>5. (offer.cap * Performance) * mult <= (Scale * Performance) * Scale
    BY <1>1, <1>3, <1>4, TimesMonotone DEF Scale
  <1>6. n \in Nat /\ n <= (Scale * Scale) * Performance
    <2> HIDE DEF mult
    <2> QED BY <1>1, <1>2, <1>4, <1>5 DEF Scale
  <1>7. Scale * Scale \in Nat \ {0} BY DEF Scale
  <1>8. Round(n, (Scale * Scale) * Rows) <= Round(Performance, Rows)
    BY <1>2, <1>6, <1>7, RoundScaled
  <1> QED BY <1>8 DEF Fit

\* While an agent is locked out, its assessments choose nothing.
NoneChosen == LockedOut /\ pc = "assessing" => best = NoChoice

\* An agent that is locked out and does not work neither claims nor gets
\* anything approved, from then on.
THEOREM OutStaysOut ==
  ASSUME ~QueryMayFail
  PROVE  Spec => OutForGood
  <1>1. Init => NoneChosen BY DEF Init, NoneChosen
  <1>2. ASSUME Inv, NoneChosen, [Next]_vars PROVE NoneChosen'
    <2>1. CASE Discover BY <2>1 DEF Discover, NoneChosen
    <2>2. CASE Assess
      <3> SUFFICES ASSUME LockedOut' PROVE best' = NoChoice
        BY DEF NoneChosen
      <3>1. LockedOut
        BY <2>2 DEF Assess, LockedOut, Performance, Rows
      <3>2. best = NoChoice BY <1>2, <2>2, <3>1 DEF NoneChosen, Assess
      <3> DEFINE offer == Head(listed)
                 s == [id |-> offer.id, fit |-> Fit(offer, Performance),
                       reward |-> offer.reward]
      <3>0. Performances = {Performance} BY DEF Performances
      <3>3. offer \in Offer BY <1>2, <2>2 DEF Inv, TypeOK, Assess
      <3>4. Fit(offer, Performance) <= Round(Performance, Rows)
        BY <1>2, <3>3, FitWithinPerformance DEF Inv
      <3>5. Fit(offer, Performance) \in Nat
        BY <1>2, <3>0, <3>3, FitInScale DEF Inv, Scale
      <3>6. Round(Performance, Rows) \in Nat
        <4>1. Rows \in Nat \ {0} /\ Performance \in Nat
              /\ Performance <= Scale * Rows
          BY <1>2, PerformanceInScale DEF Inv
        <4>2. Round(Performance, Rows) \in 0 .. Scale BY <4>1, RoundInScale
        <4> QED BY <4>2 DEF Scale
      <3>7. ~(Fit(offer, Performance) >= MinFit)
        BY <3>1, <3>4, <3>5, <3>6, SelectionAssumption DEF LockedOut, Scale
      <3>8. s.fit = Fit(offer, Performance) OBVIOUS
      <3>9. ~Better(s) BY <3>7, <3>8 DEF Better
      <3> QED BY <2>2, <3>0, <3>2, <3>9 DEF Assess
    <2>3. CASE ~Discover /\ ~Assess
      BY <1>2, <2>3 DEF Next, vars, NothingFits, Claim, ClaimRefused,
                        Approved, NotApproved, NoneChosen, LockedOut,
                        Performance, Rows
    <2> QED BY <2>1, <2>2, <2>3
  <1>3. ASSUME NoneChosen, [Next]_vars, LockedOut, pc # "working"
        PROVE  LockedOut' /\ pc' # "working"
    <2>1. ~Claim BY <1>3 DEF NoneChosen, Claim
    <2> QED BY <1>3, <2>1 DEF Next, vars, Discover, Assess, NothingFits,
                ClaimRefused, Approved, NotApproved, LockedOut,
                Performance, Rows
  <1> QED BY <1>1, <1>2, <1>3, Invariance, PTL DEF Spec, OutForGood
=============================================================================
