------------------------ MODULE WeatherServiceProofs ------------------------
(***************************************************************************)
(* What a call of the weather service returns, for every number of retries *)
(* and every set of readings.                                              *)
(***************************************************************************)
EXTENDS WeatherService, TLAPS

\* While the call goes on, every attempt so far has failed transiently and
\* there is an attempt left.
Ongoing ==
    assessment = NONE => attempt < attempts /\ Len(failures) = attempt

WeatherInv == WeatherTypeOK /\ Ongoing /\ AnswerIsEarned

\* The risk of a reading is the level of its worse half.
LEMMA ClassifyIsWorst ==
    ASSUME NEW p \in Int, NEW w \in Int
    PROVE  LET rain == Reached(p, 1, 2, 10)
               wind == Reached(w, 15, 25, 40)
               level == Level[classify_risk(p, w)]
           IN level \in {rain, wind} /\ level >= rain /\ level >= wind
<1>1. Reached(p, 1, 2, 10) = IF p >= 10 THEN 3 ELSE IF p >= 2 THEN 2
                             ELSE IF p > 0 THEN 1 ELSE 0
    BY DEF Reached
<1>2. Reached(w, 15, 25, 40) = IF w >= 40 THEN 3 ELSE IF w >= 25 THEN 2
                               ELSE IF w >= 15 THEN 1 ELSE 0
    BY DEF Reached
<1> QED
    BY <1>1, <1>2 DEF Level, classify_risk

\* An answer with a reading is an assessment.
LEMMA AvailableType ==
    ASSUME NEW p \in Precipitation, NEW w \in Wind
    PROVE  Available(p, w) \in WeatherAssessment /\ Available(p, w) # NONE
<1>1. classify_risk(p, w) \in RiskLevel
    BY DEF classify_risk, RiskLevel
<1>2. Available(p, w) \in WeatherAssessment
    BY <1>1 DEF Available, WeatherAssessment
<1> QED
    BY <1>2, NoneAssumption

\* An answer with a reason is an assessment.
LEMMA UnavailableType ==
    ASSUME NEW reason \in Failure \cup {"malformed_response"}
    PROVE  Unavailable(reason) \in WeatherAssessment /\ Unavailable(reason) # NONE
<1>1. Unavailable(reason) \in WeatherAssessment
    BY DEF Unavailable, WeatherAssessment, RiskLevel
<1> QED
    BY <1>1, NoneAssumption

\* The call starts with nothing tried.
LEMMA WeatherInitInv == WeatherInit => WeatherInv
    BY RetriesAssumption
    DEF WeatherInit, WeatherInv, WeatherTypeOK, Ongoing, AnswerIsEarned, attempts

\* Each way an attempt may end keeps the invariant.
LEMMA WeatherStepInv == WeatherInv /\ [assess_route_risk]_weatherVars => WeatherInv'
<1> SUFFICES ASSUME WeatherInv, [assess_route_risk]_weatherVars
             PROVE  WeatherInv'
    OBVIOUS
<1> USE RetriesAssumption
<1>0. attempts \in Nat /\ attempts >= 1
    BY DEF attempts
<1>1. ASSUME NEW p \in Precipitation, NEW w \in Wind, Respond(p, w)
      PROVE  WeatherInv'
  <2>1. /\ assessment = NONE /\ attempt' = attempt + 1 /\ failures' = failures
        /\ assessment' = Available(p, w)
      BY <1>1 DEF Respond, Attempt
  <2>2. WeatherTypeOK' /\ Ongoing'
      BY <2>1, <1>0, AvailableType
      DEF WeatherInv, WeatherTypeOK, Ongoing, attempts
  <2>3. /\ assessment'.available
        /\ assessment'.risk_level = classify_risk(p, w)
        /\ assessment'.precipitation_mm = p /\ assessment'.wind_speed_kmh = w
      BY <2>1 DEF Available
  <2>4. Len(failures') = attempt' - 1
      BY <2>1 DEF WeatherInv, WeatherTypeOK, Ongoing
  <2>5. AnswerIsEarned'
      BY <2>3, <2>4, ClassifyIsWorst, ReadingsAssumption DEF AnswerIsEarned
  <2> QED BY <2>2, <2>5 DEF WeatherInv
<1>2. ASSUME Malformed PROVE WeatherInv'
  <2>1. /\ assessment = NONE /\ attempt' = attempt + 1 /\ failures' = failures
        /\ assessment' = Unavailable("malformed_response")
      BY <1>2 DEF Malformed, Attempt
  <2> QED
      BY <2>1, <1>0, UnavailableType
      DEF WeatherInv, WeatherTypeOK, Ongoing, AnswerIsEarned, attempts
<1>3. ASSUME NEW reason \in Failure, Fail(reason) PROVE WeatherInv'
  <2>1. /\ assessment = NONE /\ attempt' = attempt + 1
        /\ failures' = Append(failures, reason)
        /\ assessment' = IF attempt' = attempts THEN Unavailable(reason) ELSE NONE
      BY <1>3 DEF Fail, Attempt
  <2>2. /\ Len(failures') = attempt' /\ failures' \in Seq(Failure)
        /\ failures'[attempt'] = reason
      BY <2>1 DEF WeatherInv, WeatherTypeOK, Ongoing
  <2> QED
      BY <2>1, <2>2, <1>0, UnavailableType
      DEF WeatherInv, WeatherTypeOK, Ongoing, AnswerIsEarned, attempts
<1>4. ASSUME UNCHANGED weatherVars PROVE WeatherInv'
    BY <1>4
    DEF weatherVars, WeatherInv, WeatherTypeOK, Ongoing, AnswerIsEarned
<1> QED
    BY <1>1, <1>2, <1>3, <1>4 DEF assess_route_risk

\* A call with any number of retries tries at most that often and once more,
\* and its variables keep their types.
THEOREM WeatherTypeCorrect == WeatherSpec => []WeatherTypeOK
<1>1. WeatherInv => WeatherTypeOK BY DEF WeatherInv
<1> QED BY WeatherInitInv, WeatherStepInv, <1>1, PTL DEF WeatherSpec

\* Whatever the API does, the answer is the worse of the two readings of the
\* first attempt that did not fail transiently, malformed_response when that
\* attempt brought none, or the reason of the last of max_retries + 1 failures.
THEOREM AnswerCorrect == WeatherSpec => []AnswerIsEarned
<1>1. WeatherInv => AnswerIsEarned BY DEF WeatherInv
<1> QED BY WeatherInitInv, WeatherStepInv, <1>1, PTL DEF WeatherSpec
=============================================================================
