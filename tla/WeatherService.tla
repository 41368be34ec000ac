--------------------------- MODULE WeatherService ---------------------------
(***************************************************************************)
(* One call of WeatherService.assess_route_risk: the loop over the         *)
(* attempts, with the forecast API outside.  evaluate_shipment awaits it   *)
(* with its database session open; ShipmentRouter's Assess takes any of    *)
(* the answers this module can give.                                       *)
(***************************************************************************)
EXTENDS Integers, Sequences

CONSTANTS
    max_retries,            \* 1 unless the constructor is told otherwise
    Precipitation, Wind,    \* the readings, in whole mm and km/h (a fraction
                            \* of a mm is light rain, like 1 mm)
    NONE                    \* Python's None

RiskLevel == {"none", "low", "moderate", "high"}

\* The exceptions of an attempt that the loop goes on after.
Failure == {"timeout", "http_error", "connection_error"}

WeatherAssessment ==
    [available: BOOLEAN, risk_level: RiskLevel,
     precipitation_mm: Precipitation \cup {NONE},
     wind_speed_kmh: Wind \cup {NONE},
     reason: Failure \cup {"malformed_response", NONE}]

ASSUME RetriesAssumption == max_retries \in Nat
ASSUME ReadingsAssumption == Precipitation \subseteq Int /\ Wind \subseteq Int
ASSUME NoneAssumption == NONE \notin WeatherAssessment

VARIABLES
    attempt,        \* requests that have come back
    failures,       \* how the failed ones failed, last_error_reason at the end
    assessment      \* NONE until the call returns

weatherVars == <<attempt, failures, assessment>>
-----------------------------------------------------------------------------
\* Mutant: both readings must be bad for a moderate risk.
mutant_classify_risk(precipitation_mm, wind_speed_kmh) ==
    CASE precipitation_mm >= 10 \/ wind_speed_kmh >= 40 -> "high"
      [] precipitation_mm >= 2 /\ wind_speed_kmh >= 25 -> "moderate"
      [] precipitation_mm > 0 \/ wind_speed_kmh >= 15 -> "low"
      [] OTHER -> "none"

classify_risk(precipitation_mm, wind_speed_kmh) ==
    IF precipitation_mm >= 10 \/ wind_speed_kmh >= 40 THEN "high"
    ELSE IF precipitation_mm >= 2 \/ wind_speed_kmh >= 25 THEN "moderate"
    ELSE IF precipitation_mm > 0 \/ wind_speed_kmh >= 15 THEN "low"
    ELSE "none"

Available(p, w) ==
    [available |-> TRUE, risk_level |-> classify_risk(p, w),
     precipitation_mm |-> p, wind_speed_kmh |-> w, reason |-> NONE]

Unavailable(reason) ==
    [available |-> FALSE, risk_level |-> "none",
     precipitation_mm |-> NONE, wind_speed_kmh |-> NONE, reason |-> reason]
-----------------------------------------------------------------------------
WeatherInit ==
    /\ attempt = 0
    /\ failures = <<>>
    /\ assessment = NONE

attempts == max_retries + 1

\* The response to the current request arrives, or fails to.
Attempt ==
    /\ assessment = NONE
    /\ attempt' = attempt + 1

Respond(p, w) ==
    /\ Attempt
    /\ assessment' = Available(p, w)
    /\ UNCHANGED failures

\* A 200 of another shape is not retried: the API will not reshape itself.
Malformed ==
    /\ Attempt
    /\ assessment' = Unavailable("malformed_response")
    /\ UNCHANGED failures

\* Mutant: the loop runs once more after the last attempt.
mutant_Fail(reason) ==
    /\ Attempt
    /\ failures' = Append(failures, reason)
    /\ assessment' = IF attempt = attempts THEN Unavailable(reason) ELSE NONE

\* Mutant: a call whose attempts are used up starts over.
mutant_restart_Fail(reason) ==
    /\ assessment = NONE
    /\ attempt' = (attempt + 1) % attempts
    /\ failures' = IF attempt' = 0 THEN <<>> ELSE Append(failures, reason)
    /\ UNCHANGED assessment

Fail(reason) ==
    /\ Attempt
    /\ failures' = Append(failures, reason)
    /\ assessment' = IF attempt' = attempts THEN Unavailable(reason) ELSE NONE

assess_route_risk ==
    \/ \E p \in Precipitation, w \in Wind : Respond(p, w)
    \/ Malformed
    \/ \E reason \in Failure : Fail(reason)

WeatherSpec == WeatherInit /\ [][assess_route_risk]_weatherVars

\* Every request ends: httpx bounds each connect, write and read.
FairWeatherSpec == WeatherSpec /\ WF_weatherVars(assess_route_risk)
-----------------------------------------------------------------------------
WeatherTypeOK ==
    /\ attempt \in 0 .. attempts
    /\ failures \in Seq(Failure)
    /\ assessment \in WeatherAssessment \cup {NONE}

\* How many of the thresholds a reading has reached: the level of a risk is
\* that of its worse reading.
Reached(x, first, second, third) ==
    CASE x >= third -> 3
      [] x < third /\ x >= second -> 2
      [] x < second /\ x >= first -> 1
      [] OTHER -> 0
Level == [none |-> 0, low |-> 1, moderate |-> 2, high |-> 3]

\* What the call returns is earned: a reading or a malformed response comes
\* right after transient failures only and carries the worse of its two
\* readings; any other answer names the failure of the last of exactly
\* max_retries + 1 attempts.
AnswerIsEarned ==
    assessment # NONE =>
        \/ /\ assessment.available
           /\ Len(failures) = attempt - 1
           /\ LET rain == Reached(assessment.precipitation_mm, 1, 2, 10)
                  wind == Reached(assessment.wind_speed_kmh, 15, 25, 40)
                  level == Level[assessment.risk_level]
              IN level \in {rain, wind} /\ level >= rain /\ level >= wind
        \/ /\ assessment = Unavailable("malformed_response")
           /\ Len(failures) = attempt - 1
        \/ /\ attempt = attempts /\ Len(failures) = attempt
           /\ assessment = Unavailable(failures[attempt])

\* The call returns, however the API behaves.
CallReturns == <>(assessment # NONE)
=============================================================================
