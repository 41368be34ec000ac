SPECIFICATION FairWeatherSpec
CONSTANTS
  max_retries = 2
  NONE = NONE
  Precipitation <- McPrecipitation
  Wind <- McWind
INVARIANTS WeatherTypeOK AnswerIsEarned
PROPERTY CallReturns
CHECK_DEADLOCK FALSE
