-------------------------- MODULE MCWeatherService --------------------------
(***************************************************************************)
(* Readings on both sides of every threshold of classify_risk.             *)
(***************************************************************************)
EXTENDS WeatherService

McPrecipitation == {0, 1, 2, 9, 10}
McWind == {0, 14, 15, 24, 25, 39, 40}
=============================================================================
