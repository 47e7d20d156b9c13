-------------------------- MODULE MCServingSession --------------------------
EXTENDS ServingSession

(* Odd, and different for every lookback.                                  *)
MCMultipliers == <<<<3, 5, 9>>>>

=============================================================================
