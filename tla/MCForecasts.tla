---------------------------- MODULE MCForecasts -----------------------------
(* Two requests, with the same readings or different ones, two models, two *)
(* workers and a queue of one place.                                       *)
EXTENDS Forecasts
=============================================================================
