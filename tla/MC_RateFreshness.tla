-------------------------- MODULE MC_RateFreshness --------------------------
(***************************************************************************)
(* A small instance of RateFreshness for TLC.                              *)
(***************************************************************************)
EXTENDS RateFreshness, MC_CurrencyServer
=============================================================================
