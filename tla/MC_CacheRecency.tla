--------------------------- MODULE MC_CacheRecency ---------------------------
(***************************************************************************)
(* A small instance of CacheRecency for TLC.                               *)
(***************************************************************************)
EXTENDS CacheRecency, MC_Cache
=============================================================================
