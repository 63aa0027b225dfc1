--------------------------- MODULE MCCacheManager ---------------------------
(* Model of CacheManager for TLC.                                           *)
EXTENDS CacheManager
=============================================================================
