---------------------------- MODULE MCCacheGuard ----------------------------
(* Instances of CacheGuard for TLC; every constant is set in the cfg. *)
EXTENDS CacheGuard
=============================================================================
