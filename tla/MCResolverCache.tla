---------------------------- MODULE MCResolverCache ----------------------------
(* Instance of ResolverCache for TLC: one host more than the cache holds, one *)
(* positive and one negative answer, time for every entry to expire twice.    *)
EXTENDS ResolverCache
================================================================================
