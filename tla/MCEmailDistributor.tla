-------------------------- MODULE MCEmailDistributor --------------------------
(* One client under the rate limit and one of the whitelist.               *)
EXTENDS EmailDistributor
=============================================================================
