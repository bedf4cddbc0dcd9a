---------------------------- MODULE MCRateLimit ----------------------------
(***************************************************************************)
(* An instance of RateLimit for TLC: a client that connects directly, and  *)
(* another behind a trusted proxy that names it first.                     *)
(***************************************************************************)
EXTENDS RateLimit, TLC

MCForwarded == {<<>>, <<"shopper", "proxy">>}

Symmetry == Permutations(Requests) \cup Permutations(Buckets)
=============================================================================
