------------------------------ MODULE MCAuth ------------------------------
(***************************************************************************)
(* An instance of Auth for TLC: one configurable name, which contains the  *)
(* separator of a cookie, beside the default one, and one password of each *)
(* kind.  The browsers are interchangeable, and so are the secrets.        *)
(***************************************************************************)
EXTENDS Auth, TLC

Symmetry == Permutations(Clients) \cup Permutations(Secrets)
=============================================================================
