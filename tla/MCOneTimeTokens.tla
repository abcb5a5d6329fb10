-------------------------- MODULE MCOneTimeTokens --------------------------
(* OneTimeTokens on a small instance: two sends of either kind to one user *)
(* and two confirms, racing for challenges that take one code, and an      *)
(* address the user may move to.                                           *)
EXTENDS OneTimeTokens, TLC

MCKind == {"signInCode", "magicLink"}
Interchangeable == Permutations(Hash) \cup Permutations(Confirm) \cup Permutations(Address)
=============================================================================
