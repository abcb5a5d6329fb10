-------------------------- MODULE MCPasswordSignIn --------------------------
(* PasswordSignIn on small instances: each scene says which calls overlap, *)
(* whichever calls of a set they are.                                      *)
EXTENDS PasswordSignIn, TLC

CONSTANTS s1, c1, l1, a1

NewScene(calls, updates) ==
  [calls |-> calls, updates |-> updates, requireVerifiedEmail |-> FALSE,
   email |-> a1, stale |-> FALSE]

(* A sign-in that rewrites an old hash beside two of a link and writers.   *)
Writers ==
  {[NewScene({s1} \cup others, 0) EXCEPT !.stale = TRUE] :
     others \in {Writer} \cup {{l1, w} : w \in Writer}}

(* Two challenges, confirmed twice.                                        *)
Codes == {[NewScene(SignIn \cup Confirm, 1) EXCEPT !.requireVerifiedEmail = TRUE]}

(* Two links beside a writer and changes of e-mail.                        *)
Links == {NewScene(Link \cup {w}, 2) : w \in Writer}

(* A sign-in and its code beside calls on the factor.                      *)
Keepers == {NewScene({s1, c1} \cup Keeper, 1)}

Scenes == Writers \cup Codes \cup Links \cup Keepers

Interchangeable == Permutations(Password) \cup Permutations(Writer) \cup Permutations(Keeper)
=============================================================================
