----------------------------- MODULE MCSessions -----------------------------
(* Sessions on small instances: each scene says which calls overlap.       *)
EXTENDS Sessions, TLC

CONSTANTS s1, s2, s3, a1, a2, o1, r1, r2, c1, c2, d1, d2, x1, u1, u2, e1, e2

(* s3 is another user's session.                                           *)
MCUserOf == [c \in {s1, s2, r1, r2, d1, d2} |-> u1] @@ [c \in {s3} |-> u2]

NewScene(redis, calls, opened) ==
  [redis |-> redis, calls |-> calls, opened |-> opened, updates |-> 0, everywhere |-> 0,
   failures |-> 0, until |-> 1]

(* Renewals and sign-outs as the clocks go on.                             *)
Renewals ==
  {[NewScene(redis, {s2, a1, a2, o1, x1}, {s1}) EXCEPT !.everywhere = 1, !.until = 4] :
     redis \in BOOLEAN}

(* A sign-in and a step-up beside two deletions, one replayed.             *)
Deletions ==
  {[NewScene(redis, {s1, r1, a1, d1, d2}, {}) EXCEPT !.failures = 2] : redis \in BOOLEAN}

(* Two challenges confirmed twice, while the user changes or signs out.    *)
StepUps ==
  {[NewScene(FALSE, {r1, r2, c1, c2}, {s1}) EXCEPT !.updates = 1],
   NewScene(FALSE, {r1, c1, c2, o1}, {s1, s3})}

Scenes == Renewals \cup Deletions \cup StepUps

Interchangeable == Permutations({a1, a2}) \cup Permutations({c1, c2}) \cup Permutations({e1, e2})
=============================================================================
