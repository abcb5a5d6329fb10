------------------------------- MODULE OneUse -------------------------------
(***************************************************************************)
(* What a one-time token promises, with no store, no clock and no calls    *)
(* (one-time/index.ts, port/types/tokens.ts): a secret is issued once; it  *)
(* is used at most once, and only while live; once used or void it stays   *)
(* so; and at most Guesses codes are ever compared with the one it carries.*)
(***************************************************************************)
EXTENDS Naturals

CONSTANTS Secret, Guesses

VARIABLES status, guesses

Init ==
  /\ status = [s \in Secret |-> "unissued"]
  /\ guesses = [s \in Secret |-> 0]

Issue(s) ==
  /\ status[s] = "unissued"
  /\ status' = [status EXCEPT ![s] = "live"]
  /\ UNCHANGED guesses

(* A guess may still be compared when a racing call ended the secret.      *)
Guess(s) ==
  /\ status[s] # "unissued"
  /\ guesses[s] < Guesses
  /\ guesses' = [guesses EXCEPT ![s] = @ + 1]
  /\ UNCHANGED status

Use(s) ==
  /\ status[s] = "live"
  /\ status' = [status EXCEPT ![s] = "used"]
  /\ UNCHANGED guesses

(* Superseded, burned, lapsed or deleted: several secrets may end at once. *)
Void(S) ==
  /\ \A s \in S : status[s] = "live"
  /\ status' = [s \in Secret |-> IF s \in S THEN "void" ELSE status[s]]
  /\ UNCHANGED guesses

Next ==
  \/ \E s \in Secret : Issue(s) \/ Guess(s) \/ Use(s)
  \/ \E S \in SUBSET Secret : Void(S)

Spec == Init /\ [][Next]_<<status, guesses>>
=============================================================================
