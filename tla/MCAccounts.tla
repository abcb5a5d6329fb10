----------------------------- MODULE MCAccounts -----------------------------
(* Accounts on small instances: each scene says which calls overlap.       *)
EXTENDS Accounts, TLC

CONSTANTS u1, u2, u3, l1, l2, c1, c2, m1, m2, p1, Ada, ada, bob

(* Ada and ada are one e-mail, and two names.                              *)
MCNormal == Ada :> ada @@ ada :> ada @@ bob :> bob
MCNormalName == [spelled \in {Ada, ada, bob} |-> spelled]

NewScene(login, calls, start) ==
  [login |-> login, calls |-> calls, inputs |-> {[name |-> ada, email |-> Ada]},
   values |-> {ada, bob}, start |-> start, deletions |-> 0, failures |-> 0]

(* Two users created beside one who may move, or be deleted.               *)
Creations ==
  {[NewScene(login, {u1, u2, m1}, {u3}) EXCEPT
      !.inputs = [name : {Ada, bob}, email : {Ada, bob}], !.values = {Ada, bob},
      !.deletions = 1] :
     login \in {"name", "email"}}
  \cup
  {[NewScene("none", {u1, u2, m1}, {u3}) EXCEPT
      !.inputs = [name : {ada}, email : {Ada, bob, None}], !.deletions = 1]}

(* Two changes of one user, and two links to change their e-mail.          *)
Moves ==
  {[NewScene("name", {l1, l2, c1, m1, m2}, {u1}) EXCEPT !.failures = 1]}

(* The app's own proof beside two changes, beside a link and a change; and *)
(* two links at once.                                                      *)
Proofs ==
  {NewScene("email", calls, {u1}) :
     calls \in {{p1, m1, m2}, {l1, c1, p1, m1}, {l1, l2, c1, c2}}}

(* The app's own proof of one who has no e-mail, beside one who gives it.  *)
Marks ==
  {[NewScene("none", {p1, m1}, {u1}) EXCEPT !.inputs = [name : {ada}, email : {Ada, None}]]}

(* A sign-up, its link, and whoever else proves the e-mail.                *)
SignUps ==
  {[NewScene("email", {u1, u2, l1, c1, p1}, {}) EXCEPT
      !.inputs = [name : {ada}, email : {Ada, ada}], !.values = {Ada, ada}, !.deletions = 1]}

Scenes == Creations \cup Moves \cup Proofs \cup Marks \cup SignUps

Interchangeable == 
  Permutations({m1, m2}) \cup Permutations({l1, l2}) \cup Permutations({c1, c2}) \cup
  Permutations({u1, u2})
=============================================================================
