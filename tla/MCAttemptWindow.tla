-------------------------- MODULE MCAttemptWindow --------------------------
(* AttemptWindow on a small instance: a few calls, two windows.            *)
EXTENDS AttemptWindow, TLC

MCHash == Window \X (0..MaxStep) \X Place
Interchangeable == Permutations(Call)
=============================================================================
