---------------------------- MODULE MCHttpClient ----------------------------
(* HttpClient on small instances. *)
EXTENDS HttpClient, TLC

\* Callers are interchangeable in the safety properties.
CallSymmetry == Permutations(Call)
=============================================================================
