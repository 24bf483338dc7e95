---------------------------- MODULE MCCookieJar ----------------------------
(* Instances of CookieJar. *)
EXTENDS CookieJar, TLC

Symmetric == Permutations(Jars) \cup Permutations(Replacers) \cup Permutations(Runs)
=============================================================================
