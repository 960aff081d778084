------------------------------- MODULE MCAuth -------------------------------
(* Instances of Auth for TLC.  Requests, sessions and logins are alike.     *)
EXTENDS Auth, TLC

Symmetry == Permutations(Requests) \cup Permutations(Sessions) \cup Permutations(Tokens)
            \cup Permutations(Logins)
=============================================================================
