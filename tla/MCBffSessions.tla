---------------------------- MODULE MCBffSessions ----------------------------
(***************************************************************************)
(* Requests, sessions and users are interchangeable.                       *)
(***************************************************************************)
EXTENDS BffSessions, TLC

MCSymmetry == Permutations(Requests) \cup Permutations(Sessions) \cup Permutations(Users)
=============================================================================
