---------------------------- MODULE MCUserSessions ----------------------------
(* A small instance of UserSessions for TLC. *)
EXTENDS UserSessions, TLC

CONSTANTS u1, r1, r2, r3, r4, p1, p2

MC_OneUser == {u1}
MC_FourRequests == {r1, r2, r3, r4}

MC_TwoPasswords == {p1, p2}

\* Neither the requests still to come nor the passwords are told apart.
SessionSymmetry ==
  Permutations(Requests \ Past) \union Permutations(Passwords)
=============================================================================
