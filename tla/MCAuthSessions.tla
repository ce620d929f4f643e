--------------------------- MODULE MCAuthSessions ---------------------------
(* AuthSessions for TLC: nothing orders the slots, the identifiers of       *)
(* tokens or the passwords.                                                 *)
EXTENDS AuthSessions, TLC

Symmetric == Permutations(Slots) \cup Permutations(Jtis) \cup Permutations(ResetIds)
             \cup Permutations(VerifyIds) \cup Permutations(Passwords)
=============================================================================
