---------------------------- MODULE MCRefreshTokens ----------------------------
(* Small instances of RefreshTokens for TLC. *)
EXTENDS RefreshTokens, TLC

\* Tokens differ only in their ids, and clients in who they are.
TokenSymmetry == Permutations(Tokens) \cup Permutations(Clients)
=============================================================================
