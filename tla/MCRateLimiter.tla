---------------------------- MODULE MCRateLimiter ----------------------------
(* Small instances of RateLimiter for TLC. *)
EXTENDS RateLimiter, TLC

CONSTANTS r1, r2, r3, r4

\* Requests differ only in who they are.
RequestSymmetry == Permutations(Requests)

\* apiRateLimit alone.
ApiLimiter == <<[limit |-> 2, window |-> 3]>>

\* apiRateLimit and authRateLimit: a wide limit over a short window, then a
\* tight one over a long window.
AuthLimiters == <<[limit |-> 4, window |-> 1], [limit |-> 2, window |-> 3]>>
=============================================================================
