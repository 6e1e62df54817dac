--------------------------- MODULE MCAuthSessions ---------------------------
(* An instance of AuthSessions: an administrator and a user are logged in, *)
(* and two accounts with one address may be registered.                    *)
EXTENDS AuthSessions, TLC

CONSTANTS bob, root, ann, ann2, s1, s2, r1, r2, r3

MCEmail == (bob :> 1) @@ (root :> 2) @@ (ann :> 3) @@ (ann2 :> 3)
MCOpenedBy == (s1 :> bob) @@ (s2 :> root)
Interchangeable == Permutations({r1, r2, r3})
=============================================================================
