----------------------------- MODULE MCChatTurns -----------------------------
(* An instance of ChatTurns: two conversations of a user, and preprocessing.*)
EXTENDS ChatTurns, TLC

CONSTANTS r1, r2, r3, c1, c2, k1, k2, k3, u1, q1, q2, d1, d2, system, reader

MCNew == (r1 :> k1) @@ (r2 :> k2) @@ (r3 :> k3)
MCOwner == (c1 :> u1) @@ (c2 :> u1) @@ (k1 :> system) @@ (k2 :> system) @@ (k3 :> system)
MCUser == [r \in {r1, r2, r3} |-> u1]
MCScope == (c1 :> {d1}) @@ (c2 :> {d2}) @@ (k1 :> {d1}) @@ (k2 :> {d1}) @@ (k3 :> {d1})
Chat(c, q, b) == [conv |-> c, question |-> q, stream |-> FALSE, useCache |-> b]
MCCall == {Chat(c1, q1, TRUE), Chat(c1, q2, TRUE), Chat(c2, q2, TRUE), Chat(c1, q1, FALSE),
           Chat(None, q1, TRUE)}
MCPillars == <<q1, q2>>

(* Requests differ in nothing but the conversations they would make.       *)
Rename(x, y, z) == (r1 :> x[1]) @@ (k1 :> x[2]) @@ (r2 :> y[1]) @@ (k2 :> y[2])
                   @@ (r3 :> z[1]) @@ (k3 :> z[2])
Pairs == {<<r1, k1>>, <<r2, k2>>, <<r3, k3>>}
Alike == {Rename(t[1], t[2], t[3]) : t \in {p \in Pairs \X Pairs \X Pairs :
           Cardinality({p[1], p[2], p[3]}) = 3}}
=============================================================================
