--------------------------- MODULE MCDocumentLinks ---------------------------
(* An instance of DocumentLinks: a document of the country that is still  *)
(* being ingested, and one of its region that is attached already.         *)
EXTENDS DocumentLinks, TLC

CONSTANTS c1, c2, k1, k2, k3, d1, d2, cmr, ind, afr, glo, r1, r2, r3

MCCode == (c1 :> cmr) @@ (c2 :> ind) @@ (k1 :> cmr) @@ (k2 :> cmr) @@ (k3 :> cmr)
          @@ (d1 :> cmr) @@ (d2 :> afr)
MCStored == (d1 :> "processing") @@ (d2 :> "active")
Ask(k, c, s) == [kind |-> k, conv |-> c, docs |-> s]
MCCall == {Ask("attach", c1, <<d1>>), Ask("attach", c1, <<d2>>), Ask("attach", c2, <<d2>>),
           Ask("detach", c1, <<d1>>), Ask("detach", c1, <<d2>>),
           Ask("bulk", c1, <<d2, d1>>)}
MCRegion == cmr :> afr
MCOldLink == [p \in Pair |-> IF p = <<c1, d2>> THEN "live" ELSE "none"]
MCOwn == (r1 :> k1) @@ (r2 :> k2) @@ (r3 :> k3)
=============================================================================
