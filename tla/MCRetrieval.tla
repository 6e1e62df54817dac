---------------------------- MODULE MCRetrieval ----------------------------
(* An instance of Retrieval: a country's document with three chunks, one   *)
(* of its region, and an old one of the whole world; an answer has room    *)
(* for two chunks, so that a ranking, the share of one document in the     *)
(* results and the context all cut something.                              *)
EXTENDS Retrieval, TLC

CONSTANTS question, hyde, ghana, africa, world, g1, g2, g3, a1, w1

MCDocOf == (g1 :> ghana) @@ (g2 :> ghana) @@ (g3 :> ghana)
           @@ (a1 :> africa) @@ (w1 :> world)
MCCountryOf == (ghana :> "GHA") @@ (africa :> "AFR") @@ (world :> "GLO")
MCRegionOf == "GHA" :> "AFR"

Found(attached, active, profile, flag, hint, country) ==
  [attached |-> attached, active |-> active, profile |-> profile, flag |-> flag,
   hint |-> hint, constraint |-> None, country |-> country]

(* A chat, two reports, and scopes without a document to search.           *)
MCSetting ==
  {Found({ghana, world}, {ghana, world}, "none", FALSE, None, "GHA"),
   Found(Doc, Doc, "report", FALSE, "GHA", None),
   Found({africa, world}, {africa, world}, "none", TRUE, None, None),
   Found({ghana}, {}, "none", FALSE, None, None),
   Found({world}, {world}, "country_profile", FALSE, None, None)}
============================================================================
