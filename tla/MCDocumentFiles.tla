-------------------------- MODULE MCDocumentFiles --------------------------
(* An instance of DocumentFiles: a user's private and shared form and a    *)
(* base form with the private one's name, two files, and what one client   *)
(* may ask for while two calls post them.                                  *)
EXTENDS DocumentFiles, TLC

CONSTANTS private, shared, base, one, two, user, other, loose, held

UploadFields(scope, owner, name, country) ==
  [scope |-> scope, owner |-> owner, name |-> name, country |-> country]

MCFields ==
  (private :> UploadFields("user_private", user, "n1", "GHA"))
  @@ (shared :> UploadFields("user_shared", user, "n2", "AFR"))
  @@ (base :> UploadFields("base", NoOwner, "n1", "GHA"))

MCChunksOf == (one :> 1) @@ (two :> 2)

(* A file somebody only stores has the name of a document.                 *)
MCLoose == <<loose, "n1">> :> two
MCRegionOf == "GHA" :> "AFR"

MCAsks ==
  {[by |-> "id", doc |-> private, user |-> other],
   [by |-> "id", doc |-> base, user |-> other],
   [by |-> "name", name |-> "n1"],
   [by |-> "list", user |-> user, country |-> "GHA"],
   [by |-> "countries", scope |-> "base"],
   [by |-> "upload", doc |-> held]}
============================================================================
