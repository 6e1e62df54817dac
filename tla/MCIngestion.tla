---------------------------- MODULE MCIngestion ----------------------------
(* An instance of Ingestion.  A user has a private form, a shared one, a   *)
(* private one with the first one's name and one with unusable metadata; an*)
(* administrator has two base forms of one country.  The three files have  *)
(* a remainder batch, no remainder, and no text at all.                    *)
EXTENDS Ingestion, TLC

CONSTANTS private, shared, renamed, bad, base1, base2, long, even, blank, user

UploadFields(scope, owner, name) ==
  [scope |-> scope, owner |-> owner, name |-> name,
   country |-> IF scope = "base" THEN "GHA" ELSE "none"]

MCFields ==
  (private :> UploadFields("user_private", user, "n1"))
  @@ (shared :> UploadFields("user_shared", user, "n2"))
  @@ (renamed :> UploadFields("user_private", user, "n1"))
  @@ (bad :> UploadFields("user_private", user, "n3"))
  @@ (base1 :> UploadFields("base", NoOwner, "n1"))
  @@ (base2 :> UploadFields("base", NoOwner, "n2"))

MCChunksOf == (long :> 3) @@ (even :> 2) @@ (blank :> 0)
============================================================================
