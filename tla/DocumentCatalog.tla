--------------------------- MODULE DocumentCatalog ---------------------------
(***************************************************************************)
(* What retrieval may rely on.  HybridRetrievalService keeps the documents *)
(* of a conversation whose status is active and then searches their        *)
(* chunks, so a document must become active in one indivisible step, with  *)
(* all of its chunks, and never change afterwards.  The ingestion pipeline *)
(* writes chunks over several transactions and must still look like this.  *)
(***************************************************************************)
EXTENDS Naturals

CONSTANTS
  Doc,        (* document identifiers                                      *)
  Content,    (* contents an uploaded file can have (their SHA-256)        *)
  ChunksOf,   (* number of chunks the chunker makes of a content           *)
  KeyOf       (* the owner, or base country, a document is listed under    *)

VARIABLE catalog

Unpublished == [published |-> FALSE]
Published(c) == [published |-> TRUE, hash |-> c, chunks |-> ChunksOf[c]]

Init == catalog = [d \in Doc |-> Unpublished]

(* A document with content c appears, complete, unless a document of the  *)
(* same owner (or base country) already shows the same content.           *)
Publish(d, c) ==
  /\ catalog[d] = Unpublished
  /\ \A e \in Doc \ {d} : KeyOf[d] = KeyOf[e] => catalog[e] # Published(c)
  /\ catalog' = [catalog EXCEPT ![d] = Published(c)]

Next == \E d \in Doc, c \in Content : Publish(d, c)

Spec == Init /\ [][Next]_catalog
==============================================================================
