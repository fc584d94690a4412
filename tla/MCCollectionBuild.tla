------------------------- MODULE MCCollectionBuild -------------------------
(* Instances of CollectionBuild for TLC. *)
EXTENDS CollectionBuild
=============================================================================
