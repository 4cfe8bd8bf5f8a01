--------------------------- MODULE MC_OciListing ---------------------------
(***************************************************************************)
(* A small repository: an anchor and a latest tag between three version    *)
(* tags, one of which belongs to an Object outside the prefix.             *)
(***************************************************************************)
EXTENDS OciListing

AllTags == 1 .. 5
Versions == AllTags \ {1, 3}
WithPrefix == Versions \ {4}

=============================================================================
