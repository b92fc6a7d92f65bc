--------------------------- MODULE MCMediaUpload ---------------------------
(* Instances of MediaUpload for TLC.                                       *)
EXTENDS MediaUpload, TLC

Symmetry == Permutations(Uploads)
=============================================================================
