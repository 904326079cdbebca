---------------------------- MODULE MCPhotoIndex ----------------------------
(* Two spots, both of whose images resemble the post.                        *)
EXTENDS PhotoIndex

AllNear == Spots \X Urls
=============================================================================
