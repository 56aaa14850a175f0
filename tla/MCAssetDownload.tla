--------------------------- MODULE MCAssetDownload ---------------------------
(* AssetDownload with a file of two blocks and one of a single block. *)
EXTENDS AssetDownload

MCSize == <<2, 1>>
=============================================================================
