------------------------- MODULE MCVersionDownload -------------------------
(* VersionDownload with one library and one asset object: they arrive in   *)
(* either order, and one may fail while the other is on its way.           *)
EXTENDS VersionDownload
=============================================================================
