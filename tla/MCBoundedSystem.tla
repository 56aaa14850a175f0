--------------------------- MODULE MCBoundedSystem ---------------------------
(* BoundedSystem with small bounds; the configurations choose whether the  *)
(* caller reconnects after an unconfirmed request.                         *)
EXTENDS BoundedSystem
=============================================================================
