--------------------------- MODULE MCAccountFiles ---------------------------
(* One account name that changes hands once, two generations of the store  *)
(* and three faults: an interrupted replacement, a settlement of it that   *)
(* fails, and a power loss after that.                                     *)
EXTENDS AccountFiles
=============================================================================
