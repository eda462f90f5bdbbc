---------------------------- MODULE MCAcceptLoop ----------------------------
(* Three connections of root, two accounts and an unreadable peer.         *)
EXTENDS AcceptLoop
=============================================================================
