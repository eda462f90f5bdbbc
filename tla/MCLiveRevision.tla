--------------------------- MODULE MCLiveRevision ---------------------------
(* Three accounts and room for the counts of two.                          *)
EXTENDS LiveRevision, TLC

CONSTANTS u1, u2, u3

MCAccounts == {u1, u2, u3}
=============================================================================
