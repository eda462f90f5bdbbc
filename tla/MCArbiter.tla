----------------------------- MODULE MCArbiter ------------------------------
(* Two authentications, one of root and one of an account; three camera    *)
(* requests, two of the account and one of root; a worker-only request of  *)
(* the account; and one background scan.                                   *)
EXTENDS Arbiter, TLC

CONSTANTS a1, a2, k1, k2, k3, p1, t1, u1, root

MCRequests == {a1, a2, k1, k2, k3, p1}
MCTasks == {t1}
MCUids == {root, u1}
MCClass == (a1 :> "Auth") @@ (a2 :> "Auth") @@ (p1 :> "Plain")
           @@ [k \in {k1, k2, k3} |-> "Camera"]
MCUid == (a1 :> root) @@ (a2 :> u1) @@ (k1 :> u1) @@ (k2 :> u1) @@ (k3 :> root)
         @@ (p1 :> u1)
=============================================================================
