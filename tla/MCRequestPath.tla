---------------------------- MODULE MCRequestPath ---------------------------
(* An authentication PAM sends as root for account u1, an enrollment       *)
(* session of u1, and an identification of u2 or a worker-only request of  *)
(* u1, with one background scan.                                           *)
EXTENDS RequestPath, RequestTable, TLC

CONSTANTS a1, k1, k2, p1, t1, u1, u2, root

Contended == {a1, k1, k2}    \* live status hides each account's work from the other
Alone == {a1, k1, p1}        \* an untracked request shares the queue
MCTasks == {t1}
MCUids == {root, u1, u2}
Name == (a1 :> "Authenticate") @@ (k1 :> "EnrollmentSession") @@ (k2 :> "IdentifyFor")
        @@ (p1 :> "TpmReadiness")
Sender == (a1 :> root) @@ (k1 :> u1) @@ (k2 :> u2) @@ (p1 :> u1)
About == (a1 :> u1) @@ (k1 :> u1) @@ (k2 :> u2) @@ (p1 :> Daemon)
MCClass == [r \in Requests |-> classify(Name[r])]
MCKind == [r \in Requests |-> request_kind(Name[r])]
MCTracked == {r \in Requests : MCKind[r] # "None"}
MCUid == [r \in Requests |-> Sender[r]]
MCOwner == [r \in Requests |-> About[r]]
MCSessions == {k1}
=============================================================================
